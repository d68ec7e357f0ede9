------------------------------ MODULE TuiKeys ------------------------------
(***************************************************************************)
(* What a key does to the terminal interface: `dispatch` and its helpers   *)
(* (tui/app/state.rs), as operators on an AppState record.  TuiApp runs    *)
(* them in `analyze --export tui`, WatchLoop in `watch`, which rebuilds an *)
(* AppState for every key.                                                 *)
(*                                                                         *)
(* "Up" and "Down" also stand for k and j, "G" for Shift+g: every handler  *)
(* treats them alike.  h and l are keys of their own, because the detail   *)
(* view lets them through and swallows Tab and BackTab.                    *)
(***************************************************************************)
EXTENDS Naturals, Sequences

NumberedViews == <<"Flamegraph", "Roi", "Aggregate", "Models", "McpWaste">>
Views    == {NumberedViews[i] : i \in 1..5}
Digit    == [one |-> 1, two |-> 2, three |-> 3, four |-> 4, five |-> 5]
SortKeys == {"t", "c", "s", "p"}
QuitKeys == {"q", "CtrlC"}
Keys     == DOMAIN Digit \cup SortKeys \cup QuitKeys \cup
            {"G", "g", "Esc", "Enter", "Up", "Down", "Tab", "BackTab",
             "h", "l", "?", "u", "other"}

\* View::next is a cycle and View::prev its inverse.
NextView == [v \in Views |->
    CHOOSE w \in Views : \E i \in 1..5 : /\ NumberedViews[i] = v
                                         /\ NumberedViews[(i % 5) + 1] = w]
PrevView == [v \in Views |-> CHOOSE w \in Views : NextView[w] = v]

SaturatingSub(a, b) == IF a < b THEN 0 ELSE a - b

(***************************************************************************)
(* A report as the interface sees it: the turns with the number of their   *)
(* calls, and how many rows each table has.  No servers: no waste report.  *)
(* Turn ids are strings in the code; any infinite set does.                *)
(***************************************************************************)
IsReport(d) == /\ d.turns \in Seq([id : Nat, calls : Nat])
               /\ {d.work, d.blocking, d.models, d.servers} \subseteq Nat
Rows(d, v) == CASE v = "Flamegraph" -> Len(d.turns)
                [] v = "Roi"        -> d.work + d.blocking
                [] v = "Models"     -> d.models
                [] v = "McpWaste"   -> d.servers
                [] OTHER            -> 0
Has(d, id)   == \E i \in DOMAIN d.turns : d.turns[i].id = id
Calls(d, id) == IF Has(d, id)
                THEN d.turns[CHOOSE i \in DOMAIN d.turns : d.turns[i].id = id].calls
                ELSE 0

\* AppState::new.  sel[v] is roi_selected, flame_selected, models_selected or
\* the server cursor; detail is empty or holds one TurnDetailState.
NewState == [view |-> "Flamegraph", sort |-> "t", sel |-> [v \in Views |-> 0],
             help |-> FALSE, gg |-> FALSE, detail |-> << >>, unused |-> FALSE,
             flameTop |-> 0, roiTop |-> 0]
NewDetail(id) == [turn |-> id, tool |-> 0, expanded |-> {}, gg |-> FALSE]

AppStates(d) ==
    [view : Views, sort : SortKeys, sel : [Views -> Nat], help : BOOLEAN, gg : BOOLEAN,
     detail : Seq([turn : {d.turns[i].id : i \in DOMAIN d.turns}, tool : Nat,
                   expanded : SUBSET Nat, gg : BOOLEAN]),
     unused : BOOLEAN, flameTop : Nat, roiTop : Nat]

ScrollUp(st) == [st EXCEPT !.sel[st.view] = SaturatingSub(@, 1)]
ScrollDown(d, st) ==
    [st EXCEPT !.sel[st.view] = IF @ + 1 < Rows(d, st.view) THEN @ + 1 ELSE @]
HasGG(v)          == v \notin {"Aggregate", "McpWaste"}
ScrollToTop(st)   == IF HasGG(st.view) THEN [st EXCEPT !.sel[st.view] = 0] ELSE st
ScrollToBottom(d, st) ==
    IF HasGG(st.view)
    THEN [st EXCEPT !.sel[st.view] = SaturatingSub(Rows(d, st.view), 1)]
    ELSE st

\* dispatch_detail on the keys it keeps, Esc apart.
DetailKey(dt, count, k) ==
    CASE k = "g"     -> [dt EXCEPT !.gg = ~@, !.tool = IF dt.gg THEN 0 ELSE @]
      [] k = "G"     -> [dt EXCEPT !.gg = FALSE, !.tool = SaturatingSub(count, 1)]
      [] k = "Enter" -> [dt EXCEPT !.gg = FALSE,
                                   !.expanded = IF dt.tool \in @ THEN @ \ {dt.tool}
                                                                 ELSE @ \cup {dt.tool}]
      [] k = "Up"    -> [dt EXCEPT !.gg = FALSE, !.tool = SaturatingSub(@, 1)]
      [] k = "Down"  -> [dt EXCEPT !.gg = FALSE,
                                   !.tool = IF @ + 1 < count THEN @ + 1 ELSE @]
      [] OTHER       -> [dt EXCEPT !.gg = FALSE]
PopKeys == DOMAIN Digit \cup {"h", "l"}
WrongDispatchDetail(d, st, k) ==
    IF k = "Esc"
    THEN [st EXCEPT !.detail = << >>, !.gg = FALSE]
    ELSE [st EXCEPT !.detail = <<DetailKey(@[1], Calls(d, @[1].turn), k)>>]
DispatchDetail(d, st, k) ==
    IF k \in PopKeys \cup {"Esc"}
    THEN [st EXCEPT !.detail = << >>, !.gg = FALSE]
    ELSE [st EXCEPT !.detail = <<DetailKey(@[1], Calls(d, @[1].turn), k)>>]
\* DetailFlow::FallThrough: the top level sees the key too.
FallsThrough(st, k) == st.detail = << >> \/ k \in PopKeys \cup {"?"}

OpenDetail(d, st) ==
    IF st.sel["Flamegraph"] < Len(d.turns)
    THEN [st EXCEPT !.detail = <<NewDetail(d.turns[st.sel["Flamegraph"] + 1].id)>>]
    ELSE st

\* The top level of dispatch, after gg and G.
DispatchView(d, st, k) ==
    CASE k \in DOMAIN Digit                      -> [st EXCEPT !.view = NumberedViews[Digit[k]]]
      [] st.view = "Roi" /\ k \in SortKeys       -> [st EXCEPT !.sort = k, !.sel["Roi"] = 0]
      [] st.view = "Models" /\ k = "Esc"         -> [st EXCEPT !.view = "Flamegraph"]
      [] st.view = "McpWaste" /\ k = "u"         -> [st EXCEPT !.unused = ~@]
      [] st.view = "Flamegraph" /\ k = "Enter"   -> OpenDetail(d, st)
      [] k \in {"Tab", "l"}                      -> [st EXCEPT !.view = NextView[@]]
      [] k \in {"BackTab", "h"}                  -> [st EXCEPT !.view = PrevView[@]]
      [] k = "?"                                 -> [st EXCEPT !.help = TRUE]
      [] k = "Up"                                -> ScrollUp(st)
      [] k = "Down"                              -> ScrollDown(d, st)
      [] OTHER                                   -> st

WrongDispatchTop(d, st, k) ==
    CASE k = "G" -> ScrollToBottom(d, st)
      [] k = "g" -> IF st.gg THEN [ScrollToTop(st) EXCEPT !.gg = FALSE]
                             ELSE [st EXCEPT !.gg = TRUE]
      [] OTHER   -> DispatchView(d, st, k)
DispatchTop(d, st, k) ==
    CASE k = "G" -> [ScrollToBottom(d, st) EXCEPT !.gg = FALSE]
      [] k = "g" -> IF st.gg THEN [ScrollToTop(st) EXCEPT !.gg = FALSE]
                             ELSE [st EXCEPT !.gg = TRUE]
      [] OTHER   -> DispatchView(d, [st EXCEPT !.gg = FALSE], k)

\* dispatch.  While the help is open, any key closes it and does nothing else.
Quits(st, k) == ~st.help /\ k \in QuitKeys
Dispatch(d, st, k) ==
    IF st.help THEN [st EXCEPT !.help = FALSE, !.gg = FALSE]
    ELSE LET s == IF st.detail = << >> THEN st ELSE DispatchDetail(d, st, k)
         IN  IF FallsThrough(st, k) THEN DispatchTop(d, s, k) ELSE s
=============================================================================
