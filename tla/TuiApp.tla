------------------------------- MODULE TuiApp -------------------------------
(***************************************************************************)
(* The interactive viewer of one report (tui/app/mod.rs, AppRunner): draw  *)
(* a frame, wait up to 250 ms for an event, dispatch it.  Drawing is an    *)
(* action because it writes: the flame graph and the tool table keep the   *)
(* first visible row in a Cell and move it only when the selection leaves  *)
(* the window.  Names that WatchLoop has too begin with App here: both are *)
(* proved about in one module.                                             *)
(***************************************************************************)
EXTENDS TuiKeys

CONSTANTS Reports,   \* the reports the viewer may be opened on
          Heights    \* the heights the terminal may have when it draws

ASSUME ReportsAssumption == \A d \in Reports : IsReport(d)
\* Below 8 rows the layout solver decides what is cut.
ASSUME HeightsAssumption == Heights \subseteq {h \in Nat : h >= 8}

VARIABLES report,    \* the report
          app,       \* AppState
          height,    \* rows of the terminal at the last draw
          loop,      \* of AppRunner::run: "draw", "poll", "left"
          last       \* history: the kind of the key before
app_vars == <<report, app, height, loop, last>>

AppInit == /\ report \in Reports
           /\ app = NewState
           /\ height \in Heights
           /\ loop = "draw"
           /\ last = "other"

-----------------------------------------------------------------------------
\* Rows of the flame graph: borders, the meta line below the block, and
\* inside it the header and the footer of the selected turn.
FlameRows(h) == h - 5
\* Body rows of the tool table: borders, header, and the strip of 3 rows below.
RoiRows(h)   == h - 6

\* The first visible row: it moves only when the selection leaves the window.
Viewport(top, selected, rows, total) ==
    LET moved == CASE selected < top         -> selected
                   [] selected >= top + rows -> selected + 1 - rows
                   [] OTHER                  -> top
        most  == SaturatingSub(total, rows)
    IN  IF moved < most THEN moved ELSE most

\* The tool table puts the user-blocking tools last, below a separator, and
\* pads them down to the bottom while everything fits.
Separator(d) == IF d.work > 0 /\ d.blocking > 0 THEN 1 ELSE 0
Padding(d, h) ==
    IF d.blocking > 0 THEN SaturatingSub(RoiRows(h), Rows(d, "Roi") + Separator(d)) ELSE 0
RoiTotal(d, h) == Rows(d, "Roi") + Separator(d) + Padding(d, h)
RoiIndex(d, h, selected) ==
    IF selected < d.work THEN selected ELSE selected + Separator(d) + Padding(d, h)

Rendered(d, st, h) ==
    CASE st.detail # << >> -> st
      [] st.detail = << >> /\ st.view = "Flamegraph" ->
           [st EXCEPT !.flameTop =
              Viewport(@, st.sel["Flamegraph"], FlameRows(h), Len(d.turns))]
      [] st.detail = << >> /\ st.view = "Roi" ->
           [st EXCEPT !.roiTop =
              Viewport(@, RoiIndex(d, h, st.sel["Roi"]), RoiRows(h), RoiTotal(d, h))]
      [] OTHER -> st

AppDraw == /\ loop = "draw"
           /\ height' \in Heights
           /\ app' = Rendered(report, app, height')
           /\ loop' = "poll"
           /\ UNCHANGED <<report, last>>

\* poll times out, or the event is no key press: a resize, a key release.
AppIdle == /\ loop = "poll"
           /\ loop' = "draw"
           /\ UNCHANGED <<report, app, height, last>>

Kind(k) == CASE k = "g" -> "g" [] k \in SortKeys -> "sort" [] OTHER -> "other"
Key(k) == /\ loop = "poll"
          /\ last' = Kind(k)
          /\ \/ /\ Quits(app, k)
                /\ loop' = "left"
                /\ UNCHANGED app
             \/ /\ ~Quits(app, k)
                /\ app' = Dispatch(report, app, k)
                /\ loop' = "draw"
          /\ UNCHANGED <<report, height>>

AppNext == AppDraw \/ AppIdle \/ \E k \in Keys : Key(k)
AppSpec == AppInit /\ [][AppNext]_app_vars

-----------------------------------------------------------------------------
\* Every selection names a row that exists, in the tables (whose renderers index
\* or slice by it) and in the detail view, whatever the sizes of the report.
AppTypeOK == /\ report \in Reports /\ height \in Heights
             /\ loop \in {"draw", "poll", "left"} /\ last \in {"g", "sort", "other"}
             /\ app \in AppStates(report)
             /\ \A v \in Views : app.sel[v] = 0 \/ app.sel[v] < Rows(report, v)

\* While the detail view is open it shows the turn that is selected in the flame
\* graph below it, so that closing it returns to the row it was opened from; its
\* own selection and the calls it expanded exist in that turn.
DetailIsOfSelectedTurn ==
    app.detail # << >> =>
        LET dt == app.detail[1]
        IN  /\ app.view = "Flamegraph"
            /\ app.sel["Flamegraph"] < Len(report.turns)
            /\ report.turns[app.sel["Flamegraph"] + 1].id = dt.turn
            /\ \A i \in {dt.tool} \cup dt.expanded : i = 0 \/ i < Calls(report, dt.turn)

\* In a frame, the selected row is inside the window, and the window is not past
\* the end while rows above it are hidden: through resizes, sorting, switching
\* views, and selections that step over the separator and the padding.
SelectedRowIsDrawn ==
    loop = "poll" /\ app.detail = << >> =>
        LET Within(top, index, rows, total) ==
                /\ total > 0 => top <= index /\ index < top + rows
                /\ top > 0 => top + rows <= total
        IN  /\ app.view = "Flamegraph" =>
                  Within(app.flameTop, app.sel["Flamegraph"], FlameRows(height),
                         Len(report.turns))
            /\ app.view = "Roi" /\ Rows(report, "Roi") > 0 =>
                  Within(app.roiTop, RoiIndex(report, height, app.sel["Roi"]),
                         RoiRows(height), RoiTotal(report, height))

\* Whatever keys, resizes and sorts came before, what a frame shows as selected is
\* what the keys act on: a row that exists, inside the window, or the open detail
\* view of that row.
SelectionIsShown == AppTypeOK /\ DetailIsOfSelectedTurn /\ SelectedRowIsDrawn

\* gg is two keys in a row: a selection moves up by more than one row only when
\* the key before was g as well, or when a sort key starts the table afresh.  A
\* half-typed g is never carried over another key, the help or the detail view.
Cursor(st) == IF st.detail = << >> THEN st.sel[st.view] ELSE st.detail[1].tool
JumpsUpAreTyped ==
    [][app'.view = app.view /\ (app'.detail = << >>) = (app.detail = << >>)
       /\ Cursor(app') + 1 < Cursor(app)
         => \/ last = "g" /\ last' = "g"
            \/ app.view = "Roi" /\ last' = "sort"]_app_vars
=============================================================================
