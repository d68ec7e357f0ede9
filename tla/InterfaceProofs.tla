-------------------------- MODULE InterfaceProofs ---------------------------
(***************************************************************************)
(* Proofs about the two interfaces.  The terminal, for any report: about   *)
(* the keys (TuiKeys), that what a key does to an AppState leaves it an    *)
(* AppState of the same report; about the viewer (TuiApp), on any terminal *)
(* of at least eight rows, that what is selected is shown and moves up by  *)
(* more than a row only where that was typed; and about the watch loop     *)
(* (WatchLoop), whatever the watched file may hold and however often it    *)
(* changes, that the terminal is restored and the screen is true.          *)
(* The web (Dashboard), for any number of sessions, requests, workers and  *)
(* processes that open the store: its schema is whole and its settings are *)
(* those asked for, and what a browser is told is true.                    *)
(***************************************************************************)
EXTENDS TuiApp, WatchLoop, Dashboard, FiniteSetTheorems, SequenceTheorems, TLAPS

-----------------------------------------------------------------------------
(* The keys.                                                               *)

Detail(d) == [turn : {d.turns[i].id : i \in DOMAIN d.turns}, tool : Nat,
              expanded : SUBSET Nat, gg : BOOLEAN]

LEMMA ViewNames == Views = {"Flamegraph", "Roi", "Aggregate", "Models", "McpWaste"}
<1>1. 1..5 = {1, 2, 3, 4, 5}
  OBVIOUS
<1> QED
  BY <1>1 DEF Views, NumberedViews

LEMMA NextViewIs ==
  /\ NextView["Flamegraph"] = "Roi"
  /\ NextView["Roi"] = "Aggregate"
  /\ NextView["Aggregate"] = "Models"
  /\ NextView["Models"] = "McpWaste"
  /\ NextView["McpWaste"] = "Flamegraph"
<1>1. \A v \in Views : NextView[v] = CHOOSE w \in Views : \E i \in 1..5 : /\ NumberedViews[i] = v
                                         /\ NumberedViews[(i % 5) + 1] = w
  BY DEF NextView
<1>2. /\ 1 % 5 = 1 /\ 2 % 5 = 2 /\ 3 % 5 = 3 /\ 4 % 5 = 4 /\ 5 % 5 = 0
  OBVIOUS
<1>3. 1..5 = {1, 2, 3, 4, 5}
  OBVIOUS
<1>4. \A v, w \in Views :
        (\E i \in 1..5 : NumberedViews[i] = v /\ NumberedViews[(i % 5) + 1] = w)
        <=> <<v, w>> \in {<<"Flamegraph", "Roi">>, <<"Roi", "Aggregate">>, <<"Aggregate", "Models">>,
                        <<"Models", "McpWaste">>, <<"McpWaste", "Flamegraph">>}
  BY <1>2, <1>3, ViewNames DEF NumberedViews
<1> QED
  BY <1>1, <1>4, ViewNames

LEMMA ViewsCycle == \A v \in Views : NextView[v] \in Views /\ PrevView[v] \in Views
<1>1. \A v \in Views : PrevView[v] = CHOOSE w \in Views : NextView[w] = v
  BY DEF PrevView
<1> QED
  BY <1>1, NextViewIs, ViewNames
LEMMA SmallSeq ==
  ASSUME NEW S
  PROVE  /\ << >> \in Seq(S) /\ Len(<< >>) = 0
         /\ \A x \in S : <<x>> \in Seq(S) /\ Len(<<x>>) = 1 /\ <<x>>[1] = x
  OBVIOUS

LEMMA TheOne ==
  ASSUME NEW S, NEW s \in Seq(S), Len(s) <= 1, s # << >>
  PROVE  s = <<s[1]>> /\ s[1] \in S
<1>1. Len(s) \in Nat /\ Len(s) # 0
  BY EmptySeq
<1>2. \A n \in Nat : n # 0 /\ n <= 1 => n = 1
  OBVIOUS
<1>3. Len(s) = 1
  BY <1>1, <1>2
<1>4. s[1] \in S
  BY <1>3, ElementOfSeq
<1> QED
  BY <1>3, <1>4

LEMMA RowsNat == ASSUME NEW d, IsReport(d), NEW v \in Views PROVE Rows(d, v) \in Nat
  BY ViewNames DEF IsReport, Rows

LEMMA CallsNat == ASSUME NEW d, IsReport(d), NEW id PROVE Calls(d, id) \in Nat
<1>1. CASE Has(d, id)
  <2>1. PICK i \in DOMAIN d.turns : Calls(d, id) = d.turns[i].calls
    BY <1>1 DEF Has, Calls
  <2>2. d.turns \in Seq([id : Nat, calls : Nat]) /\ i \in 1..Len(d.turns)
    BY LenProperties DEF IsReport
  <2>3. d.turns[i] \in [id : Nat, calls : Nat]
    BY <2>2, ElementOfSeq
  <2> QED
    BY <2>1, <2>3
<1> QED
  BY <1>1 DEF Calls

LEMMA SubNat ==
  ASSUME NEW a \in Nat, NEW b \in Nat
  PROVE  SaturatingSub(a, b) \in Nat /\ SaturatingSub(a, b) <= a
  BY DEF SaturatingSub

LEMMA FieldsOK ==
  ASSUME NEW d, NEW st \in AppStates(d)
  PROVE  /\ st.view \in Views /\ st.sort \in SortKeys /\ st.sel \in [Views -> Nat]
         /\ {st.help, st.gg, st.unused} \subseteq BOOLEAN
         /\ st.detail \in Seq(Detail(d))
         /\ {st.flameTop, st.roiTop} \subseteq Nat
  BY DEF AppStates, Detail

-----------------------------------------------------------------------------
(* At most one detail view, of a turn of the report.                       *)
Shaped(d, st) == st \in AppStates(d) /\ Len(st.detail) <= 1

LEMMA DetailKeyShaped ==
  ASSUME NEW d, NEW dt \in Detail(d), NEW count \in Nat, NEW k
  PROVE  DetailKey(dt, count, k) \in Detail(d)
<1>1. /\ dt.tool \in Nat /\ dt.gg \in BOOLEAN /\ dt.expanded \in SUBSET Nat
      /\ \A n \in Nat, b \in BOOLEAN, e \in SUBSET Nat :
            /\ [dt EXCEPT !.gg = b] \in Detail(d)
            /\ [dt EXCEPT !.gg = b, !.tool = n] \in Detail(d)
            /\ [dt EXCEPT !.gg = b, !.expanded = e] \in Detail(d)
  BY DEF Detail
<1>2. /\ SaturatingSub(count, 1) \in Nat /\ SaturatingSub(dt.tool, 1) \in Nat
  BY <1>1, SubNat
<1>3. CASE k = "g"
  BY <1>1, <1>3 DEF DetailKey, Detail
<1>4. CASE k = "G"
  BY <1>1, <1>2, <1>4 DEF DetailKey
<1>5. CASE k = "Enter"
  BY <1>1, <1>5 DEF DetailKey
<1>6. CASE k = "Up"
  BY <1>1, <1>2, <1>6 DEF DetailKey
<1>7. CASE k = "Down"
  <2>1. \A n \in Nat : (IF n + 1 < count THEN n + 1 ELSE n) \in Nat
    OBVIOUS
  <2> QED
    BY <1>1, <1>7, <2>1 DEF DetailKey
<1>8. CASE k \notin {"g", "G", "Enter", "Up", "Down"}
  BY <1>1, <1>8 DEF DetailKey
<1> QED
  BY <1>3, <1>4, <1>5, <1>6, <1>7, <1>8

LEMMA DetailSet ==
  ASSUME NEW d, NEW st, Shaped(d, st), NEW q \in Seq(Detail(d)), Len(q) <= 1
  PROVE  Shaped(d, [st EXCEPT !.detail = q]) /\ Shaped(d, [st EXCEPT !.detail = q, !.gg = FALSE])
  BY DEF Shaped, AppStates, Detail

LEMMA TheDetail ==
  ASSUME NEW d, NEW st, Shaped(d, st), st.detail # << >>
  PROVE  st.detail = <<st.detail[1]>> /\ st.detail[1] \in Detail(d)
  BY FieldsOK, TheOne DEF Shaped

LEMMA DispatchDetailShaped ==
  ASSUME NEW d, IsReport(d), NEW st, Shaped(d, st), st.detail # << >>, NEW k
  PROVE  Shaped(d, DispatchDetail(d, st, k))
<1> DEFINE dt == DetailKey(st.detail[1], Calls(d, st.detail[1].turn), k)
<1>1. dt \in Detail(d)
  BY TheDetail, CallsNat, DetailKeyShaped
<1> HIDE DEF dt
<1>2. /\ <<dt>> \in Seq(Detail(d)) /\ Len(<<dt>>) <= 1
      /\ << >> \in Seq(Detail(d)) /\ Len(<< >>) <= 1
  BY <1>1, SmallSeq
<1>3. Shaped(d, [st EXCEPT !.detail = <<dt>>])
  BY <1>2, DetailSet
<1>4. Shaped(d, [st EXCEPT !.detail = << >>, !.gg = FALSE])
  BY <1>2, DetailSet
<1> QED
  BY <1>3, <1>4 DEF DispatchDetail, dt

LEMMA OpenDetailShaped ==
  ASSUME NEW d, IsReport(d), NEW st, Shaped(d, st)
  PROVE  Shaped(d, OpenDetail(d, st))
<1>1. CASE st.sel["Flamegraph"] < Len(d.turns)
  <2>1. st.sel["Flamegraph"] \in Nat
    BY FieldsOK, ViewNames DEF Shaped
  <2>2. st.sel["Flamegraph"] + 1 \in DOMAIN d.turns
    BY <1>1, <2>1, LenProperties DEF IsReport
  <2> DEFINE dt == NewDetail(d.turns[st.sel["Flamegraph"] + 1].id)
  <2>3. dt \in Detail(d)
    BY <2>2 DEF NewDetail, Detail
  <2> HIDE DEF dt
  <2>4. <<dt>> \in Seq(Detail(d)) /\ Len(<<dt>>) <= 1
    BY <2>3, SmallSeq
  <2>5. Shaped(d, [st EXCEPT !.detail = <<dt>>])
    BY <2>4, DetailSet
  <2> QED
    BY <1>1, <2>5 DEF OpenDetail, dt
<1> QED
  BY <1>1 DEF OpenDetail

(* The branches of DispatchView: their guards exclude each other.          *)
ViewStep(d, st, k, to) ==
  \/ \E v \in Views : to = [st EXCEPT !.view = v]
  \/ st.view = "Roi" /\ k \in SortKeys /\ to = [st EXCEPT !.sort = k, !.sel["Roi"] = 0]
  \/ to = [st EXCEPT !.unused = ~@]
  \/ st.view = "Flamegraph" /\ k = "Enter" /\ to = OpenDetail(d, st)
  \/ k = "?" /\ to = [st EXCEPT !.help = TRUE]
  \/ k = "Up" /\ to = ScrollUp(st)
  \/ k = "Down" /\ to = ScrollDown(d, st)
  \/ to = st

LEMMA ViewCases ==
  ASSUME NEW d, NEW st, st.view \in Views, NEW k
  PROVE  ViewStep(d, st, k, DispatchView(d, st, k))
<1> DEFINE to == DispatchView(d, st, k)
<1> SUFFICES ViewStep(d, st, k, to)
  OBVIOUS
<1> USE DEF Digit, SortKeys, ViewStep
<1>1. DOMAIN Digit = {"one", "two", "three", "four", "five"}
  OBVIOUS
<1>2. CASE k \in DOMAIN Digit
  <2>1. NumberedViews[Digit[k]] \in Views
    BY <1>2 DEF Views
  <2>2. to = [st EXCEPT !.view = NumberedViews[Digit[k]]]
    BY <1>1, <1>2 DEF DispatchView
  <2> QED
    BY <2>1, <2>2
<1>3. CASE st.view = "Roi" /\ k \in SortKeys
  BY <1>1, <1>3 DEF DispatchView
<1>4. CASE st.view = "Models" /\ k = "Esc"
  BY <1>1, <1>4, ViewNames DEF DispatchView
<1>5. CASE st.view = "McpWaste" /\ k = "u"
  BY <1>1, <1>5 DEF DispatchView
<1>6. CASE st.view = "Flamegraph" /\ k = "Enter"
  BY <1>1, <1>6 DEF DispatchView
<1>7. CASE k \in {"Tab", "l", "BackTab", "h"}
  BY <1>1, <1>7, ViewsCycle DEF DispatchView
<1>8. CASE k \in {"?", "Up", "Down"}
  BY <1>1, <1>8 DEF DispatchView
<1>9. CASE /\ k \notin DOMAIN Digit \cup {"Tab", "l", "BackTab", "h", "?", "Up", "Down"}
           /\ ~(st.view = "Roi" /\ k \in SortKeys)
           /\ ~(st.view = "Models" /\ k = "Esc")
           /\ ~(st.view = "McpWaste" /\ k = "u")
           /\ ~(st.view = "Flamegraph" /\ k = "Enter")
  <2>1. to = st
    BY <1>9 DEF DispatchView
  <2> QED
    BY <2>1
<1> QED
  BY <1>2, <1>3, <1>4, <1>5, <1>6, <1>7, <1>8, <1>9

LEMMA DispatchViewShaped ==
  ASSUME NEW d, IsReport(d), NEW st, Shaped(d, st), NEW k
  PROVE  Shaped(d, DispatchView(d, st, k))
<1>1. /\ \A v \in Views : Shaped(d, [st EXCEPT !.view = v])
      /\ Shaped(d, [st EXCEPT !.unused = ~@]) /\ Shaped(d, [st EXCEPT !.help = TRUE])
      /\ \A v \in Views, n \in Nat : Shaped(d, [st EXCEPT !.sel[v] = n])
      /\ \A s \in SortKeys : Shaped(d, [st EXCEPT !.sort = s, !.sel["Roi"] = 0])
  BY ViewNames DEF Shaped, AppStates
<1>2. st.view \in Views /\ st.sel[st.view] \in Nat
  BY FieldsOK DEF Shaped
<1>3. Shaped(d, ScrollUp(st))
  BY <1>1, <1>2, SubNat DEF ScrollUp
<1>4. Shaped(d, ScrollDown(d, st))
  <2>1. \A n \in Nat : (IF n + 1 < Rows(d, st.view) THEN n + 1 ELSE n) \in Nat
    OBVIOUS
  <2> QED
    BY <1>1, <1>2, <2>1 DEF ScrollDown
<1>5. Shaped(d, OpenDetail(d, st))
  BY OpenDetailShaped
<1>6. ViewStep(d, st, k, DispatchView(d, st, k))
  BY <1>2, ViewCases
<1> QED
  BY <1>1, <1>2, <1>3, <1>4, <1>5, <1>6 DEF ViewStep

LEMMA DispatchTopShaped ==
  ASSUME NEW d, IsReport(d), NEW st, Shaped(d, st), NEW k
  PROVE  Shaped(d, DispatchTop(d, st, k))
<1>1. \A x : Shaped(d, x) => \A b \in BOOLEAN : Shaped(d, [x EXCEPT !.gg = b])
  BY DEF Shaped, AppStates
<1>2. st.view \in Views /\ SaturatingSub(Rows(d, st.view), 1) \in Nat
  BY FieldsOK, RowsNat, SubNat DEF Shaped
<1>3. \A v \in Views, n \in Nat : Shaped(d, [st EXCEPT !.sel[v] = n])
  BY DEF Shaped, AppStates
<1>4. Shaped(d, ScrollToTop(st)) /\ Shaped(d, ScrollToBottom(d, st))
  BY <1>2, <1>3 DEF ScrollToTop, ScrollToBottom
<1>5. CASE k \in {"g", "G"}
  BY <1>1, <1>4, <1>5 DEF DispatchTop
<1>6. CASE k \notin {"g", "G"}
  BY <1>1, <1>6, DispatchViewShaped DEF DispatchTop
<1> QED
  BY <1>5, <1>6

(* A key takes an AppState to one of the same report, its detail view      *)
(* included.                                                               *)
LEMMA DispatchShaped ==
  ASSUME NEW d, IsReport(d), NEW st, Shaped(d, st), NEW k
  PROVE  Shaped(d, Dispatch(d, st, k))
<1>1. Shaped(d, [st EXCEPT !.help = FALSE, !.gg = FALSE])
  BY DEF Shaped, AppStates
<1> DEFINE s == IF st.detail = << >> THEN st ELSE DispatchDetail(d, st, k)
<1>2. Shaped(d, s)
  BY DispatchDetailShaped
<1> HIDE DEF s
<1>3. Shaped(d, DispatchTop(d, s, k))
  BY <1>2, DispatchTopShaped
<1> QED
  BY <1>1, <1>2, <1>3 DEF Dispatch, s

-----------------------------------------------------------------------------
(* The viewer.                                                             *)

InRange(d, st) == \A v \in Views : st.sel[v] = 0 \/ st.sel[v] < Rows(d, v)

(* The open detail view is of the turn selected below it.                  *)
DetailOf(d, st, dt) ==
  /\ st.view = "Flamegraph"
  /\ st.sel["Flamegraph"] < Len(d.turns)
  /\ d.turns[st.sel["Flamegraph"] + 1].id = dt.turn
  /\ \A i \in {dt.tool} \cup dt.expanded : i = 0 \/ i < Calls(d, dt.turn)

Good(d, st) == /\ Shaped(d, st) /\ InRange(d, st)
               /\ st.detail # << >> => DetailOf(d, st, st.detail[1])

(* A half-typed g was the last key, and no help and no detail view was     *)
(* opened since.                                                           *)
GgOK(st, key) ==
  /\ st.gg => key = "g" /\ st.detail = << >> /\ ~st.help
  /\ st.detail # << >> /\ st.detail[1].gg => key = "g" /\ ~st.help

(* What JumpsUpAreTyped says of one key.                                   *)
JumpOK(st, to, key, next) ==
  to.view = st.view /\ (to.detail = << >>) = (st.detail = << >>) /\ Cursor(to) + 1 < Cursor(st)
    => \/ key = "g" /\ next = "g"
       \/ st.view = "Roi" /\ next = "sort"

KeyOK(d, st, to, key, next) == Good(d, to) /\ GgOK(to, next) /\ JumpOK(st, to, key, next)

-----------------------------------------------------------------------------
LEMMA CursorNat == ASSUME NEW d, NEW st, Good(d, st) PROVE Cursor(st) \in Nat
<1>1. CASE st.detail = << >>
  BY <1>1, FieldsOK DEF Cursor, Good, Shaped
<1>2. CASE st.detail # << >>
  BY <1>2, TheDetail DEF Cursor, Good, Detail
<1> QED
  BY <1>1, <1>2

(* Moving one selection, and nothing else that Good speaks of.             *)
LEMMA SelectGood ==
  ASSUME NEW d, NEW st, Good(d, st), st.detail = << >>, NEW n \in Nat,
         n = 0 \/ n < Rows(d, st.view)
  PROVE  Good(d, [st EXCEPT !.sel[st.view] = n])
<1>1. st \in AppStates(d) /\ st.view \in Views /\ st.sel \in [Views -> Nat]
  BY FieldsOK DEF Good, Shaped
<1>2. Shaped(d, [st EXCEPT !.sel[st.view] = n])
  BY <1>1 DEF Good, Shaped, AppStates
<1>3. InRange(d, [st EXCEPT !.sel[st.view] = n])
  BY <1>1 DEF Good, InRange, AppStates
<1>4. [st EXCEPT !.sel[st.view] = n].detail = << >>
  BY <1>1 DEF AppStates
<1> QED
  BY <1>2, <1>3, <1>4 DEF Good

(* Rows of a table of so many, as the keys compute them.                   *)
LEMMA RowBelow ==
  ASSUME NEW n \in Nat, NEW rows \in Nat, n = 0 \/ n < rows
  PROVE  \A m \in {SaturatingSub(n, 1), SaturatingSub(rows, 1),
                  IF n + 1 < rows THEN n + 1 ELSE n} :
           m \in Nat /\ (m = 0 \/ m < rows) /\ ~(m + 1 < n)
<1>1. /\ SaturatingSub(n, 1) = (IF n < 1 THEN 0 ELSE n - 1)
      /\ SaturatingSub(rows, 1) = (IF rows < 1 THEN 0 ELSE rows - 1)
  BY DEF SaturatingSub
<1>2. \A m \in {IF n < 1 THEN 0 ELSE n - 1, IF rows < 1 THEN 0 ELSE rows - 1,
               IF n + 1 < rows THEN n + 1 ELSE n} :
        m \in Nat /\ (m = 0 \/ m < rows) /\ ~(m + 1 < n)
  OBVIOUS
<1> QED
  BY <1>1, <1>2

LEMMA ScrollOK ==
  ASSUME NEW d, IsReport(d), NEW st, Good(d, st), st.detail = << >>, ~st.gg, NEW key, NEW next
  PROVE  /\ KeyOK(d, st, ScrollUp(st), key, next)
         /\ KeyOK(d, st, ScrollDown(d, st), key, next)
<1> DEFINE n == st.sel[st.view]
<1>1. /\ st \in AppStates(d) /\ st.view \in Views /\ st.sel \in [Views -> Nat] /\ n \in Nat
      /\ n = 0 \/ n < Rows(d, st.view)
      /\ Rows(d, st.view) \in Nat
  BY FieldsOK, RowsNat DEF Good, Shaped, InRange
<1> HIDE DEF n
<1>2. PICK up \in Nat : up = SaturatingSub(n, 1) /\ (up = 0 \/ up < Rows(d, st.view)) /\ ~(up + 1 < n)
  BY <1>1, RowBelow
<1>3. PICK down \in Nat : /\ down = IF n + 1 < Rows(d, st.view) THEN n + 1 ELSE n
                          /\ down = 0 \/ down < Rows(d, st.view)
                          /\ ~(down + 1 < n)
  BY <1>1, RowBelow
<1>4. ASSUME NEW m \in Nat, m = 0 \/ m < Rows(d, st.view), ~(m + 1 < n)
      PROVE  KeyOK(d, st, [st EXCEPT !.sel[st.view] = m], key, next)
  <2> DEFINE to == [st EXCEPT !.sel[st.view] = m]
  <2>1. Good(d, to)
    BY <1>4, SelectGood
  <2>2. to.detail = << >> /\ to.gg = st.gg /\ to.view = st.view /\ to.sel[to.view] = m
    BY <1>1 DEF AppStates
  <2>3. Cursor(to) = m /\ Cursor(st) = n
    BY <2>2 DEF Cursor, n
  <2> HIDE DEF to
  <2>4. KeyOK(d, st, to, key, next)
    BY <1>4, <2>1, <2>2, <2>3 DEF KeyOK, GgOK, JumpOK
  <2> QED
    BY <2>4 DEF to
<1>5. ScrollUp(st) = [st EXCEPT !.sel[st.view] = up]
  BY <1>2 DEF ScrollUp, n
<1>6. ScrollDown(d, st) = [st EXCEPT !.sel[st.view] = down]
  BY <1>3 DEF ScrollDown, n
<1> QED
  BY <1>2, <1>3, <1>4, <1>5, <1>6

LEMMA OpenOK ==
  ASSUME NEW d, IsReport(d), NEW st, Good(d, st), st.detail = << >>, ~st.gg,
         st.view = "Flamegraph", NEW key, NEW next
  PROVE  KeyOK(d, st, OpenDetail(d, st), key, next)
<1> DEFINE sel == st.sel["Flamegraph"]
           dt == NewDetail(d.turns[sel + 1].id)
           to == [st EXCEPT !.detail = <<dt>>]
<1>1. CASE ~(sel < Len(d.turns))
  <2>1. OpenDetail(d, st) = st
    BY <1>1 DEF OpenDetail
  <2>2. KeyOK(d, st, st, key, next)
    <3>1. Cursor(st) \in Nat
      BY FieldsOK DEF Cursor, Good, Shaped
    <3>2. ~(Cursor(st) + 1 < Cursor(st))
      BY <3>1
    <3> QED
      BY <3>2 DEF KeyOK, GgOK, JumpOK
  <2> QED
    BY <2>1, <2>2
<1>2. CASE sel < Len(d.turns)
  <2>1. OpenDetail(d, st) = to
    BY <1>2 DEF OpenDetail
  <2>2. Shaped(d, to)
    BY <2>1, OpenDetailShaped DEF Good
  <2>3. /\ to.view = st.view /\ to.sel = st.sel /\ to.gg = st.gg /\ to.detail = <<dt>>
    BY DEF Good, Shaped, AppStates
  <2>4. <<dt>> # << >> /\ <<dt>>[1] = dt
    OBVIOUS
  <2>5. dt.turn = d.turns[sel + 1].id /\ dt.tool = 0 /\ dt.expanded = {} /\ dt.gg = FALSE
    BY DEF NewDetail
  <2>6. DetailOf(d, to, dt)
    BY <1>2, <2>3, <2>5 DEF DetailOf
  <2> HIDE DEF to, dt
  <2>7. Good(d, to)
    BY <2>2, <2>3, <2>4, <2>6 DEF Good, InRange
  <2>8. KeyOK(d, st, to, key, next)
    BY <2>3, <2>4, <2>5, <2>7 DEF KeyOK, GgOK, JumpOK
  <2> QED
    BY <2>1, <2>8
<1> QED
  BY <1>1, <1>2

(* Steps that change no selection and open nothing.                        *)
LEMMA StillOK ==
  ASSUME NEW d, NEW st, Good(d, st), st.detail = << >>, ~st.gg, NEW to, Shaped(d, to),
         to.detail = << >>, to.sel = st.sel, to.gg = st.gg, NEW key, NEW next
  PROVE  KeyOK(d, st, to, key, next)
<1>1. st.sel[st.view] \in Nat
  BY FieldsOK DEF Good, Shaped
<1>2. to.view = st.view => ~(Cursor(to) + 1 < Cursor(st))
  BY <1>1 DEF Cursor
<1> QED
  BY <1>2 DEF KeyOK, Good, InRange, GgOK, JumpOK

LEMMA ViewKeyOK ==
  ASSUME NEW d, IsReport(d), NEW st, Good(d, st), st.detail = << >>, ~st.gg, NEW k, NEW key
  PROVE  /\ KeyOK(d, st, DispatchView(d, st, k), key, Kind(k))
         /\ k # "Enter" => DispatchView(d, st, k).detail = << >>
<1> SUFFICES ASSUME NEW to, to = DispatchView(d, st, k)
             PROVE  KeyOK(d, st, to, key, Kind(k)) /\ (k # "Enter" => to.detail = << >>)
  OBVIOUS
<1>1. st \in AppStates(d) /\ st.view \in Views /\ Shaped(d, to)
  BY FieldsOK, DispatchViewShaped DEF Good, Shaped
<1>2. ViewStep(d, st, k, to)
  BY <1>1, ViewCases
<1>3. CASE to = st
  BY <1>1, <1>3, StillOK
<1>4. CASE \/ \E v \in Views : to = [st EXCEPT !.view = v]
           \/ to = [st EXCEPT !.unused = ~@]
           \/ to = [st EXCEPT !.help = TRUE]
  <2>1. to.detail = << >> /\ to.sel = st.sel /\ to.gg = st.gg
    BY <1>1, <1>4 DEF AppStates
  <2> QED
    BY <1>1, <2>1, StillOK
<1>5. CASE st.view = "Roi" /\ k \in SortKeys /\ to = [st EXCEPT !.sort = k, !.sel["Roi"] = 0]
  <2>1. /\ to.detail = << >> /\ to.gg = st.gg
        /\ to.sel["Roi"] = 0 /\ \A v \in Views \ {"Roi"} : to.sel[v] = st.sel[v]
    BY <1>1, <1>5, ViewNames DEF AppStates
  <2>2. Kind(k) = "sort"
    BY <1>5 DEF Kind, SortKeys
  <2>3. InRange(d, to)
    BY <2>1 DEF Good, InRange
  <2> QED
    BY <1>1, <1>5, <2>1, <2>2, <2>3 DEF KeyOK, Good, GgOK, JumpOK
<1>6. CASE st.view = "Flamegraph" /\ k = "Enter" /\ to = OpenDetail(d, st)
  BY <1>6, OpenOK
<1>7. CASE to \in {ScrollUp(st), ScrollDown(d, st)}
  <2>1. to.detail = << >>
    BY <1>1, <1>7 DEF ScrollUp, ScrollDown, AppStates
  <2> QED
    BY <1>7, <2>1, ScrollOK
<1> QED
  BY <1>2, <1>3, <1>4, <1>5, <1>6, <1>7 DEF ViewStep

LEMMA ResetGg ==
  ASSUME NEW d, NEW st, Good(d, st)
  PROVE  /\ Good(d, [st EXCEPT !.gg = FALSE])
         /\ [st EXCEPT !.gg = FALSE].gg = FALSE
         /\ [st EXCEPT !.gg = FALSE].detail = st.detail
         /\ [st EXCEPT !.gg = FALSE].view = st.view
         /\ [st EXCEPT !.gg = FALSE].sel = st.sel
         /\ [st EXCEPT !.gg = FALSE].help = st.help
         /\ Cursor([st EXCEPT !.gg = FALSE]) = Cursor(st)
<1> DEFINE to == [st EXCEPT !.gg = FALSE]
<1>1. Shaped(d, to)
  BY DEF Good, Shaped, AppStates
<1>2. /\ to.gg = FALSE /\ to.detail = st.detail /\ to.view = st.view /\ to.sel = st.sel
      /\ to.help = st.help
  BY DEF Good, Shaped, AppStates
<1> HIDE DEF to
<1>3. Good(d, to) /\ Cursor(to) = Cursor(st)
  BY <1>1, <1>2 DEF Good, InRange, DetailOf, Cursor
<1> QED
  BY <1>2, <1>3 DEF to

(* Leaving gg as it must be does not disturb what a move achieved.         *)
LEMMA FromReset ==
  ASSUME NEW d, NEW st, Good(d, st), NEW to, NEW key, NEW next,
         KeyOK(d, [st EXCEPT !.gg = FALSE], to, key, next)
  PROVE  KeyOK(d, st, to, key, next)
  BY ResetGg DEF KeyOK, JumpOK

LEMMA ToReset ==
  ASSUME NEW d, NEW st, Good(d, st), st.detail = << >>, NEW to, to.detail = << >>, Good(d, to),
         NEW key, NEW next, JumpOK(st, to, key, next)
  PROVE  KeyOK(d, st, [to EXCEPT !.gg = FALSE], key, next)
<1> DEFINE new == [to EXCEPT !.gg = FALSE]
<1>1. /\ Good(d, new) /\ new.gg = FALSE /\ new.detail = << >> /\ new.view = to.view
      /\ Cursor(new) = Cursor(to)
  BY ResetGg
<1> HIDE DEF new
<1>2. KeyOK(d, st, new, key, next)
  BY <1>1 DEF KeyOK, GgOK, JumpOK
<1> QED
  BY <1>2 DEF new

LEMMA TopOK ==
  ASSUME NEW d, IsReport(d), NEW st, Good(d, st), st.detail = << >>, ~st.help, NEW k, NEW key,
         GgOK(st, key)
  PROVE  /\ KeyOK(d, st, DispatchTop(d, st, k), key, Kind(k))
         /\ k # "Enter" => DispatchTop(d, st, k).detail = << >>
<1>1. /\ st \in AppStates(d) /\ st.view \in Views /\ st.sel[st.view] \in Nat
      /\ st.sel[st.view] = 0 \/ st.sel[st.view] < Rows(d, st.view)
      /\ Rows(d, st.view) \in Nat
  BY FieldsOK, RowsNat DEF Good, Shaped, InRange
<1>2. CASE k \notin {"g", "G"}
  <2> DEFINE b == [st EXCEPT !.gg = FALSE]
  <2>1. Good(d, b) /\ b.detail = << >> /\ ~b.gg
    BY ResetGg
  <2>2. DispatchTop(d, st, k) = DispatchView(d, b, k)
    BY <1>2 DEF DispatchTop
  <2>3. /\ KeyOK(d, b, DispatchView(d, b, k), key, Kind(k))
        /\ k # "Enter" => DispatchView(d, b, k).detail = << >>
    BY <2>1, ViewKeyOK
  <2> QED
    BY <2>2, <2>3, FromReset
<1>3. CASE k = "G"
  <2> DEFINE n == SaturatingSub(Rows(d, st.view), 1)
             to == [st EXCEPT !.sel[st.view] = n]
  <2>1. /\ n \in Nat /\ (n = 0 \/ n < Rows(d, st.view))
        /\ ~(n + 1 < st.sel[st.view])
    BY <1>1, RowBelow
  <2> HIDE DEF n
  <2>2. Good(d, to)
    BY <2>1, SelectGood
  <2>3. to.detail = << >> /\ to.view = st.view /\ to.sel[st.view] = n
    BY <1>1 DEF AppStates
  <2>4. ScrollToBottom(d, st) \in {st, to}
    BY DEF ScrollToBottom, n
  <2> HIDE DEF to
  <2>5. \A s \in {st, to} : JumpOK(st, s, key, Kind(k))
    <3>1. ~(st.sel[st.view] + 1 < st.sel[st.view])
      BY <1>1
    <3> QED
      BY <2>1, <2>3, <3>1 DEF JumpOK, Cursor
  <2>6. \A s \in {st, to} : /\ KeyOK(d, st, [s EXCEPT !.gg = FALSE], key, Kind(k))
                           /\ [s EXCEPT !.gg = FALSE].detail = << >>
    BY <2>2, <2>3, <2>5, ToReset, ResetGg
  <2> QED
    BY <1>3, <2>4, <2>6 DEF DispatchTop
<1>4. CASE k = "g" /\ st.gg
  <2> DEFINE to == [st EXCEPT !.sel[st.view] = 0]
  <2>1. Good(d, to)
    BY SelectGood
  <2>2. to.detail = << >> /\ to.view = st.view
    BY <1>1 DEF AppStates
  <2>3. ScrollToTop(st) \in {st, to}
    BY DEF ScrollToTop
  <2> HIDE DEF to
  <2>4. key = "g" /\ Kind(k) = "g"
    BY <1>4 DEF GgOK, Kind, SortKeys
  <2>5. \A s \in {st, to} : JumpOK(st, s, key, Kind(k))
    BY <2>4 DEF JumpOK
  <2>6. \A s \in {st, to} : /\ KeyOK(d, st, [s EXCEPT !.gg = FALSE], key, Kind(k))
                           /\ [s EXCEPT !.gg = FALSE].detail = << >>
    BY <2>1, <2>2, <2>5, ToReset, ResetGg
  <2>7. DispatchTop(d, st, k) = [ScrollToTop(st) EXCEPT !.gg = FALSE]
    BY <1>4 DEF DispatchTop
  <2> QED
    BY <2>3, <2>6, <2>7
<1>5. CASE k = "g" /\ ~st.gg
  <2> DEFINE to == [st EXCEPT !.gg = TRUE]
  <2>1. Shaped(d, to)
    BY DEF Good, Shaped, AppStates
  <2>2. to.detail = << >> /\ to.view = st.view /\ to.sel = st.sel /\ to.help = st.help
    BY <1>1 DEF AppStates
  <2>3. DispatchTop(d, st, k) = to
    BY <1>5 DEF DispatchTop
  <2>4. Kind(k) = "g"
    BY <1>5 DEF Kind, SortKeys
  <2> HIDE DEF to
  <2>5. ~(Cursor(to) + 1 < Cursor(st))
    BY <1>1, <2>2 DEF Cursor
  <2>6. KeyOK(d, st, to, key, Kind(k))
    BY <2>1, <2>2, <2>4, <2>5 DEF KeyOK, Good, InRange, GgOK, JumpOK
  <2> QED
    BY <2>2, <2>3, <2>6
<1> QED
  BY <1>2, <1>3, <1>4, <1>5

-----------------------------------------------------------------------------
(* A key inside the detail view moves its selection as the tables do.      *)
DetailMoves(d, dt, new, k, key) ==
  /\ new.turn = dt.turn
  /\ \A i \in {new.tool} \cup new.expanded : i = 0 \/ i < Calls(d, dt.turn)
  /\ new.gg => Kind(k) = "g" /\ k = "g"
  /\ new.tool + 1 < dt.tool => key = "g" /\ Kind(k) = "g"

LEMMA DetailKeyOK ==
  ASSUME NEW d, IsReport(d), NEW dt \in Detail(d), NEW k, NEW key, dt.gg => key = "g",
         \A i \in {dt.tool} \cup dt.expanded : i = 0 \/ i < Calls(d, dt.turn)
  PROVE  DetailMoves(d, dt, DetailKey(dt, Calls(d, dt.turn), k), k, key)
<1> DEFINE count == Calls(d, dt.turn)
<1> SUFFICES ASSUME NEW new, new = DetailKey(dt, count, k)
             PROVE  /\ new.turn = dt.turn
                    /\ \A i \in {new.tool} \cup new.expanded : i = 0 \/ i < count
                    /\ new.gg => Kind(k) = "g" /\ k = "g"
                    /\ new.tool + 1 < dt.tool => key = "g" /\ Kind(k) = "g"
  BY DEF DetailMoves
<1>1. /\ count \in Nat /\ dt.tool \in Nat /\ dt.expanded \in SUBSET Nat /\ dt.gg \in BOOLEAN
      /\ \A i \in {dt.tool} \cup dt.expanded : i = 0 \/ i < count
  BY CallsNat DEF Detail
<1> HIDE DEF count
<1>2. Kind("g") = "g"
  BY DEF Kind, SortKeys
<1>3. ~(dt.tool + 1 < dt.tool)
  BY <1>1
<1>4. CASE k = "g"
  <2>1. new = [dt EXCEPT !.gg = ~@, !.tool = IF dt.gg THEN 0 ELSE @]
    BY <1>4 DEF DetailKey
  <2>2. /\ new.turn = dt.turn /\ new.expanded = dt.expanded
        /\ new.tool = IF dt.gg THEN 0 ELSE dt.tool
    BY <2>1 DEF Detail
  <2> QED
    BY <1>1, <1>2, <1>3, <1>4, <2>2
<1>5. CASE k # "g"
  <2>1. new.gg = FALSE /\ new.turn = dt.turn
    BY <1>5 DEF DetailKey, Detail
  <2>2. CASE k \in {"G", "Up", "Down"}
    <3>1. new.expanded = dt.expanded
      BY <2>2 DEF DetailKey, Detail
    <3>2. new.tool = IF k = "G" THEN SaturatingSub(count, 1)
                     ELSE IF k = "Up" THEN SaturatingSub(dt.tool, 1)
                     ELSE IF dt.tool + 1 < count THEN dt.tool + 1 ELSE dt.tool
      BY <2>2 DEF DetailKey, Detail
    <3>3. (new.tool = 0 \/ new.tool < count) /\ ~(new.tool + 1 < dt.tool)
      <4> DEFINE n == dt.tool
      <4>1. n \in Nat /\ count \in Nat /\ (n = 0 \/ n < count)
        BY <1>1
      <4> HIDE DEF n
      <4>2. \A m \in {SaturatingSub(n, 1), SaturatingSub(count, 1),
                     IF n + 1 < count THEN n + 1 ELSE n} :
              (m = 0 \/ m < count) /\ ~(m + 1 < n)
        BY <4>1, RowBelow
      <4> QED
        BY <3>2, <4>2 DEF n
    <3> QED
      BY <1>1, <2>1, <3>1, <3>3
  <2>3. CASE k = "Enter"
    <3>1. new.tool = dt.tool /\ new.expanded \subseteq dt.expanded \cup {dt.tool}
      BY <2>3 DEF DetailKey, Detail
    <3> QED
      BY <1>1, <1>3, <2>1, <3>1
  <2>4. CASE k \notin {"G", "Up", "Down", "Enter"}
    <3>1. new = [dt EXCEPT !.gg = FALSE]
      BY <1>5, <2>4 DEF DetailKey
    <3>2. new.tool = dt.tool /\ new.expanded = dt.expanded
      BY <3>1 DEF Detail
    <3> QED
      BY <1>1, <1>3, <2>1, <3>2
  <2> QED
    BY <2>2, <2>3, <2>4
<1> QED
  BY <1>4, <1>5

LEMMA InDetailOK ==
  ASSUME NEW d, IsReport(d), NEW st, Good(d, st), st.detail # << >>, ~st.help, NEW k, NEW key,
         GgOK(st, key), k \notin PopKeys \cup {"Esc"}
  PROVE  LET to == DispatchDetail(d, st, k) IN
         /\ KeyOK(d, st, to, key, Kind(k))
         /\ to.detail # << >> /\ ~to.gg /\ (k # "g" => ~to.detail[1].gg) /\ ~to.help
<1> DEFINE dt == st.detail[1]
           new == DetailKey(dt, Calls(d, dt.turn), k)
           to == [st EXCEPT !.detail = <<new>>]
<1>1. /\ DispatchDetail(d, st, k) = to
      /\ Shaped(d, to)
  BY DispatchDetailShaped DEF DispatchDetail, Good
<1>2. /\ to.detail = <<new>> /\ to.view = st.view /\ to.sel = st.sel /\ to.gg = st.gg
      /\ to.help = st.help
  BY DEF Good, Shaped, AppStates
<1>3. <<new>> # << >> /\ <<new>>[1] = new
  OBVIOUS
<1>4. dt \in Detail(d) /\ DetailOf(d, st, dt)
  BY TheDetail DEF Good
<1>5. /\ new.turn = dt.turn
      /\ \A i \in {new.tool} \cup new.expanded : i = 0 \/ i < Calls(d, dt.turn)
      /\ new.gg => Kind(k) = "g" /\ k = "g"
      /\ new.tool + 1 < dt.tool => key = "g" /\ Kind(k) = "g"
  <2>1. dt.gg => key = "g"
    BY DEF GgOK
  <2>2. DetailMoves(d, dt, new, k, key)
    BY <1>4, <2>1, DetailKeyOK DEF DetailOf
  <2> QED
    BY <2>2 DEF DetailMoves
<1>6. st.gg = FALSE
  BY FieldsOK DEF GgOK, Good, Shaped
<1> HIDE DEF to, new
<1>7. Good(d, to)
  BY <1>1, <1>2, <1>3, <1>4, <1>5 DEF Good, InRange, DetailOf
<1>8. Cursor(to) = new.tool /\ Cursor(st) = dt.tool
  BY <1>2, <1>3 DEF Cursor
<1>9. KeyOK(d, st, to, key, Kind(k))
  BY <1>2, <1>3, <1>5, <1>6, <1>7, <1>8 DEF KeyOK, GgOK, JumpOK
<1>10. to.detail # << >> /\ ~to.gg /\ (k # "g" => ~to.detail[1].gg) /\ ~to.help
  BY <1>2, <1>3, <1>5, <1>6
<1> QED
  BY <1>1, <1>9, <1>10

(* The help may be opened over the detail view.                            *)
HelpOpened(d, st, to, next) ==
  /\ Good(d, to) /\ GgOK(to, next)
  /\ to.detail = st.detail /\ to.view = st.view /\ Cursor(to) = Cursor(st)

LEMMA HelpOverDetailOK ==
  ASSUME NEW d, NEW st, Good(d, st), ~st.gg, st.detail # << >>, ~st.detail[1].gg, NEW next
  PROVE  HelpOpened(d, st, DispatchTop(d, st, "?"), next)
<1> DEFINE b == [st EXCEPT !.gg = FALSE]
           to == [b EXCEPT !.help = TRUE]
<1>1. Good(d, b) /\ b.detail = st.detail /\ b.view = st.view /\ b.sel = st.sel /\ b.gg = FALSE
  BY ResetGg
<1>2. DispatchTop(d, st, "?") = DispatchView(d, b, "?")
  BY DEF DispatchTop
<1> HIDE DEF b
<1>3. DispatchView(d, b, "?") = to
  BY DEF DispatchView, Digit, SortKeys
<1>4. Shaped(d, to)
  BY <1>1 DEF Good, Shaped, AppStates
<1>5. to.detail = st.detail /\ to.view = st.view /\ to.sel = st.sel /\ to.gg = FALSE
  BY <1>1 DEF Good, Shaped, AppStates
<1> HIDE DEF to
<1>6. Good(d, to) /\ GgOK(to, next) /\ Cursor(to) = Cursor(st)
  BY <1>4, <1>5 DEF Good, InRange, DetailOf, GgOK, Cursor
<1> QED
  BY <1>2, <1>3, <1>5, <1>6 DEF HelpOpened

(* Any key closes the help.                                                *)
LEMMA HelpClosedOK ==
  ASSUME NEW d, NEW st, Good(d, st), st.help, NEW key, GgOK(st, key), NEW next
  PROVE  KeyOK(d, st, [st EXCEPT !.help = FALSE, !.gg = FALSE], key, next)
<1> DEFINE to == [st EXCEPT !.help = FALSE, !.gg = FALSE]
<1>1. Shaped(d, to)
  BY DEF Good, Shaped, AppStates
<1>2. to.detail = st.detail /\ to.view = st.view /\ to.sel = st.sel /\ to.gg = FALSE
  BY DEF Good, Shaped, AppStates
<1>3. ~(Cursor(st) + 1 < Cursor(st))
  BY CursorNat
<1> HIDE DEF to
<1>4. KeyOK(d, st, to, key, next)
  BY <1>1, <1>2, <1>3 DEF KeyOK, Good, InRange, DetailOf, GgOK, JumpOK, Cursor
<1> QED
  BY <1>4 DEF to

(* Closing the detail view, by itself or before the key goes on.           *)
LEMMA ClosedGood ==
  ASSUME NEW d, NEW st, Good(d, st)
  PROVE  LET to == [st EXCEPT !.detail = << >>, !.gg = FALSE] IN
         /\ Good(d, to) /\ to.detail = << >> /\ to.gg = FALSE /\ to.help = st.help
<1> DEFINE to == [st EXCEPT !.detail = << >>, !.gg = FALSE]
<1>1. << >> \in Seq(Detail(d)) /\ Len(<< >>) <= 1
  BY SmallSeq
<1>2. Shaped(d, to)
  BY <1>1, DetailSet DEF Good
<1>3. to.detail = << >> /\ to.view = st.view /\ to.sel = st.sel /\ to.gg = FALSE /\ to.help = st.help
  BY DEF Good, Shaped, AppStates
<1> HIDE DEF to
<1>4. Good(d, to)
  BY <1>2, <1>3 DEF Good, InRange
<1> QED
  BY <1>3, <1>4 DEF to

LEMMA DispatchOK ==
  ASSUME NEW d, IsReport(d), NEW st, Good(d, st), NEW k, NEW key, GgOK(st, key)
  PROVE  KeyOK(d, st, Dispatch(d, st, k), key, Kind(k))
<1>1. CASE st.help
  <2>1. Dispatch(d, st, k) = [st EXCEPT !.help = FALSE, !.gg = FALSE]
    BY <1>1 DEF Dispatch
  <2>2. KeyOK(d, st, [st EXCEPT !.help = FALSE, !.gg = FALSE], key, Kind(k))
    BY <1>1, HelpClosedOK
  <2> QED
    BY <2>1, <2>2
<1>2. CASE ~st.help /\ st.detail = << >>
  <2>1. Dispatch(d, st, k) = DispatchTop(d, st, k)
    BY <1>2 DEF Dispatch, FallsThrough
  <2> QED
    BY <1>2, <2>1, TopOK
<1>3. CASE ~st.help /\ st.detail # << >> /\ k \in PopKeys \cup {"Esc"}
  <2> DEFINE b == [st EXCEPT !.detail = << >>, !.gg = FALSE]
  <2>1. Good(d, b) /\ b.detail = << >> /\ b.gg = FALSE /\ b.help = st.help
    BY ClosedGood
  <2>2. DispatchDetail(d, st, k) = b
    BY <1>3 DEF DispatchDetail
  <2>3. Dispatch(d, st, k) = IF k \in PopKeys THEN DispatchTop(d, b, k) ELSE b
    BY <1>3, <2>2 DEF Dispatch, FallsThrough
  <2> HIDE DEF b
  <2>4. GgOK(b, key) /\ GgOK(b, Kind(k))
    BY <2>1 DEF GgOK
  <2>5. k # "Enter"
    BY <1>3 DEF PopKeys, Digit
  <2>6. /\ Good(d, DispatchTop(d, b, k)) /\ GgOK(DispatchTop(d, b, k), Kind(k))
        /\ DispatchTop(d, b, k).detail = << >>
    BY <1>3, <2>1, <2>4, <2>5, TopOK DEF KeyOK
  <2>7. \A to \in {b, DispatchTop(d, b, k)} : KeyOK(d, st, to, key, Kind(k))
    BY <1>3, <2>1, <2>4, <2>6 DEF KeyOK, JumpOK
  <2> QED
    BY <2>3, <2>7
<1>4. CASE ~st.help /\ st.detail # << >> /\ k \notin PopKeys \cup {"Esc"}
  <2> DEFINE s == DispatchDetail(d, st, k)
  <2>1. /\ KeyOK(d, st, s, key, Kind(k))
        /\ s.detail # << >> /\ ~s.gg /\ (k # "g" => ~s.detail[1].gg) /\ ~s.help
    BY <1>4, InDetailOK
  <2>2. Dispatch(d, st, k) = IF k = "?" THEN DispatchTop(d, s, k) ELSE s
    BY <1>4 DEF Dispatch, FallsThrough
  <2> HIDE DEF s
  <2>3. ASSUME k = "?" PROVE KeyOK(d, st, DispatchTop(d, s, k), key, Kind(k))
    <3>1. k # "g" /\ Good(d, s)
      BY <2>1, <2>3 DEF KeyOK
    <3>2. HelpOpened(d, s, DispatchTop(d, s, k), Kind(k))
      BY <2>1, <2>3, <3>1, HelpOverDetailOK
    <3> QED
      BY <2>1, <3>2 DEF KeyOK, JumpOK, HelpOpened
  <2> QED
    BY <2>1, <2>2, <2>3
<1> QED
  BY <1>1, <1>2, <1>3, <1>4
-----------------------------------------------------------------------------
(* The window moved just enough holds the selection and does not run past  *)
(* the end while rows above it are hidden.                                 *)
Within(top, index, rows, total) ==
  /\ total > 0 => top <= index /\ index < top + rows
  /\ top > 0 => top + rows <= total

LEMMA ViewportOK ==
  ASSUME NEW top \in Nat, NEW index \in Nat, NEW rows \in Nat, rows > 0, NEW total \in Nat,
         total > 0 => index < total
  PROVE  /\ Viewport(top, index, rows, total) \in Nat
         /\ Within(Viewport(top, index, rows, total), index, rows, total)
<1> DEFINE moved == IF index < top THEN index
                    ELSE IF index >= top + rows THEN index + 1 - rows ELSE top
           most  == IF total < rows THEN 0 ELSE total - rows
<1>1. Viewport(top, index, rows, total) = IF moved < most THEN moved ELSE most
  BY DEF Viewport, SaturatingSub
<1>2. moved \in Nat /\ most \in Nat
  OBVIOUS
<1>3. (IF moved < most THEN moved ELSE most) \in Nat
  BY <1>2
<1>4. Within(IF moved < most THEN moved ELSE most, index, rows, total)
  BY DEF Within
<1> QED
  BY <1>1, <1>3, <1>4

(* The separator and the padding lie between the two groups of tools.      *)
LEMMA RoiIndexOK ==
  ASSUME NEW d, IsReport(d), NEW h \in Nat, h >= 8, NEW n \in Nat, n = 0 \/ n < Rows(d, "Roi")
  PROVE  /\ RoiIndex(d, h, n) \in Nat /\ RoiTotal(d, h) \in Nat
         /\ RoiTotal(d, h) > 0 => RoiIndex(d, h, n) < RoiTotal(d, h)
         /\ Rows(d, "Roi") > 0 => RoiTotal(d, h) > 0
<1>1. d.work \in Nat /\ d.blocking \in Nat /\ Rows(d, "Roi") = d.work + d.blocking
  BY DEF IsReport, Rows
<1>2. Separator(d) \in Nat /\ (d.blocking = 0 => Separator(d) = 0)
  BY <1>1 DEF Separator
<1>3. Padding(d, h) \in Nat /\ (d.blocking = 0 => Padding(d, h) = 0)
  <2>1. RoiRows(h) \in Nat
    BY DEF RoiRows
  <2>2. Rows(d, "Roi") + Separator(d) \in Nat
    BY <1>1, <1>2
  <2>3. SaturatingSub(RoiRows(h), Rows(d, "Roi") + Separator(d)) \in Nat
    BY <2>1, <2>2, SubNat
  <2> QED
    BY <1>1, <2>3 DEF Padding
<1>4. RoiIndex(d, h, n) = IF n < d.work THEN n ELSE n + Separator(d) + Padding(d, h)
  BY DEF RoiIndex
<1>5. RoiTotal(d, h) = d.work + d.blocking + Separator(d) + Padding(d, h)
  BY <1>1 DEF RoiTotal
<1> HIDE DEF Separator, Padding
<1> QED
  BY <1>1, <1>2, <1>3, <1>4, <1>5

FlameTop(d, st, h) == Viewport(st.flameTop, st.sel["Flamegraph"], FlameRows(h), Len(d.turns))
RoiTop(d, st, h) ==
  Viewport(st.roiTop, RoiIndex(d, h, st.sel["Roi"]), RoiRows(h), RoiTotal(d, h))

LEMMA WindowsOK ==
  ASSUME NEW d, IsReport(d), NEW h \in Nat, h >= 8, NEW st, Good(d, st)
  PROVE  /\ FlameTop(d, st, h) \in Nat /\ RoiTop(d, st, h) \in Nat
         /\ Within(FlameTop(d, st, h), st.sel["Flamegraph"], FlameRows(h), Len(d.turns))
         /\ Within(RoiTop(d, st, h), RoiIndex(d, h, st.sel["Roi"]), RoiRows(h), RoiTotal(d, h))
<1>1. /\ st.sel["Flamegraph"] \in Nat /\ st.sel["Roi"] \in Nat
      /\ st.flameTop \in Nat /\ st.roiTop \in Nat
  BY FieldsOK, ViewNames DEF Good, Shaped
<1>2. /\ st.sel["Flamegraph"] = 0 \/ st.sel["Flamegraph"] < Rows(d, "Flamegraph")
      /\ st.sel["Roi"] = 0 \/ st.sel["Roi"] < Rows(d, "Roi")
  BY ViewNames DEF Good, InRange
<1>3. Len(d.turns) \in Nat /\ Rows(d, "Flamegraph") = Len(d.turns)
  BY LenProperties DEF IsReport, Rows
<1>4. FlameRows(h) \in Nat /\ FlameRows(h) > 0 /\ RoiRows(h) \in Nat /\ RoiRows(h) > 0
  BY DEF FlameRows, RoiRows
<1>5. Len(d.turns) > 0 => st.sel["Flamegraph"] < Len(d.turns)
  BY <1>1, <1>2, <1>3
<1>6. /\ FlameTop(d, st, h) \in Nat
      /\ Within(FlameTop(d, st, h), st.sel["Flamegraph"], FlameRows(h), Len(d.turns))
  BY <1>1, <1>3, <1>4, <1>5, ViewportOK DEF FlameTop
<1>7. /\ RoiIndex(d, h, st.sel["Roi"]) \in Nat /\ RoiTotal(d, h) \in Nat
      /\ RoiTotal(d, h) > 0 => RoiIndex(d, h, st.sel["Roi"]) < RoiTotal(d, h)
  BY <1>1, <1>2, RoiIndexOK
<1>8. /\ RoiTop(d, st, h) \in Nat
      /\ Within(RoiTop(d, st, h), RoiIndex(d, h, st.sel["Roi"]), RoiRows(h), RoiTotal(d, h))
  BY <1>1, <1>4, <1>7, ViewportOK DEF RoiTop
<1> QED
  BY <1>6, <1>8

(* Drawing moves the window of the table shown, nothing else.              *)
Drawn(d, st, h, to, key) ==
  /\ Good(d, to) /\ GgOK(to, key)
  /\ to.view = st.view /\ to.detail = st.detail /\ to.sel = st.sel
  /\ st.detail = << >> /\ st.view = "Flamegraph" => to.flameTop = FlameTop(d, st, h)
  /\ st.detail = << >> /\ st.view = "Roi" => to.roiTop = RoiTop(d, st, h)

LEMMA DrawOK ==
  ASSUME NEW d, IsReport(d), NEW h \in Nat, h >= 8, NEW st, Good(d, st), NEW key, GgOK(st, key)
  PROVE  Drawn(d, st, h, Rendered(d, st, h), key)
<1>1. ASSUME NEW to, Shaped(d, to), to.view = st.view, to.detail = st.detail, to.sel = st.sel,
             to.gg = st.gg, to.help = st.help
      PROVE  Good(d, to) /\ GgOK(to, key)
  BY <1>1 DEF Good, InRange, DetailOf, GgOK
<1>2. FlameTop(d, st, h) \in Nat /\ RoiTop(d, st, h) \in Nat
  BY WindowsOK
<1>3. CASE st.detail # << >> \/ st.view \notin {"Flamegraph", "Roi"}
  <2>1. Rendered(d, st, h) = st
    BY <1>3 DEF Rendered
  <2> QED
    BY <1>3, <2>1 DEF Drawn
<1>4. CASE st.detail = << >> /\ st.view = "Flamegraph"
  <2> DEFINE to == [st EXCEPT !.flameTop = FlameTop(d, st, h)]
  <2>1. Rendered(d, st, h) = to
    BY <1>4 DEF Rendered, FlameTop
  <2>2. Shaped(d, to)
    BY <1>2 DEF Good, Shaped, AppStates
  <2>3. /\ to.view = st.view /\ to.detail = st.detail /\ to.sel = st.sel /\ to.gg = st.gg
        /\ to.help = st.help /\ to.flameTop = FlameTop(d, st, h)
    BY DEF Good, Shaped, AppStates
  <2> HIDE DEF to
  <2>4. Drawn(d, st, h, to, key)
    BY <1>1, <1>4, <2>2, <2>3 DEF Drawn
  <2> QED
    BY <2>1, <2>4
<1>5. CASE st.detail = << >> /\ st.view = "Roi"
  <2> DEFINE to == [st EXCEPT !.roiTop = RoiTop(d, st, h)]
  <2>1. Rendered(d, st, h) = to
    BY <1>5 DEF Rendered, RoiTop
  <2>2. Shaped(d, to)
    BY <1>2 DEF Good, Shaped, AppStates
  <2>3. /\ to.view = st.view /\ to.detail = st.detail /\ to.sel = st.sel /\ to.gg = st.gg
        /\ to.help = st.help /\ to.roiTop = RoiTop(d, st, h)
    BY DEF Good, Shaped, AppStates
  <2> HIDE DEF to
  <2>4. Drawn(d, st, h, to, key)
    BY <1>1, <1>5, <2>2, <2>3 DEF Drawn
  <2> QED
    BY <2>1, <2>4
<1> QED
  BY <1>3, <1>4, <1>5

-----------------------------------------------------------------------------
(* Inductive: between a key and the next frame a selected row may be out   *)
(* of the window.  Quitting may leave a half-typed g behind.               *)
AppInv == /\ report \in Reports /\ height \in Heights
          /\ loop \in {"draw", "poll", "left"} /\ last \in {"g", "sort", "other"}
          /\ Good(report, app)
          /\ loop # "left" => GgOK(app, last)
          /\ SelectedRowIsDrawn

LEMMA HeightIs == ASSUME NEW h \in Heights PROVE h \in Nat /\ h >= 8
  BY HeightsAssumption

LEMMA KindIs == \A k : Kind(k) \in {"g", "sort", "other"}
  BY DEF Kind

LEMMA NewOK ==
  ASSUME NEW d, IsReport(d), NEW key
  PROVE  Good(d, NewState) /\ GgOK(NewState, key)
<1>1. << >> \in Seq(Detail(d)) /\ Len(<< >>) <= 1
  BY SmallSeq
<1>2. /\ NewState.view = "Flamegraph" /\ NewState.sel = [v \in Views |-> 0]
      /\ NewState.detail = << >> /\ NewState.gg = FALSE
  BY DEF NewState
<1>3. Shaped(d, NewState)
  BY <1>1, ViewNames DEF Shaped, AppStates, NewState, SortKeys, Detail
<1> QED
  BY <1>2, <1>3 DEF Good, InRange, GgOK

LEMMA InitOK == AppInit => AppInv
<1> SUFFICES ASSUME AppInit PROVE AppInv
  OBVIOUS
<1>1. Good(report, app) /\ GgOK(app, last)
  BY ReportsAssumption, NewOK DEF AppInit
<1> QED
  BY <1>1 DEF AppInit, AppInv, SelectedRowIsDrawn

LEMMA DrawStep == ASSUME AppInv, AppDraw PROVE AppInv' /\ Cursor(app') = Cursor(app)
<1>1. IsReport(report) /\ height' \in Heights /\ height' \in Nat /\ height' >= 8
  BY ReportsAssumption, HeightIs DEF AppInv, AppDraw
<1>2. Good(report, app) /\ GgOK(app, last) /\ app' = Rendered(report, app, height')
  BY DEF AppInv, AppDraw
<1>3. Drawn(report, app, height', app', last)
  BY <1>1, <1>2, DrawOK
<1>4. /\ Within(FlameTop(report, app, height'), app.sel["Flamegraph"], FlameRows(height'),
               Len(report.turns))
      /\ Within(RoiTop(report, app, height'), RoiIndex(report, height', app.sel["Roi"]),
               RoiRows(height'), RoiTotal(report, height'))
  BY <1>1, <1>2, WindowsOK
<1>5. SelectedRowIsDrawn'
  BY <1>3, <1>4 DEF AppDraw, Drawn, Within, SelectedRowIsDrawn
<1>6. Cursor(app') = Cursor(app)
  BY <1>3 DEF Drawn, Cursor
<1> QED
  BY <1>1, <1>3, <1>5, <1>6 DEF AppDraw, AppInv, Drawn

LEMMA AppKeyStep ==
  ASSUME AppInv, NEW k, Key(k)
  PROVE  AppInv' /\ JumpOK(app, app', last, last')
<1>1. IsReport(report) /\ Good(report, app) /\ GgOK(app, last) /\ last' = Kind(k)
  BY ReportsAssumption DEF AppInv, Key
<1>2. CASE Quits(app, k)
  <2>1. app' = app /\ loop' = "left"
    BY <1>2 DEF Key
  <2>2. ~(Cursor(app') + 1 < Cursor(app))
    BY <1>1, <2>1, CursorNat
  <2> QED
    BY <1>1, <2>1, <2>2, KindIs DEF AppInv, Key, JumpOK, SelectedRowIsDrawn
<1>3. CASE ~Quits(app, k)
  <2>1. app' = Dispatch(report, app, k) /\ loop' = "draw"
    BY <1>3 DEF Key
  <2>2. KeyOK(report, app, app', last, last')
    BY <1>1, <2>1, DispatchOK
  <2>3. SelectedRowIsDrawn'
    BY <2>1 DEF SelectedRowIsDrawn
  <2> QED
    BY <1>1, <2>1, <2>2, <2>3, KindIs DEF KeyOK, AppInv, Key
<1> QED
  BY <1>2, <1>3

LEMMA StepOK == AppInv /\ [AppNext]_app_vars => AppInv'
<1> SUFFICES ASSUME AppInv, [AppNext]_app_vars PROVE AppInv'
  OBVIOUS
<1>1. CASE AppDraw
  BY <1>1, DrawStep
<1>2. CASE AppIdle
  BY <1>2 DEF AppIdle, AppInv, SelectedRowIsDrawn
<1>3. CASE \E k \in Keys : Key(k)
  BY <1>3, AppKeyStep
<1>4. CASE UNCHANGED app_vars
  BY <1>4 DEF app_vars, AppInv, SelectedRowIsDrawn
<1> QED
  BY <1>1, <1>2, <1>3, <1>4 DEF AppNext

LEMMA InvariantOK == AppSpec => []AppInv
  BY InitOK, StepOK, PTL DEF AppSpec

LEMMA ShownOK == AppInv => SelectionIsShown
<1> SUFFICES ASSUME AppInv PROVE SelectionIsShown
  OBVIOUS
<1>1. AppTypeOK
  BY DEF AppInv, Good, Shaped, InRange, AppTypeOK
<1>2. DetailIsOfSelectedTurn
  BY DEF AppInv, Good, DetailOf, DetailIsOfSelectedTurn
<1> QED
  BY <1>1, <1>2 DEF AppInv, SelectionIsShown

(* Whatever the report, the heights of the terminal and the keys: what a   *)
(* frame shows as selected is what the keys act on (AppRunner::run,        *)
(* dispatch and the two viewports).                                        *)
THEOREM SelectionStaysShown == AppSpec => []SelectionIsShown
  BY InvariantOK, ShownOK, PTL

(* Whatever the report and the keys: no selection jumps up by more than a  *)
(* row but by gg, or by sorting the tool table (dispatch, dispatch_detail).*)
THEOREM JumpsUpStayTyped == AppSpec => JumpsUpAreTyped
<1> DEFINE Jump == JumpOK(app, app', last, last')
<1>1. AppInv /\ [AppNext]_app_vars => [Jump]_app_vars
  <2> SUFFICES ASSUME AppInv, AppNext PROVE Jump
    OBVIOUS
  <2>1. Cursor(app) \in Nat
    BY CursorNat DEF AppInv
  <2>2. CASE AppDraw
    BY <2>1, <2>2, DrawStep DEF JumpOK
  <2>3. CASE AppIdle
    BY <2>1, <2>3 DEF AppIdle, JumpOK
  <2>4. CASE \E k \in Keys : Key(k)
    BY <2>4, AppKeyStep
  <2> QED
    BY <2>2, <2>3, <2>4 DEF AppNext
<1>2. AppSpec => [][Jump]_app_vars
  BY <1>1, InvariantOK, PTL DEF AppSpec
<1> QED
  BY <1>2 DEF JumpsUpAreTyped, JumpOK

-----------------------------------------------------------------------------
(* The watch loop.                                                         *)

(* The terminal.  Where the program is (pc) decides what it may look like, *)
(* and where the log goes decides whether its path may be printed.         *)

Screen == [raw : BOOLEAN, alt : BOOLEAN, log : {"stderr", "file"}, path : BOOLEAN, printed : BOOLEAN]
Outside == {"load", "spawn", "guard", "enter", "drop", "done"}

IInv == /\ term \in Screen
        /\ pc \in Outside => ~term.raw /\ ~term.alt
        /\ term.path => term.log = "file"
        /\ term.printed => pc = "done" /\ term.log = "file"

(* Only these steps touch the terminal.                                    *)
LEMMA TerminalStep == IInv /\ (EnterTuiLogGuard \/ Enter \/ Panic \/ Leave \/ DropGuard) => IInv'
<1> SUFFICES ASSUME IInv, EnterTuiLogGuard \/ Enter \/ Panic \/ Leave \/ DropGuard PROVE IInv'
  OBVIOUS
<1>1. CASE EnterTuiLogGuard
  BY <1>1 DEF EnterTuiLogGuard, IInv, Screen, Outside
<1>2. CASE Enter
  BY <1>2 DEF Enter, IInv, Screen, Outside
<1>3. CASE Panic
  BY <1>3 DEF Panic, IInv, Screen, Outside
<1>4. CASE Leave
  BY <1>4 DEF Leave, IInv, Screen, Outside
<1>5. CASE DropGuard
  BY <1>5 DEF DropGuard, IInv, Screen, Outside
<1> QED
  BY <1>1, <1>2, <1>3, <1>4, <1>5

(* A step that leaves the terminal alone may stay where it is, end before  *)
(* the terminal was taken over, or move on inside the loop.                *)
LEMMA OtherStep ==
  ASSUME IInv, UNCHANGED term,
         \/ pc' = pc
         \/ pc' \notin Outside /\ pc # "done"
         \/ pc \in {"load", "spawn"} /\ pc' \in {"spawn", "guard", "done"}
  PROVE  IInv'
  BY DEF IInv, Outside

LEMMA KeyStep == ASSUME IInv, NEW k \in Keys, HandleKey(k) PROVE IInv'
<1>1. UNCHANGED term /\ pc = "poll" /\ (SingleKey(k) \/ CrossKey(k))
  BY DEF HandleKey
<1>2. pc' \in {"draw", "leave"}
  BY <1>1 DEF SingleKey, CrossKey
<1> QED
  BY <1>1, <1>2, OtherStep DEF Outside

LEMMA Step == ASSUME IInv, [Next]_vars PROVE IInv'
<1>1. CASE UNCHANGED vars \/ FileChanges \/ Notify \/ UserTypes
  BY <1>1, OtherStep DEF vars, FileChanges, Notify, Debounced, DebounceError, UserTypes
<1>2. CASE InitialLoad \/ SpawnWatcher
  BY <1>2, OtherStep DEF InitialLoad, SpawnWatcher
<1>3. CASE Draw \/ Drain \/ Reload \/ Idle \/ PollFails
  BY <1>3, OtherStep DEF Draw, Drain, Reload, Idle, PollFails, Outside
<1>4. CASE \E k \in Keys : HandleKey(k)
  BY <1>4, KeyStep
<1>5. CASE EnterTuiLogGuard \/ Enter \/ Panic \/ Leave \/ DropGuard
  BY <1>5, TerminalStep
<1> QED
  BY <1>1, <1>2, <1>3, <1>4, <1>5 DEF Next, Interface

(* Whatever fails or panics between terminal::enter and the drop of the    *)
(* log guard, raw mode and the alternate screen are off once the process   *)
(* leaves them, and the path of the log is printed only after that and     *)
(* only if the log went to a file.                                         *)
THEOREM TerminalComesBack == Spec => []TerminalIsRestored
<1>1. Init => IInv
  BY DEF Init, PlainScreen, IInv, Screen, Outside
<1>2. IInv /\ [Next]_vars => IInv'
  BY Step
<1>3. IInv => TerminalIsRestored
  BY DEF IInv, Outside, TerminalIsRestored
<1> QED
  BY <1>1, <1>2, <1>3, PTL DEF Spec
-----------------------------------------------------------------------------
(* The screen.  The detail view is of a turn of the data it is drawn from, *)
(* and an aggregate has none.                                              *)
ViewStates(d) == [sort : SortKeys, sel : Nat, help : BOOLEAN, gg : BOOLEAN,
                  detail : Seq(Detail(d)), models : Nat, view : Views]

ViewOK == /\ data \in {NoData} \cup {f.data : f \in FileStates}
          /\ view \in ViewStates(data) /\ Len(view.detail) <= 1
          /\ ~single \/ pc = "load" => view.detail = << >>

(* No message without a change of the file, and no load of a version that  *)
(* was never written.                                                      *)
CountsOK == /\ writes \in 0..MaxWrites
            /\ queue \in Nat
            /\ queue + (IF pending THEN 1 ELSE 0) <= writes
            /\ shown \in 0..writes /\ tried \in shown..writes

(* What the last load could not bring is announced.                        *)
ErrOK == /\ err \in {"none", "reload", "turn"}
         /\ shown # tried => err = "reload"
         /\ err = "turn" => single

FlagsOK == /\ single \in BOOLEAN /\ file \in FileStates
           /\ {pending, lost, watching, typed} \subseteq BOOLEAN
           /\ pc \in {"load", "spawn", "guard", "enter", "draw", "drain", "reload", "poll",
                      "leave", "drop", "done"}

Truth == FlagsOK /\ CountsOK /\ ErrOK /\ ViewOK

LEMMA DataIsReport == ASSUME ViewOK PROVE IsReport(data)
<1>1. IsReport(NoData)
  BY SmallSeq DEF NoData, IsReport
<1> QED
  BY <1>1, WatchAssumption DEF ViewOK

LEMMA InitTruth == Init => Truth
<1> SUFFICES ASSUME Init PROVE Truth
  OBVIOUS
<1>1. FlagsOK /\ ErrOK
  BY DEF Init, FlagsOK, ErrOK
<1>4. CountsOK
  BY WatchAssumption DEF Init, CountsOK
<1>2. << >> \in Seq(Detail(data)) /\ Len(<< >>) <= 1
  BY SmallSeq
<1>3. ViewOK
  BY <1>2, ViewNames DEF Init, ViewOK, ViewStates, DefaultView, SortKeys
<1> QED
  BY <1>1, <1>3, <1>4 DEF Truth

(* The interface leaves the file alone; only what a key or a reload does   *)
(* changes the view.                                                       *)
LEMMA LoadTruth == ASSUME Truth, InitialLoad PROVE Truth'
<1>1. FlagsOK' /\ CountsOK' /\ ErrOK'
  BY DEF Truth, InitialLoad, FlagsOK, CountsOK, ErrOK, file_vars, ui_vars
<1>2. view.detail = << >> /\ UNCHANGED <<view, single>>
  BY DEF Truth, InitialLoad, ViewOK
<1>3. << >> \in Seq(Detail(data'))
  BY SmallSeq
<1>4. view' \in ViewStates(data')
  BY <1>2, <1>3 DEF Truth, ViewOK, ViewStates
<1>5. data' \in {NoData} \cup {f.data : f \in FileStates}
  BY DEF Truth, InitialLoad, ViewOK, FlagsOK
<1> QED
  BY <1>1, <1>2, <1>4, <1>5 DEF Truth, ViewOK

LEMMA ReloadTruth == ASSUME Truth, Reload PROVE Truth'
<1>1. FlagsOK' /\ CountsOK'
  BY DEF Truth, Reload, FlagsOK, CountsOK, file_vars
<1>2. ErrOK'
  BY DEF Truth, Reload, ErrOK, FlagsOK
<1>3. CASE UNCHANGED <<data, view, single>>
  BY <1>1, <1>2, <1>3 DEF Truth, ViewOK, Reload
<1>4. CASE file.kind = "data"
  <2>1. data' = file.data /\ data' \in {f.data : f \in FileStates} /\ UNCHANGED single /\ pc' = "draw"
    BY <1>4 DEF Truth, Reload, FlagsOK
  <2>2. /\ << >> \in Seq(Detail(data')) /\ Len(<< >>) <= 1
    BY SmallSeq
  <2>3. CASE view.detail # << >> /\ ~(single /\ Has(file.data, view.detail[1].turn))
    <3>1. view' = [view EXCEPT !.detail = << >>]
      BY <1>4, <2>3 DEF Reload
    <3>2. view' \in ViewStates(data') /\ view'.detail = << >>
      BY <2>2, <3>1 DEF Truth, ViewOK, ViewStates
    <3> QED
      BY <1>1, <1>2, <2>1, <2>2, <3>2 DEF Truth, ViewOK
  <2>4. CASE view.detail = << >>
    <3>1. view' = view
      BY <1>4, <2>4 DEF Reload
    <3>2. view' \in ViewStates(data')
      BY <2>2, <2>4, <3>1 DEF Truth, ViewOK, ViewStates
    <3> QED
      BY <1>1, <1>2, <2>1, <2>2, <2>4, <3>1, <3>2 DEF Truth, ViewOK
  <2>5. CASE view.detail # << >> /\ single /\ Has(file.data, view.detail[1].turn)
    <3>1. view' = view
      BY <1>4, <2>5 DEF Reload
    <3>2. view.detail \in Seq(Detail(data)) /\ Len(view.detail) <= 1
      BY DEF Truth, ViewOK, ViewStates
    <3>3. view.detail = <<view.detail[1]>> /\ view.detail[1] \in Detail(data)
      BY <2>5, <3>2, TheOne
    <3>4. view.detail[1] \in Detail(data')
      BY <2>1, <2>5, <3>3 DEF Detail, Has
    <3>5. view.detail \in Seq(Detail(data'))
      BY <3>3, <3>4, SmallSeq
    <3>6. view' \in ViewStates(data')
      BY <3>1, <3>5 DEF Truth, ViewOK, ViewStates
    <3> QED
      BY <1>1, <1>2, <2>1, <2>5, <3>1, <3>2, <3>6 DEF Truth, ViewOK
  <2> QED
    BY <2>3, <2>4, <2>5
<1> QED
  BY <1>3, <1>4 DEF Reload
(* The AppState rebuilt for a key is one of the data, and what is copied   *)
(* back from it is a view of the data again.                               *)
LEMMA TransientShaped == ASSUME ViewOK PROVE Shaped(data, Transient)
<1>1. /\ view.help \in BOOLEAN /\ view.detail \in Seq(Detail(data)) /\ view.models \in Nat
      /\ view.view \in Views /\ Len(view.detail) <= 1
  BY DEF ViewOK, ViewStates
<1>2. Transient \in AppStates(data)
  BY <1>1, ViewNames DEF Transient, NewState, AppStates, Detail, SortKeys
<1>3. Transient.detail = view.detail
  BY DEF Transient, NewState
<1> QED
  BY <1>1, <1>2, <1>3 DEF Shaped

LEMMA CopiedBackOK ==
  ASSUME ViewOK, NEW st, Shaped(data, st)
  PROVE  CopiedBack(st) \in ViewStates(data) /\ Len(CopiedBack(st).detail) <= 1
<1>1. /\ st.help \in BOOLEAN /\ st.detail \in Seq(Detail(data)) /\ st.sel["Models"] \in Nat
      /\ st.view \in Views /\ Len(st.detail) <= 1
  BY FieldsOK, ViewNames DEF Shaped
<1>2. CopiedBack(st).detail = st.detail
  BY DEF ViewOK, ViewStates, CopiedBack
<1> QED
  BY <1>1, <1>2 DEF ViewOK, ViewStates, CopiedBack

LEMMA SingleKeyView ==
  ASSUME Truth, single, NEW k, SingleKey(k)
  PROVE  view' \in ViewStates(data) /\ Len(view'.detail) <= 1
<1>1. ViewOK
  BY DEF Truth
<1>2. CASE UNCHANGED view
  BY <1>1, <1>2 DEF ViewOK
<1>3. CASE view' = [view EXCEPT !.help = ~@, !.gg = FALSE]
  BY <1>1, <1>3 DEF ViewOK, ViewStates
<1>4. CASE view' = CopiedBack(Dispatch(data, Transient, k))
  <2>1. Shaped(data, Dispatch(data, Transient, k))
    BY <1>1, DataIsReport, TransientShaped, DispatchShaped
  <2> QED
    BY <1>1, <1>4, <2>1, CopiedBackOK
<1> QED
  BY <1>2, <1>3, <1>4 DEF SingleKey

LEMMA CrossKeyView ==
  ASSUME Truth, NEW k, CrossKey(k)
  PROVE  view' \in ViewStates(data) /\ view'.detail = view.detail
<1>1. view \in ViewStates(data) /\ data.buckets \in Nat
  BY WatchAssumption DEF Truth, ViewOK, NoData
<1> DEFINE plain == [view EXCEPT !.gg = FALSE]
<1>2. plain \in ViewStates(data) /\ plain.detail = view.detail
  BY <1>1 DEF ViewStates
<1>3. \A v \in ViewStates(data) :
        /\ \A n \in Nat : /\ [v EXCEPT !.sel = n] \in ViewStates(data)
                         /\ [v EXCEPT !.sel = n].detail = v.detail
        /\ \A x \in SortKeys : /\ [v EXCEPT !.sort = x] \in ViewStates(data)
                              /\ [v EXCEPT !.sort = x].detail = v.detail
        /\ v.sel \in Nat
  BY DEF ViewStates
<1>4. /\ SaturatingSub(data.buckets, 1) \in Nat /\ SaturatingSub(plain.sel, 1) \in Nat
      /\ (IF plain.sel + 1 < data.buckets THEN plain.sel + 1 ELSE plain.sel) \in Nat
  <2>1. plain.sel \in Nat
    BY <1>2, <1>3
  <2>2. \A n \in Nat : (IF n + 1 < data.buckets THEN n + 1 ELSE n) \in Nat
    OBVIOUS
  <2> QED
    BY <1>1, <2>1, <2>2, SubNat
<1> HIDE DEF plain
<1>5. CASE k = "g"
  BY <1>1, <1>5 DEF CrossKey, ViewStates, SortKeys
<1>6. CASE k # "g"
  <2>1. \/ view' = view \/ view' = plain
        \/ \E n \in Nat : view' = [plain EXCEPT !.sel = n]
        \/ \E x \in SortKeys : view' = [plain EXCEPT !.sort = x]
    <3>1. CASE k \in {"?", "G", "CtrlC", "Up", "Down"}
      BY <1>4, <3>1 DEF CrossKey, plain, SortKeys
    <3>2. CASE k \in SortKeys
      BY <3>2 DEF CrossKey, plain, SortKeys
    <3>3. CASE k \notin {"?", "G", "CtrlC", "Up", "Down"} \cup SortKeys
      BY <1>6, <3>3 DEF CrossKey, plain, SortKeys
    <3> QED
      BY <3>1, <3>2, <3>3
  <2>2. /\ \A n \in Nat : /\ [plain EXCEPT !.sel = n] \in ViewStates(data)
                        /\ [plain EXCEPT !.sel = n].detail = view.detail
        /\ \A x \in SortKeys : /\ [plain EXCEPT !.sort = x] \in ViewStates(data)
                              /\ [plain EXCEPT !.sort = x].detail = view.detail
    BY <1>2, <1>3
  <2>3. CASE view' \in {view, plain}
    BY <1>1, <1>2, <2>3
  <2>4. ASSUME NEW n \in Nat, view' = [plain EXCEPT !.sel = n]
        PROVE  view' \in ViewStates(data) /\ view'.detail = view.detail
    BY <2>2, <2>4
  <2>5. ASSUME NEW x \in SortKeys, view' = [plain EXCEPT !.sort = x]
        PROVE  view' \in ViewStates(data) /\ view'.detail = view.detail
    BY <2>2, <2>5
  <2> QED
    BY <2>1, <2>3, <2>4, <2>5
<1> QED
  BY <1>5, <1>6

LEMMA KeyTruth == ASSUME Truth, NEW k \in Keys, HandleKey(k) PROVE Truth'
<1>1. /\ UNCHANGED <<single, file_vars, watching, queue, data, err, shown, tried>>
      /\ typed' = FALSE /\ pc = "poll"
      /\ (single /\ SingleKey(k)) \/ (~single /\ CrossKey(k))
  BY DEF HandleKey
<1>2. pc' \in {"draw", "leave"}
  BY <1>1 DEF SingleKey, CrossKey
<1>3. FlagsOK' /\ CountsOK' /\ ErrOK'
  BY <1>1, <1>2 DEF Truth, FlagsOK, CountsOK, ErrOK, file_vars
<1>4. /\ view' \in ViewStates(data) /\ Len(view'.detail) <= 1
      /\ ~single => view'.detail = << >>
  BY <1>1, SingleKeyView, CrossKeyView DEF Truth, ViewOK
<1> QED
  BY <1>1, <1>2, <1>3, <1>4 DEF Truth, ViewOK

(* Every other step leaves the view and its data alone.                    *)
LEMMA CalmTruth ==
  ASSUME Truth, UNCHANGED <<single, ui_vars>>, FlagsOK', CountsOK', pc' # "load" \/ pc = "load"
  PROVE  Truth'
  BY DEF Truth, ErrOK, ViewOK, ui_vars

LEMMA CountsStep ==
  ASSUME Truth, FileChanges \/ Notify
  PROVE  CountsOK'
<1>1. /\ writes \in Nat /\ MaxWrites \in Nat /\ queue \in Nat /\ shown \in Nat /\ tried \in Nat
      /\ writes <= MaxWrites /\ shown <= writes /\ shown <= tried /\ tried <= writes
      /\ queue + (IF pending THEN 1 ELSE 0) <= writes
  BY WatchAssumption DEF Truth, CountsOK
<1>2. CASE FileChanges
  <2>1. writes' = writes + 1 /\ writes < MaxWrites /\ UNCHANGED <<queue, shown, tried>>
    BY <1>2 DEF FileChanges, ui_vars
  <2> QED
    BY <1>1, <2>1 DEF CountsOK
<1>3. CASE Debounced
  <2>1. queue' = queue + 1 /\ pending /\ pending' = FALSE /\ UNCHANGED <<writes, shown, tried>>
    BY <1>3 DEF Debounced, ui_vars
  <2> QED
    BY <1>1, <2>1 DEF CountsOK
<1>4. CASE DebounceError
  <2>1. pending' = FALSE /\ UNCHANGED <<queue, writes, shown, tried>>
    BY <1>4 DEF DebounceError, ui_vars
  <2> QED
    BY <1>1, <2>1 DEF CountsOK
<1> QED
  BY <1>2, <1>3, <1>4 DEF Notify

LEMMA TruthStep == ASSUME Truth, [Next]_vars PROVE Truth'
<1>1. CASE UNCHANGED vars
  BY <1>1, CalmTruth DEF vars, file_vars, ui_vars, Truth, FlagsOK, CountsOK
<1>2. CASE FileChanges \/ Notify
  <2>1. FlagsOK'
    BY <1>2 DEF FileChanges, Notify, Debounced, DebounceError, Truth, FlagsOK
  <2> QED
    BY <1>2, <2>1, CountsStep, CalmTruth DEF FileChanges, Notify, Debounced, DebounceError
<1>3. CASE UserTypes
  BY <1>3, CalmTruth DEF UserTypes, file_vars, ui_vars, Truth, FlagsOK, CountsOK
<1>4. CASE InitialLoad
  BY <1>4, LoadTruth
<1>5. CASE Reload
  BY <1>5, ReloadTruth
<1>6. CASE \E k \in Keys : HandleKey(k)
  BY <1>6, KeyTruth
<1>7. CASE SpawnWatcher \/ EnterTuiLogGuard \/ Enter \/ Draw \/ Idle \/ PollFails \/ Panic \/ Leave
  <2>1. /\ UNCHANGED <<single, file_vars, queue, typed, ui_vars>> /\ watching' \in BOOLEAN
        /\ pc' \in {"guard", "done", "enter", "draw", "drop", "drain", "leave"}
    BY <1>7 DEF SpawnWatcher, EnterTuiLogGuard, Enter, Draw, Idle, PollFails, Panic, Leave,
                Truth, FlagsOK
  <2>2. FlagsOK' /\ CountsOK'
    BY <2>1 DEF file_vars, ui_vars, Truth, FlagsOK, CountsOK
  <2> QED
    BY <2>1, <2>2, CalmTruth
<1>8. CASE Drain
  <2>1. CountsOK'
    <3>1. \A n \in Nat, w \in Nat : n + (IF pending THEN 1 ELSE 0) <= w
                                   => 0 + (IF pending THEN 1 ELSE 0) <= w
      OBVIOUS
    <3>2. writes \in Nat
      BY DEF Truth, CountsOK
    <3> QED
      BY <1>8, <3>1, <3>2 DEF Drain, file_vars, ui_vars, Truth, CountsOK
  <2>2. FlagsOK'
    BY <1>8 DEF Drain, file_vars, Truth, FlagsOK
  <2> QED
    BY <1>8, <2>1, <2>2, CalmTruth DEF Drain
<1>9. CASE DropGuard
  <2>1. CountsOK'
    <3>1. \A n \in Nat, w \in Nat : n + (IF pending THEN 1 ELSE 0) <= w
                                   => n + (IF FALSE THEN 1 ELSE 0) <= w
      OBVIOUS
    <3>2. writes \in Nat
      BY DEF Truth, CountsOK
    <3> QED
      BY <1>9, <3>1, <3>2 DEF DropGuard, ui_vars, Truth, CountsOK
  <2>2. FlagsOK'
    BY <1>9 DEF DropGuard, Truth, FlagsOK
  <2> QED
    BY <1>9, <2>1, <2>2, CalmTruth DEF DropGuard
<1> QED
  BY <1>1, <1>2, <1>3, <1>4, <1>5, <1>6, <1>7, <1>8, <1>9 DEF Next, Interface

LEMMA TruthIsType == ASSUME IInv, Truth PROVE TypeOK
<1>1. queue \in 0..MaxWrites
  <2>1. queue \in Nat /\ writes \in Nat /\ MaxWrites \in Nat /\ writes <= MaxWrites
        /\ queue + (IF pending THEN 1 ELSE 0) <= writes
    BY WatchAssumption DEF Truth, CountsOK
  <2> QED
    BY <2>1
<1>2. /\ view.sort \in SortKeys /\ view.view \in Views
      /\ {view.sel, view.models} \subseteq Nat /\ {view.help, view.gg} \subseteq BOOLEAN
  BY DEF Truth, ViewOK, ViewStates
<1>3. /\ {term.raw, term.alt, term.path, term.printed} \subseteq BOOLEAN
      /\ term.log \in {"stderr", "file"}
  BY DEF IInv, Screen
<1> QED
  BY <1>1, <1>2, <1>3 DEF Truth, FlagsOK, CountsOK, ErrOK, ViewOK, TypeOK

LEMMA TruthIsTrue == ASSUME IInv, Truth PROVE ScreenIsTrue
<1>1. DetailTurnExists
  <2>1. view.detail \in Seq(Detail(data)) /\ Len(view.detail) <= 1
    BY DEF Truth, ViewOK, ViewStates
  <2>2. view.detail # << >> => view.detail[1] \in Detail(data)
    BY <2>1, TheOne
  <2>3. view.detail # << >> => Has(data, view.detail[1].turn)
    BY <2>2 DEF Detail, Has
  <2> QED
    BY <2>3 DEF Truth, ViewOK, DetailTurnExists
<1>2. StaleIsAnnounced
  <2> SUFFICES ASSUME NEW h \in 1..2, NEW open \in 0..1
               PROVE  LET f == Frame(h, open) IN
                      /\ shown # tried /\ h > 1 => f.footer = <<"reload">>
                      /\ f.body = "buckets" => ~f.help /\ f.footer \notin {<<"turn">>, <<"pending">>}
    BY DEF StaleIsAnnounced
  <2>1. h \in Nat /\ (h > 1 => ~(h <= 1))
    OBVIOUS
  <2>2. shown # tried /\ h > 1 => Footer(h, open) = <<"reload">>
    BY <2>1 DEF Truth, ErrOK, Footer
  <2>3. Body = "buckets" => ~single
    <3>1. view.view \in Views
      BY DEF Truth, ViewOK, ViewStates
    <3> QED
      BY <3>1, ViewNames DEF Body
  <2>4. ~single => Footer(h, open) \in {<< >>, <<"reload">>, <<"none">>, <<"blank">>}
    BY DEF Truth, ErrOK, Footer
  <2>5. \A f \in {<< >>, <<"reload">>, <<"none">>, <<"blank">>} : f \notin {<<"turn">>, <<"pending">>}
    OBVIOUS
  <2> QED
    BY <2>2, <2>3, <2>4, <2>5 DEF Frame
<1> QED
  BY <1>1, <1>2, TruthIsType DEF ScreenIsTrue

(* Whatever the agent does to the file, whichever reloads fail and         *)
(* whatever is typed: no detail view of a turn that is gone, no old data   *)
(* without a banner, nothing of one session over an aggregate.             *)
THEOREM ScreenStaysTrue == Spec => []ScreenIsTrue
<1>1. Init => IInv /\ Truth
  BY InitTruth DEF Init, PlainScreen, IInv, Screen, Outside
<1>2. IInv /\ Truth /\ [Next]_vars => IInv' /\ Truth'
  BY Step, TruthStep
<1>3. IInv /\ Truth => ScreenIsTrue
  BY TruthIsTrue
<1> QED
  BY <1>1, <1>2, <1>3, PTL DEF Spec

-----------------------------------------------------------------------------
(* The dashboard.                                                          *)

Whys == {"", "ask", "asset", "query", "load_session", "load_episodes", "all failed", "no-store", "render"}
Part == [sid : Session, report : Nat, episodes : Nat]
Asked == {None} \cup UNION {Asks[q] : q \in Request}
Reqs ==
  [ ask : Asked, refs : SUBSET Session, listed : SUBSET Session, cur : {None} \cup Part,
    at : {"none", "accepted", "waiting", "list", "load", "each", "episodes", "render", "answered", "dropped"},
    parts : SUBSET Part, failures : Nat, moved : SUBSET Session, faulty : BOOLEAN,
    answer : [status : Nat, why : Whys] ]
RowTable == [Session -> {NoRow} \cup [report : Nat, episodes : Nat]]

(* A request reads with the connection in hand.                            *)
Holds(r) == r.at \in {"list", "load", "each", "episodes"}

(* Which requests read what.                                               *)
KindOK(r) ==
  /\ r.at = "load" => r.ask.kind = "session"
  /\ r.at \in {"list", "each"} => r.ask.kind # "session"
  /\ r.at = "episodes" => r.ask.kind \in {"session", "aggregate"} /\ r.cur \in Part
  /\ r.at = "episodes" /\ r.ask.kind = "session" => r.cur.sid = Wanted(r.ask) /\ r.parts = {}
  /\ r.at \in {"accepted", "waiting", "list", "load"} =>
       r.refs = {} /\ r.listed = {} /\ r.parts = {} /\ r.failures = 0

(* The sessions listed are to come, in hand, on the page or counted.       *)
Taken(r)  == {p.sid : p \in r.parts}
InHand(r) == IF r.at = "episodes" THEN {r.cur.sid} ELSE {}
Left(r)   == r.listed \ (r.refs \cup Taken(r) \cup InHand(r))
TallyOK(r) ==
  Holds(r) /\ r.ask.kind # "session" =>
    /\ IsFiniteSet(r.parts)
    /\ r.refs \subseteq r.listed
    /\ Taken(r) \cup InHand(r) \subseteq r.listed \ r.refs
    /\ Taken(r) \cap InHand(r) = {}
    /\ r.ask.kind # "sessions" =>
         Cardinality(r.parts) + r.failures + Cardinality(r.refs) + Cardinality(InHand(r))
           = Cardinality(r.listed)

(* What the request read is still so, unless the row has moved.            *)
Unread(rows, s) == rows[s] # NoRow /\ rows[s].report = 0
CurOK(cur, moved, rows) ==
  \/ cur.sid \in moved
  \/ rows[cur.sid] # NoRow /\ rows[cur.sid].report = cur.report
TruthOK(r, rows) ==
  Holds(r) =>
    /\ \A s \in r.listed : rows[s] # NoRow \/ s \in r.moved
    /\ r.ask.kind # "session" /\ ~r.faulty => \A s \in Left(r) : Unread(rows, s) \/ s \in r.moved
    /\ r.ask.kind = "aggregate" =>
         \A p \in r.parts :
           p.sid \in r.moved \/ rows[p.sid] = [report |-> p.report, episodes |-> p.episodes]
    /\ r.at = "episodes" => CurOK(r.cur, r.moved, rows)

ReqOK(r, rows) == r \in Reqs /\ KindOK(r) /\ TallyOK(r) /\ TruthOK(r, rows)
WebOK ==
  /\ row \in RowTable
  /\ lock \in Request \cup {NoRequest}
  /\ req \in [Request -> Reqs]
  /\ \A q \in Request : Holds(req[q]) => lock = q
  /\ \A q \in Request : ReqOK(req[q], row)

(* A process that is past the empty file has made it, and one that         *)
(* migrates has read the version of a release.                             *)
StoreOK ==
  /\ schema \in Schemas \cup {Newer}
  /\ opening \in [Opener -> [at : {"closed", "connected", "migrating", "open", "failed"}, from : Nat]]
  /\ \A o \in Opener :
       /\ opening[o].at \in {"connected", "migrating", "open"} => schema.exists
       /\ opening[o].at = "migrating" => opening[o].from < Latest
       /\ opening[o].at = "open" => schema.version = Latest

(* From the resolution of its settings on, the server has those asked for. *)
SettingsOK(set, line) ==
  /\ set.bind \in Addresses /\ set.interval \in 1..60
  /\ line.bind # None => set.bind = line.bind
  /\ line.interval # None => set.interval = line.interval
  /\ line.no_open => ~set.auto_open
Printed(p) ==
  /\ p.file \notin {Unreadable, Malformed}
  /\ p.serve = ServeShown(IF p.file = NoFile THEN NoSettings ELSE p.file)
SetupOK ==
  /\ phase \in {"off", "path", "open", "bind", "serving", "draining", "stopped", "killed"}
  /\ cli \in CommandLines
  /\ phase = "off" => settings = None
  /\ phase \in {"path", "open", "bind", "serving", "draining"} => SettingsOK(settings, cli)
  /\ printed # None => Printed(printed)

DashInv == StoreOK /\ SetupOK /\ WebOK
-----------------------------------------------------------------------------
LEMMA Migrations == Migration[1] = "tables" /\ Migration[2] = "episodes_json" /\ Latest = 2
  BY DEF Migration, Latest

LEMMA SchemaCases ==
  ASSUME NEW s
  PROVE  s \in Schemas <=>
           \/ s = Absent
           \/ s = [exists |-> TRUE, version |-> 0, made |-> {}]
           \/ s = [exists |-> TRUE, version |-> 1, made |-> {"tables"}]
           \/ s = [exists |-> TRUE, version |-> 2, made |-> {"tables", "episodes_json"}]
<1> DEFINE Of(n) == [exists |-> TRUE, version |-> n, made |-> {Migration[i] : i \in 1..n}]
<1>1. 0..Latest = {0, 1, 2} /\ 1..0 = {} /\ 1..1 = {1} /\ 1..2 = {1, 2}
  BY Migrations
<1>2. Schemas = {Absent} \cup {Of(0), Of(1), Of(2)}
  BY <1>1 DEF Schemas
<1>3. /\ {Migration[i] : i \in 1..0} = {} /\ {Migration[i] : i \in 1..1} = {"tables"}
      /\ {Migration[i] : i \in 1..2} = {"tables", "episodes_json"}
  BY <1>1, Migrations
<1> QED
  BY <1>2, <1>3

(* Opening the store, whatever else opens it.                              *)
LEMMA OpenersOK ==
  ASSUME StoreOK, NEW o \in Opener, Open(o)
  PROVE  StoreOK'
<1> DEFINE Openings ==
      [Opener -> [at : {"closed", "connected", "migrating", "open", "failed"}, from : Nat]]
<1>1. ASSUME NEW where \in {"closed", "connected", "migrating", "open", "failed"}, At(o, where)
      PROVE  opening' \in Openings /\ opening'[o].at = where
             /\ \A p \in Opener : p # o => opening'[p] = opening[p]
  BY <1>1 DEF At, StoreOK
<1>2. CASE Connect(o)
  <2>1. CASE schema' = [schema EXCEPT !.exists = TRUE] /\ At(o, "connected")
    <3>1. schema' \in Schemas \cup {Newer} /\ schema'.exists /\ schema'.version = schema.version
      <4>1. CASE schema = Absent
        <5>1. schema' = [exists |-> TRUE, version |-> 0, made |-> {}]
          BY <2>1, <4>1 DEF Absent
        <5> QED
          BY <4>1, <5>1, SchemaCases DEF Absent
      <4>2. CASE schema # Absent
        <5>1. \/ schema = [exists |-> TRUE, version |-> 0, made |-> {}]
              \/ schema = [exists |-> TRUE, version |-> 1, made |-> {"tables"}]
              \/ schema = [exists |-> TRUE, version |-> 2, made |-> {"tables", "episodes_json"}]
              \/ schema = Newer
          BY <4>2, SchemaCases DEF StoreOK
        <5>2. schema' = schema /\ schema.exists
          BY <2>1, <5>1 DEF Newer
        <5> QED
          BY <5>2 DEF StoreOK
      <4> QED
        BY <4>1, <4>2
    <3> QED
      BY <1>1, <2>1, <3>1 DEF StoreOK
  <2>2. CASE At(o, "failed") /\ UNCHANGED schema
    BY <1>1, <2>2 DEF StoreOK
  <2> QED
    BY <1>2, <2>1, <2>2 DEF Connect
<1>3. CASE ReadVersion(o)
  <2>1. schema' = schema /\ schema.exists /\ schema.version \in Nat
    BY <1>3, SchemaCases DEF ReadVersion, StoreOK, Absent, Newer, Latest
  <2>2. CASE At(o, "failed")
    BY <1>1, <2>1, <2>2 DEF StoreOK
  <2>3. CASE At(o, "open") /\ schema.version = Latest
    BY <1>1, <2>1, <2>3 DEF StoreOK
  <2>4. CASE /\ opening' = [opening EXCEPT ![o] = [at |-> "migrating", from |-> schema.version]]
             /\ ~(schema.version > Latest) /\ schema.version # Latest
    <3>1. /\ opening' \in Openings /\ opening'[o] = [at |-> "migrating", from |-> schema.version]
          /\ \A p \in Opener : p # o => opening'[p] = opening[p]
      BY <2>1, <2>4 DEF StoreOK
    <3>2. schema.version < Latest
      BY <2>1, <2>4, Migrations
    <3> QED
      BY <2>1, <3>1, <3>2 DEF StoreOK
  <2> QED
    BY <1>3, <2>2, <2>3, <2>4 DEF ReadVersion
<1>4. CASE Migrate(o)
  <2> DEFINE v == opening[o].from + 1
  <2>1. schema.exists /\ v \in {1, 2}
    BY <1>4, Migrations DEF Migrate, StoreOK
  <2>2. CASE At(o, "failed") /\ UNCHANGED schema
    BY <1>1, <2>2 DEF StoreOK
  <2>3. CASE /\ Applies(v, schema.made) /\ At(o, "open")
             /\ schema' = [schema EXCEPT !.version = Latest, !.made = @ \cup {Migration[n] : n \in v..Latest}]
    <3>1. /\ v = 1 => v..Latest = {1, 2}
          /\ v = 2 => v..Latest = {2}
      BY <2>1, Migrations
    <3>2. /\ v = 1 => {Migration[n] : n \in v..Latest} = {"tables", "episodes_json"}
          /\ v = 2 => {Migration[n] : n \in v..Latest} = {"episodes_json"}
      BY <3>1, Migrations
    <3>3. /\ v = 1 => "tables" \notin schema.made
          /\ v = 2 => "tables" \in schema.made /\ "episodes_json" \notin schema.made
      BY <2>1, <2>3, Migrations DEF Applies
    <3>4. \/ schema.made = {} /\ v = 1 /\ schema = [exists |-> TRUE, version |-> 0, made |-> {}]
          \/ /\ schema.made = {"tables"} /\ v = 2
             /\ schema = [exists |-> TRUE, version |-> 1, made |-> {"tables"}]
      BY <2>1, <3>3, SchemaCases DEF StoreOK, Absent, Newer
    <3>5. schema' = [exists |-> TRUE, version |-> 2, made |-> {"tables", "episodes_json"}]
      <4>1. schema.made \cup {Migration[n] : n \in v..Latest} = {"tables", "episodes_json"}
        BY <3>2, <3>4
      <4>2. schema' = [schema EXCEPT !.version = 2, !.made = {"tables", "episodes_json"}]
        BY <2>3, <4>1, Migrations
      <4>3. CASE schema = [exists |-> TRUE, version |-> 0, made |-> {}]
        BY <4>2, <4>3
      <4>4. CASE schema = [exists |-> TRUE, version |-> 1, made |-> {"tables"}]
        BY <4>2, <4>4
      <4> QED
        BY <3>4, <4>3, <4>4
    <3>6. schema' \in Schemas
      BY <3>5, SchemaCases
    <3> QED
      <4>1. schema'.exists /\ schema'.version = Latest
        BY <3>5, Migrations
      <4>2. /\ opening' \in Openings /\ opening'[o].at = "open"
            /\ \A p \in Opener : p # o => opening'[p] = opening[p]
        BY <1>1, <2>3
      <4> QED
        BY <3>6, <4>1, <4>2 DEF StoreOK
  <2> QED
    BY <1>4, <2>2, <2>3 DEF Migrate
<1> QED
  BY <1>2, <1>3, <1>4 DEF Open

LEMMA StoreInitOK == StoreInit => StoreOK
<1> SUFFICES ASSUME StoreInit PROVE StoreOK
  OBVIOUS
<1>1. \A o \in Opener : opening[o].at = "closed" /\ opening[o].from = 0
  BY DEF StoreInit, Closed
<1> QED
  BY <1>1 DEF StoreInit, StoreOK, Closed

(* Of the server's actions only opening the store touches the migration,    *)
(* and no request or writer touches what was asked for and resolved.         *)
LEMMA WebLeavesSetup ==
  ASSUME NEW q \in Request, Arrive(q) \/ RequestStep(q) \/ HandlerPanics(q)
  PROVE  UNCHANGED storeVars /\ UNCHANGED server /\ UNCHANGED configVars
<1>1. CASE Arrive(q) \/ HandlerPanics(q)
  BY <1>1 DEF Arrive, HandlerPanics, Keep
<1>2. CASE Handle(q) \/ Acquire(q)
  BY <1>2 DEF Handle, Acquire, Keep
<1>3. CASE List(q) \/ NextRow(q) \/ Load(q)
  BY <1>3 DEF List, NextRow, Load, Keep, Release
<1>4. CASE Episodes(q) \/ Compute(q) \/ Render(q)
  BY <1>4 DEF Episodes, Compute, Render, Keep, Release
<1> QED
  BY <1>1, <1>2, <1>3, <1>4 DEF RequestStep

LEMMA WritersLeaveSetup ==
  Writers => UNCHANGED storeVars /\ UNCHANGED server /\ UNCHANGED configVars
BY DEF Writers, CommitReport, CommitEpisodes, PruneBefore, Others

LEMMA StoreStep == StoreOK /\ [DashNext]_dashVars => StoreOK'
<1> SUFFICES ASSUME StoreOK, [DashNext]_dashVars PROVE StoreOK'
  OBVIOUS
<1>1. CASE UNCHANGED storeVars
  BY <1>1 DEF storeVars, StoreOK
<1>2. CASE OpenDb
  BY <1>2, OpenersOK, DashboardAssumption DEF OpenDb, Serve
<1>3. CASE OtherOpens
  BY <1>3, OpenersOK DEF OtherOpens
<1>4. CASE Resolve \/ CheckPath \/ Bind \/ Signal \/ Stop \/ Configure
  <2>1. UNCHANGED storeVars
    BY <1>4 DEF Resolve, CheckPath, Bind, Signal, Stop, Configure
  <2> QED
    BY <2>1, <1>1
<1>5. CASE (\E q \in Request : Arrive(q) \/ RequestStep(q) \/ HandlerPanics(q)) \/ Writers
  BY <1>5, <1>1, WebLeavesSetup, WritersLeaveSetup
<1>6. CASE UNCHANGED dashVars
  BY <1>6, <1>1 DEF dashVars
<1> QED
  BY <1>2, <1>3, <1>4, <1>5, <1>6 DEF DashNext, Started

-----------------------------------------------------------------------------
(* The flags, then the file, then the default: each is usable.             *)
LEMMA ResolvedOK ==
  ASSUME NEW line \in CommandLines, NEW saved, ~ServeRefuses(line, saved)
  PROVE  SettingsOK(ServeConfig(line, saved), line)
<1> DEFINE set == ServeConfig(line, saved)
<1>1. /\ set.bind = Or(line.bind, Or(saved.bind, DefaultBind))
      /\ set.interval = Or(line.interval, Or(saved.interval, 5))
      /\ set.auto_open = IF line.no_open THEN FALSE ELSE Or(saved.auto_open, TRUE)
  BY DEF ServeConfig
<1>2. line.bind = None /\ saved.bind # None => saved.bind \in Addresses
  BY DEF ServeRefuses
<1>3. set.interval \in 1..60
  BY DEF ServeRefuses
<1>4. set.bind \in Addresses
  BY <1>1, <1>2, DashboardAssumption DEF Or
<1> HIDE DEF set
<1>5. SettingsOK(set, line)
  BY <1>1, <1>3, <1>4 DEF SettingsOK, Or
<1> QED
  BY <1>5 DEF set

(* What `config show` printed of the file is what the file resolves to.    *)
ShownNow ==
  phase = "off" /\ settings' # None /\ printed # None /\ printed.file = conf =>
    /\ cli.bind = None => settings'.bind = printed.serve.bind
    /\ cli.interval = None => settings'.interval = printed.serve.interval
    /\ ~cli.no_open => settings'.auto_open = printed.serve.auto_open

LEMMA SetupStep == SetupOK /\ [DashNext]_dashVars => SetupOK' /\ ShownNow
<1> SUFFICES ASSUME SetupOK, [DashNext]_dashVars PROVE SetupOK' /\ ShownNow
  OBVIOUS
<1>1. CASE UNCHANGED <<settings, cli, printed>> /\ phase' = phase
  BY <1>1 DEF SetupOK, ShownNow
<1>2. CASE Resolve
  <2>1. /\ phase = "off" /\ UNCHANGED <<cli, printed, conf>> /\ cli \in CommandLines
        /\ printed # None => Printed(printed)
    BY <1>2 DEF Resolve, SetupOK, configVars
  <2>2. CASE ServeRefuses(cli, ServeSettings)
    <3>1. phase' = "stopped" /\ settings' = settings
      BY <1>2, <2>2 DEF Resolve, Ends
    <3> QED
      BY <2>1, <3>1 DEF SetupOK, ShownNow
  <2>3. CASE ~ServeRefuses(cli, ServeSettings)
    <3>1. phase' = "path" /\ settings' = ServeConfig(cli, ServeSettings)
      BY <1>2, <2>3 DEF Resolve, Goes
    <3>2. SettingsOK(settings', cli)
      BY <2>1, <2>3, <3>1, ResolvedOK
    <3>3. ASSUME printed # None, printed.file = conf
          PROVE  ServeSettings = (IF conf = NoFile THEN NoSettings ELSE conf)
                 /\ printed.serve = ServeShown(ServeSettings)
      BY <2>1, <3>3 DEF Printed, ServeSettings, Parses, Parsed
    <3>4. /\ settings'.bind = Or(cli.bind, Or(ServeSettings.bind, DefaultBind))
          /\ settings'.interval = Or(cli.interval, Or(ServeSettings.interval, 5))
          /\ settings'.auto_open = IF cli.no_open THEN FALSE ELSE Or(ServeSettings.auto_open, TRUE)
      BY <3>1 DEF ServeConfig
    <3>5. ASSUME printed # None, printed.file = conf
          PROVE  /\ printed.serve.bind = Or(ServeSettings.bind, DefaultBind)
                 /\ printed.serve.interval = Or(ServeSettings.interval, 5)
                 /\ printed.serve.auto_open = Or(ServeSettings.auto_open, TRUE)
      <4>1. printed.serve = ServeShown(ServeSettings)
        BY <3>3, <3>5
      <4> QED
        BY <4>1 DEF ServeShown
    <3>6. \A x : Or(None, x) = x
      BY DEF Or
    <3>7. ShownNow
      BY <3>4, <3>5, <3>6 DEF ShownNow
    <3> QED
      BY <2>1, <3>1, <3>2, <3>7 DEF SetupOK
  <2> QED
    BY <2>2, <2>3
<1>3. CASE CheckPath \/ OpenDb \/ Bind \/ Signal \/ Stop
  <2>1. /\ UNCHANGED <<settings, cli, printed>>
        /\ phase' # "off" /\ (phase = "off" => phase' = "killed")
        /\ phase' \in {"path", "open", "bind", "serving", "draining", "stopped", "killed"}
        /\ phase' \in {"path", "open", "bind", "serving", "draining"} =>
             phase \in {"path", "open", "bind", "serving", "draining"}
    BY <1>3 DEF CheckPath, OpenDb, Bind, Signal, Stop, Ends, Goes, configVars, SetupOK
  <2> QED
    BY <2>1 DEF SetupOK, ShownNow
<1>4. CASE Configure
  <2>1. UNCHANGED <<settings, cli, phase>>
    BY <1>4 DEF Configure, server
  <2>2. printed' = printed \/ Show
    BY <1>4 DEF Configure, ConfigNext, WritesConfig, StartInit, StartEdit, WriteTemplate, EditorSaves
  <2>3. Show => Printed(printed')
    BY DEF Show, Printed, Parses, Parsed
  <2>4. printed' # None => Printed(printed')
    BY <2>2, <2>3 DEF SetupOK
  <2> QED
    BY <2>1, <2>4 DEF SetupOK, ShownNow
<1>5. CASE (\E q \in Request : Arrive(q) \/ RequestStep(q) \/ HandlerPanics(q)) \/ Writers
  <2>1. UNCHANGED server /\ UNCHANGED configVars
    BY <1>5, WebLeavesSetup, WritersLeaveSetup
  <2> QED
    BY <2>1, <1>1 DEF server, configVars
<1>6. CASE OtherOpens
  BY <1>6, <1>1 DEF OtherOpens, server, configVars
<1>7. CASE UNCHANGED dashVars
  BY <1>7, <1>1 DEF dashVars, server, configVars
<1> QED
  BY <1>2, <1>3, <1>4, <1>5, <1>6, <1>7 DEF DashNext, Started

-----------------------------------------------------------------------------
(* What the properties say of one request's step.                          *)
Now(r, n, status) == r.at # "answered" /\ n.at = "answered" /\ n.answer.status = status
Told(r, n) ==
  /\ r.at = "each" /\ n.at \in {"render", "answered"} /\ r.ask.kind # "sessions" =>
       /\ Cardinality(r.parts) + r.failures = Cardinality(r.listed)
       /\ n.at = "answered" => r.listed # {} /\ r.parts = {}
  /\ Now(r, n, 404) /\ r.ask.kind = "session" => ~Stored(Wanted(r.ask))
  /\ Now(r, n, 500) /\ ~n.faulty =>
       \/ r.ask.kind = "session" /\ ((Stored(Wanted(r.ask)) /\ ~Loads(Wanted(r.ask))) \/ Wanted(r.ask) \in r.moved)
       \/ r.ask.kind # "session" /\ \A s \in r.listed : (Stored(s) /\ ~Loads(s)) \/ s \in r.moved
  /\ r.at # "render" /\ n.at = "render" /\ r.ask.kind \in {"session", "aggregate"} =>
       \A p \in n.parts :
         p.sid \in n.moved \/ row[p.sid] = [report |-> p.report, episodes |-> p.episodes]

(* One request moves on, and the connection is passed at most from it or   *)
(* to it.                                                                  *)
Advances(q, n) ==
  /\ Becomes(q, n) /\ ReqOK(n, row) /\ (Holds(n) => lock' = q) /\ Told(req[q], n)
Passes(q) == /\ lock' = lock \/ lock \in {q, NoRequest}
             /\ lock' \in {lock, q, NoRequest}

LEMMA AdvanceOK ==
  ASSUME WebOK, NEW q \in Request, NEW n, Advances(q, n), Passes(q), row' = row
  PROVE  WebOK' /\ \A p \in Request : Told(req[p], req'[p])
<1>1. /\ req' \in [Request -> Reqs] /\ req'[q] = n /\ \A p \in Request : p # q => req'[p] = req[p]
  BY DEF Advances, Becomes, ReqOK, WebOK
<1>2. lock' \in Request \cup {NoRequest}
  BY DEF Passes, WebOK
<1>3. ASSUME NEW p \in Request, Holds(req'[p]) PROVE lock' = p
  <2>1. CASE p = q
    BY <1>1, <1>3, <2>1 DEF Advances
  <2>2. CASE p # q
    <3>1. lock = p
      BY <1>1, <1>3, <2>2 DEF WebOK
    <3> QED
      BY <2>2, <3>1, DashboardAssumption DEF Passes
  <2> QED
    BY <2>1, <2>2
<1>4. ASSUME NEW p \in Request PROVE ReqOK(req'[p], row')
  BY <1>1 DEF Advances, WebOK
<1>5. ASSUME NEW p \in Request PROVE Told(req[p], req'[p])
  <2>1. CASE p = q
    BY <1>1, <2>1 DEF Advances
  <2>2. CASE p # q
    BY <1>1, <2>2 DEF Told, Now
  <2> QED
    BY <2>1, <2>2
<1> QED
  BY <1>1, <1>2, <1>3, <1>4, <1>5 DEF WebOK

(* An answer holds nothing.                                                *)
Reply(n, ask, faulty, status) ==
  /\ n \in Reqs /\ n.at = "answered" /\ n.ask = ask /\ n.faulty = faulty /\ n.answer.status = status
  /\ ~Holds(n) /\ \A rows : ReqOK(n, rows)

LEMMA FreshIs ==
  /\ Fresh \in Reqs /\ Fresh.at = "none" /\ Fresh.refs = {} /\ Fresh.listed = {}
  /\ Fresh.parts = {} /\ Fresh.failures = 0 /\ Fresh.faulty = FALSE
<1>1. NoAnswer \in [status : Nat, why : Whys]
  BY DEF NoAnswer, Whys
<1>2. None \in Asked
  BY DEF Asked
<1> QED
  BY <1>1, <1>2 DEF Fresh, Reqs

Answer(r, status, why) ==
  [Fresh EXCEPT !.ask = r.ask, !.faulty = r.faulty, !.at = "answered",
                !.answer = [status |-> status, why |-> why]]

LEMMA AnsweredOK ==
  ASSUME NEW r, r.ask \in Asked, r.faulty \in BOOLEAN, NEW status \in Nat, NEW why \in Whys
  PROVE  Reply(Answer(r, status, why), r.ask, r.faulty, status)
<1> DEFINE n == Answer(r, status, why)
<1>2. /\ n \in Reqs /\ n.at = "answered" /\ n.ask = r.ask /\ n.faulty = r.faulty
      /\ n.answer.status = status
  BY FreshIs DEF Reqs, Answer
<1> HIDE DEF n
<1>3. ~Holds(n) /\ \A rows : ReqOK(n, rows)
  BY <1>2 DEF Holds, ReqOK, KindOK, TallyOK, TruthOK
<1>4. Reply(n, r.ask, r.faulty, status)
  BY <1>2, <1>3 DEF Reply
<1> QED
  BY <1>4 DEF n

LEMMA MineOK ==
  ASSUME WebOK, NEW q \in Request
  PROVE  /\ req[q] \in Reqs /\ ReqOK(req[q], row) /\ req[q].ask \in Asked /\ req[q].faulty \in BOOLEAN
         /\ Holds(req[q]) => lock = q
  BY DEF WebOK, Reqs

(* An answer, from a request that is not counting.                         *)
LEMMA ReplyAdvances ==
  ASSUME NEW q \in Request, NEW n, NEW ask, NEW faulty, NEW status, Becomes(q, n), Reply(n, ask, faulty, status),
         req[q].at # "each", status = 404 /\ req[q].ask.kind = "session" => ~Stored(Wanted(req[q].ask)),
         status = 500 /\ ~faulty =>
           req[q].ask.kind = "session"
           /\ ((Stored(Wanted(req[q].ask)) /\ ~Loads(Wanted(req[q].ask))) \/ Wanted(req[q].ask) \in req[q].moved)
  PROVE  Advances(q, n)
<1>1. n.at = "answered" /\ n.faulty = faulty /\ n.answer.status = status /\ ~Holds(n) /\ ReqOK(n, row)
  BY DEF Reply
<1>2. Told(req[q], n)
  BY <1>1 DEF Told, Now
<1> QED
  BY <1>1, <1>2 DEF Advances

Moved(q) == (\E n : Advances(q, n)) /\ Passes(q) /\ row' = row

LEMMA ArriveOK == ASSUME WebOK, NEW q \in Request, Arrive(q) PROVE Moved(q)
<1>1. PICK ask \in Asks[q] : Becomes(q, [Fresh EXCEPT !.ask = ask, !.at = "accepted"])
  BY DEF Arrive
<1> DEFINE n == [Fresh EXCEPT !.ask = ask, !.at = "accepted"]
<1>2. ask \in Asked
  BY DEF Asked
<1>3. /\ n \in Reqs /\ n.at = "accepted" /\ n.refs = {} /\ n.listed = {} /\ n.parts = {} /\ n.failures = 0
  BY <1>2, FreshIs DEF Reqs
<1> HIDE DEF n
<1>4. ReqOK(n, row) /\ ~Holds(n)
  BY <1>3 DEF ReqOK, KindOK, TallyOK, TruthOK, Holds
<1>5. Told(req[q], n)
  BY <1>3 DEF Told, Now
<1> QED
  BY <1>1, <1>4, <1>5 DEF n, Advances, Passes, Moved, Arrive, Keep

(* A step that keeps what was read and only goes on.                       *)
Stays(r, n) ==
  /\ n \in Reqs /\ n.ask = r.ask /\ n.refs = r.refs /\ n.listed = r.listed /\ n.cur = r.cur /\ n.parts = r.parts
  /\ n.failures = r.failures /\ n.moved = r.moved

LEMMA GoesTo ==
  ASSUME NEW r \in Reqs,
         NEW where \in {"none", "accepted", "waiting", "list", "load", "each", "episodes", "render", "answered", "dropped"}
  PROVE  /\ Stays(r, [r EXCEPT !.at = where]) /\ [r EXCEPT !.at = where].at = where
         /\ [r EXCEPT !.at = where].faulty = r.faulty
         /\ Stays(r, [r EXCEPT !.at = where, !.faulty = TRUE])
         /\ [r EXCEPT !.at = where, !.faulty = TRUE].at = where
         /\ [r EXCEPT !.at = where, !.faulty = TRUE].faulty = TRUE
  BY DEF Stays, Reqs

LEMMA HandleOK == ASSUME WebOK, NEW q \in Request, Handle(q) PROVE Moved(q)
<1> SUFFICES ASSUME NEW r, r = req[q] PROVE Moved(q)
  OBVIOUS
<1>1. /\ r \in Reqs /\ ReqOK(r, row) /\ r.ask \in Asked /\ r.faulty \in BOOLEAN /\ r.at = "accepted"
      /\ Passes(q) /\ row' = row
  BY MineOK DEF Handle, Keep, Passes
<1>2. CASE Answered(q, r, 400, "ask")
  <2> DEFINE n == Answer(r, 400, "ask")
  <2>1. Becomes(q, n)
    BY <1>2 DEF Answered, Answer
  <2>2. "ask" \in Whys
    BY DEF Whys
  <2>3. Reply(n, r.ask, r.faulty, 400)
    BY <1>1, <2>2, AnsweredOK
  <2> HIDE DEF n
  <2>4. Advances(q, n)
    BY <1>1, <2>1, <2>3, ReplyAdvances
  <2> QED
    BY <1>1, <2>4 DEF Moved
<1>3. CASE ReadsStore(r.ask) /\ Becomes(q, [r EXCEPT !.at = "waiting"])
  <2> DEFINE n == [r EXCEPT !.at = "waiting"]
  <2>1. Stays(r, n) /\ n.at = "waiting"
    BY <1>1, GoesTo
  <2> HIDE DEF n
  <2>2. ReqOK(n, row) /\ ~Holds(n) /\ Told(r, n)
    BY <1>1, <2>1 DEF ReqOK, KindOK, TallyOK, TruthOK, Holds, Told, Now, Stays
  <2> QED
    BY <1>1, <1>3, <2>2 DEF Moved, Advances, n
<1>4. CASE /\ ~ReadsStore(r.ask)
           /\ Answered(q, r, IF r.ask.kind = "static" /\ r.ask.id = None THEN 404 ELSE 200, "asset")
  <2> DEFINE status == IF r.ask.kind = "static" /\ r.ask.id = None THEN 404 ELSE 200
  <2>1. status \in {404, 200} /\ Answered(q, r, status, "asset")
    BY <1>4
  <2> HIDE DEF status
  <2> DEFINE n == Answer(r, status, "asset")
  <2>2. Becomes(q, n)
    BY <2>1 DEF Answered, Answer
  <2>3. "asset" \in Whys /\ status \in Nat
    BY <2>1 DEF Whys
  <2>4. Reply(n, r.ask, r.faulty, status)
    BY <1>1, <2>3, AnsweredOK
  <2> HIDE DEF n
  <2>5. r.ask.kind # "session"
    BY <1>4 DEF ReadsStore
  <2>6. Advances(q, n)
    BY <1>1, <2>1, <2>2, <2>4, <2>5, ReplyAdvances
  <2> QED
    BY <1>1, <2>6 DEF Moved
<1> QED
  BY <1>2, <1>3, <1>4 DEF Handle

LEMMA AcquireOK == ASSUME WebOK, NEW q \in Request, Acquire(q) PROVE Moved(q)
<1> SUFFICES ASSUME NEW r, r = req[q] PROVE Moved(q)
  OBVIOUS
<1> DEFINE where == IF r.ask.kind = "session" THEN "load" ELSE "list"
           n == [r EXCEPT !.at = where]
<1>1. /\ r \in Reqs /\ ReqOK(r, row) /\ r.at = "waiting" /\ Becomes(q, n)
      /\ Passes(q) /\ row' = row /\ lock' = q
  BY MineOK DEF Acquire, Passes
<1>2. Stays(r, n) /\ n.at = where
  <2>1. where = "load" \/ where = "list"
    OBVIOUS
  <2>2. r \in Reqs
    BY <1>1
  <2> HIDE DEF where
  <2> QED
    BY <2>1, <2>2 DEF Stays, Reqs
<1>3. /\ r.refs = {} /\ r.listed = {} /\ r.parts = {} /\ r.failures = 0
      /\ Left(n) = {} /\ Taken(n) = {} /\ InHand(n) = {}
  BY <1>1, <1>2 DEF ReqOK, KindOK, Left, Taken, InHand, Stays
<1>4. where \in {"load", "list"} /\ (where = "load" <=> r.ask.kind = "session")
  OBVIOUS
<1> HIDE DEF n, where
<1>5. IsFiniteSet({}) /\ Cardinality({}) = 0
  BY FS_EmptySet
<1>6. ReqOK(n, row)
  BY <1>2, <1>3, <1>4, <1>5 DEF ReqOK, KindOK, TallyOK, TruthOK, Holds, Stays
<1>7. Told(r, n)
  BY <1>1, <1>2, <1>4 DEF Told, Now
<1> QED
  BY <1>1, <1>6, <1>7 DEF Advances, Moved

(* Answered, with what the request had become.                             *)
LEMMA AnswerAdvances ==
  ASSUME NEW q \in Request, NEW r, r.ask \in Asked, r.faulty \in BOOLEAN, NEW status \in Nat, NEW why \in Whys,
         Answered(q, r, status, why), req[q].at # "each",
         status = 404 /\ req[q].ask.kind = "session" => ~Stored(Wanted(req[q].ask)),
         status = 500 /\ ~r.faulty =>
           req[q].ask.kind = "session"
           /\ ((Stored(Wanted(req[q].ask)) /\ ~Loads(Wanted(req[q].ask))) \/ Wanted(req[q].ask) \in req[q].moved)
  PROVE  \E n : Advances(q, n)
<1> DEFINE n == Answer(r, status, why)
<1>1. Becomes(q, n)
  BY DEF Answered, Answer
<1>2. Reply(n, r.ask, r.faulty, status)
  BY AnsweredOK
<1> HIDE DEF n
<1> QED
  BY <1>1, <1>2, ReplyAdvances

LEMMA RefsIn == ASSUME NEW ask PROVE Refs(ask) \subseteq {s \in Session : row[s] # NoRow}
  BY DEF Refs, Newest, Stored

LEMMA ListOK == ASSUME WebOK, NEW q \in Request, List(q) PROVE Moved(q)
<1> SUFFICES ASSUME NEW r, r = req[q] PROVE Moved(q)
  OBVIOUS
<1>1. /\ r \in Reqs /\ ReqOK(r, row) /\ r.ask \in Asked /\ r.at = "list" /\ lock = q /\ row' = row
  BY MineOK DEF List, Holds, Keep, Release
<1>2. r.ask.kind # "session" /\ r.parts = {} /\ r.failures = 0
  BY <1>1 DEF ReqOK, KindOK
<1>3. CASE Becomes(q, [r EXCEPT !.at = "each", !.refs = Refs(r.ask), !.listed = Refs(r.ask)]) /\ Keep
  <2> DEFINE refs == Refs(r.ask)
             n == [r EXCEPT !.at = "each", !.refs = refs, !.listed = refs]
  <2>1. refs \subseteq Session /\ \A s \in refs : row[s] # NoRow
    BY RefsIn
  <2> HIDE DEF refs
  <2>2. /\ n \in Reqs /\ n.at = "each" /\ n.refs = refs /\ n.listed = refs /\ n.ask = r.ask
        /\ n.parts = {} /\ n.failures = 0
    BY <1>1, <1>2, <2>1 DEF Reqs
  <2> HIDE DEF n
  <2>3. Left(n) = {} /\ Taken(n) = {} /\ InHand(n) = {}
    BY <2>2 DEF Left, Taken, InHand
  <2>4. IsFiniteSet({}) /\ Cardinality({}) = 0 /\ Cardinality(refs) \in Nat
    BY <2>1, FS_EmptySet, FS_Subset, FS_CardinalityType, DashboardAssumption
  <2>5. ReqOK(n, row)
    <3>1. KindOK(n)
      BY <1>2, <2>2 DEF KindOK
    <3>2. TallyOK(n)
      BY <2>2, <2>3, <2>4 DEF TallyOK
    <3>3. TruthOK(n, row)
      BY <2>1, <2>2, <2>3 DEF TruthOK
    <3> QED
      BY <2>2, <3>1, <3>2, <3>3 DEF ReqOK
  <2>6. Told(r, n)
    BY <1>1, <2>2 DEF Told, Now
  <2>7. Advances(q, n)
    BY <1>1, <1>3, <2>5, <2>6 DEF Advances, n, refs, Keep
  <2> QED
    BY <1>1, <1>3, <2>7 DEF Moved, Passes, Keep
<1>4. CASE /\ r.ask.kind = "sessions" /\ Release
           /\ Becomes(q, [r EXCEPT !.at = "render", !.faulty = TRUE])
  <2> DEFINE n == [r EXCEPT !.at = "render", !.faulty = TRUE]
  <2>1. n \in Reqs /\ n.at = "render"
    BY <1>1 DEF Reqs
  <2> HIDE DEF n
  <2>2. ReqOK(n, row) /\ ~Holds(n)
    BY <2>1 DEF ReqOK, KindOK, TallyOK, TruthOK, Holds
  <2>3. Told(r, n)
    BY <1>1, <1>4, <2>1 DEF Told, Now
  <2>4. Advances(q, n)
    BY <1>4, <2>2, <2>3 DEF Advances, n
  <2> QED
    BY <1>1, <1>4, <2>4 DEF Moved, Passes, Release
<1>5. CASE Answered(q, [r EXCEPT !.faulty = TRUE], 500, "query") /\ Release
  <2> DEFINE w == [r EXCEPT !.faulty = TRUE]
  <2>1. w.ask \in Asked /\ w.faulty = TRUE /\ w.faulty \in BOOLEAN
    BY <1>1 DEF Reqs
  <2>2. "query" \in Whys
    BY DEF Whys
  <2> HIDE DEF w
  <2>3. Answered(q, w, 500, "query")
    BY <1>5 DEF w
  <2>4. \E n : Advances(q, n)
    BY <1>1, <2>1, <2>2, <2>3, AnswerAdvances
  <2> QED
    BY <1>1, <1>5, <2>4 DEF Moved, Passes, Release
<1> QED
  BY <1>3, <1>4, <1>5 DEF List

LEMMA LoadOK == ASSUME WebOK, NEW q \in Request, Load(q) PROVE Moved(q)
<1> SUFFICES ASSUME NEW r, r = req[q], NEW s, s = Wanted(r.ask) PROVE Moved(q)
  OBVIOUS
<1>1. /\ r \in Reqs /\ ReqOK(r, row) /\ r.ask \in Asked /\ r.faulty \in BOOLEAN /\ r.at = "load" /\ lock = q
      /\ row' = row
  BY MineOK DEF Load, Holds, Keep, Release
<1>2. r.ask.kind = "session" /\ r.parts = {} /\ r.listed = {}
  BY <1>1 DEF ReqOK, KindOK
<1>3. CASE Loads(s) /\ Becomes(q, [r EXCEPT !.at = "episodes", !.cur = Read(s)]) /\ Keep
  <2> DEFINE n == [r EXCEPT !.at = "episodes", !.cur = Read(s)]
  <2>1. /\ Read(s) \in Part /\ Read(s).sid = s /\ Read(s).report = row[s].report /\ row[s] # NoRow
    BY <1>3 DEF Read, Part, Loads, Stored, WebOK, RowTable
  <2>2. /\ n \in Reqs /\ n.at = "episodes" /\ n.ask = r.ask /\ n.cur = Read(s)
        /\ n.parts = {} /\ n.listed = {}
    BY <1>1, <1>2, <2>1 DEF Reqs
  <2> HIDE DEF n
  <2>3. ReqOK(n, row)
    BY <1>2, <2>1, <2>2 DEF ReqOK, KindOK, TallyOK, TruthOK, CurOK
  <2>4. Told(r, n)
    BY <1>1, <2>2 DEF Told, Now
  <2>5. Advances(q, n)
    BY <1>1, <1>3, <2>3, <2>4 DEF Advances, n, Keep
  <2> QED
    BY <1>1, <1>3, <2>5 DEF Moved, Passes, Keep
<1>4. CASE ~Stored(s) /\ Answered(q, r, 404, "") /\ Release
  <2>1. PICK why \in Whys : why = ""
    BY DEF Whys
  <2>2. \E n : Advances(q, n)
    <3>1. Answered(q, r, 404, why)
      BY <1>4, <2>1
    <3>2. /\ r.ask \in Asked /\ r.faulty \in BOOLEAN /\ req[q].at # "each"
          /\ ~Stored(Wanted(req[q].ask))
      BY <1>1, <1>4
    <3> QED
      BY <3>1, <3>2, AnswerAdvances
  <2> QED
    BY <1>1, <1>4, <2>2 DEF Moved, Passes, Release
<1>5. CASE /\ Stored(s) /\ Answered(q, [r EXCEPT !.faulty = Loads(s)], 500, "load_session") /\ Release
  <2> DEFINE w == [r EXCEPT !.faulty = Loads(s)]
  <2>1. Loads(s) \in BOOLEAN
    BY DEF Loads, Stored
  <2>2. w.ask \in Asked /\ w.faulty = Loads(s)
    BY <1>1, <2>1 DEF Reqs
  <2>3. "load_session" \in Whys
    BY DEF Whys
  <2> HIDE DEF w
  <2>4. Answered(q, w, 500, "load_session")
    BY <1>5 DEF w
  <2>5. \E n : Advances(q, n)
    BY <1>1, <1>2, <1>5, <2>1, <2>2, <2>3, <2>4, AnswerAdvances
  <2> QED
    BY <1>1, <1>5, <2>5 DEF Moved, Passes, Release
<1> QED
  BY <1>3, <1>4, <1>5 DEF Load

(* Sets of sessions and of parts are finite; one more is one more.         *)
LEMMA CountOK ==
  ASSUME NEW r \in Reqs, TallyOK(r), Holds(r), r.ask.kind # "session"
  PROVE  /\ Cardinality(r.parts) \in Nat /\ Cardinality(r.listed) \in Nat /\ Cardinality(r.refs) \in Nat
         /\ IsFiniteSet(r.parts) /\ IsFiniteSet(r.refs) /\ IsFiniteSet(r.listed)
         /\ Cardinality({}) = 0 /\ \A s : Cardinality({s}) = 1
         /\ \A s \in r.refs : Cardinality(r.refs) = Cardinality(r.refs \ {s}) + 1
                             /\ Cardinality(r.refs \ {s}) \in Nat
<1>1. r.listed \subseteq Session /\ r.refs \subseteq Session
  BY DEF Reqs
<1>2. IsFiniteSet(r.refs) /\ IsFiniteSet(r.listed)
  BY <1>1, FS_Subset, DashboardAssumption
<1>3. IsFiniteSet(r.parts)
  BY DEF TallyOK
<1>4. /\ Cardinality(r.parts) \in Nat /\ Cardinality(r.listed) \in Nat /\ Cardinality(r.refs) \in Nat
  BY <1>2, <1>3, FS_CardinalityType
<1>5. ASSUME NEW s \in r.refs
      PROVE  Cardinality(r.refs) = Cardinality(r.refs \ {s}) + 1 /\ Cardinality(r.refs \ {s}) \in Nat
  <2>1. IsFiniteSet(r.refs \ {s}) /\ Cardinality(r.refs \ {s}) = Cardinality(r.refs) - 1
    BY <1>2, <1>5, FS_RemoveElement
  <2>2. Cardinality(r.refs \ {s}) \in Nat
    BY <2>1, FS_CardinalityType
  <2> QED
    BY <1>4, <2>1, <2>2
<1> QED
  BY <1>2, <1>3, <1>4, <1>5, FS_EmptySet, FS_Singleton

LEMMA NextRowOK == ASSUME WebOK, NEW q \in Request, NextRow(q) PROVE Moved(q)
<1> SUFFICES ASSUME NEW r, r = req[q] PROVE Moved(q)
  OBVIOUS
<1>1. /\ r \in Reqs /\ KindOK(r) /\ TallyOK(r) /\ TruthOK(r, row) /\ r.faulty \in BOOLEAN
      /\ r.at = "each" /\ lock = q /\ Keep
  BY MineOK DEF NextRow, Holds, ReqOK
<1>2. Holds(r) /\ r.ask.kind # "session" /\ InHand(r) = {}
  BY <1>1 DEF KindOK, Holds, InHand
<1>3. PICK s \in r.refs :
        LET b == [r EXCEPT !.refs = @ \ {s}] IN
        \/ /\ Loads(s)
           /\ Becomes(q, IF b.ask.kind = "aggregate" THEN [b EXCEPT !.at = "episodes", !.cur = Read(s)]
                         ELSE [b EXCEPT !.parts = @ \cup {Read(s)}])
        \/ /\ ~Loads(s) \/ Faults
           /\ Becomes(q, [b EXCEPT !.faulty = @ \/ Loads(s),
                                   !.failures = IF b.ask.kind = "sessions" THEN @ ELSE @ + 1])
  BY DEF NextRow
<1> DEFINE b == [r EXCEPT !.refs = @ \ {s}]
<1>4. /\ b \in Reqs /\ b.refs = r.refs \ {s} /\ b.ask = r.ask /\ b.at = "each" /\ b.listed = r.listed
      /\ b.parts = r.parts /\ b.failures = r.failures /\ b.moved = r.moved /\ b.faulty = r.faulty
  BY <1>1 DEF Reqs
<1>5. /\ IsFiniteSet(r.parts) /\ r.refs \subseteq r.listed /\ Taken(r) \subseteq r.listed \ r.refs
      /\ r.ask.kind # "sessions" =>
           Cardinality(r.parts) + r.failures + Cardinality(r.refs) + Cardinality({}) = Cardinality(r.listed)
  BY <1>1, <1>2 DEF TallyOK
<1>6. /\ \A t \in r.listed : row[t] # NoRow \/ t \in r.moved
      /\ ~r.faulty => \A t \in Left(r) : Unread(row, t) \/ t \in r.moved
      /\ r.ask.kind = "aggregate" =>
           \A p \in r.parts : p.sid \in r.moved \/ row[p.sid] = [report |-> p.report, episodes |-> p.episodes]
  BY <1>1, <1>2 DEF TruthOK
<1>7. s \in Session /\ s \in r.listed /\ s \notin Taken(r) /\ r.failures \in Nat
  BY <1>1, <1>5 DEF Reqs
<1>8. /\ Cardinality(r.parts) \in Nat /\ Cardinality(r.listed) \in Nat /\ Cardinality(r.refs) \in Nat
      /\ Cardinality({}) = 0 /\ Cardinality({s}) = 1
      /\ Cardinality(r.refs) = Cardinality(r.refs \ {s}) + 1 /\ Cardinality(r.refs \ {s}) \in Nat
  BY <1>1, <1>2, CountOK
<1>9. Loads(s) => /\ Read(s) \in Part /\ Read(s).sid = s /\ Read(s).report = row[s].report /\ row[s] # NoRow
                  /\ Read(s) \notin r.parts
  BY <1>7 DEF Read, Part, Loads, Stored, WebOK, RowTable, Taken
<1> HIDE DEF b
<1>10. ASSUME NEW n, n \in Reqs, KindOK(n), TallyOK(n), TruthOK(n, row), n.at \in {"each", "episodes"},
              Becomes(q, n)
       PROVE  Moved(q)
  <2>1. Told(r, n)
    BY <1>10 DEF Told, Now
  <2>2. Advances(q, n)
    BY <1>1, <1>10, <2>1 DEF Advances, ReqOK, Keep
  <2> QED
    BY <1>1, <2>2 DEF Moved, Passes, Keep
<1>11. CASE Loads(s) /\ r.ask.kind = "aggregate" /\ Becomes(q, [b EXCEPT !.at = "episodes", !.cur = Read(s)])
  <2> DEFINE n == [b EXCEPT !.at = "episodes", !.cur = Read(s)]
  <2>1. /\ n \in Reqs /\ n.refs = r.refs \ {s} /\ n.ask = r.ask /\ n.at = "episodes" /\ n.listed = r.listed
        /\ n.parts = r.parts /\ n.failures = r.failures /\ n.moved = r.moved /\ n.faulty = r.faulty
        /\ n.cur = Read(s)
    BY <1>4, <1>9, <1>11 DEF Reqs
  <2> HIDE DEF n
  <2>2. Taken(n) = Taken(r) /\ InHand(n) = {s}
    BY <1>9, <1>11, <2>1 DEF Taken, InHand
  <2>3. Left(n) = Left(r)
    BY <1>2, <1>7, <2>1, <2>2 DEF Left
  <2>4. KindOK(n)
    BY <1>9, <1>11, <2>1 DEF KindOK
  <2>5. TallyOK(n)
    BY <1>5, <1>7, <1>8, <2>1, <2>2 DEF TallyOK
  <2>6. TruthOK(n, row)
    BY <1>6, <1>9, <1>11, <2>1, <2>3 DEF TruthOK, CurOK
  <2> QED
    BY <1>10, <1>11, <2>1, <2>4, <2>5, <2>6 DEF n
<1>12. CASE Loads(s) /\ r.ask.kind # "aggregate" /\ Becomes(q, [b EXCEPT !.parts = @ \cup {Read(s)}])
  <2> DEFINE n == [b EXCEPT !.parts = @ \cup {Read(s)}]
  <2>1. /\ n \in Reqs /\ n.refs = r.refs \ {s} /\ n.ask = r.ask /\ n.at = "each" /\ n.listed = r.listed
        /\ n.parts = r.parts \cup {Read(s)} /\ n.failures = r.failures /\ n.moved = r.moved
        /\ n.faulty = r.faulty
    BY <1>4, <1>9, <1>12 DEF Reqs
  <2> HIDE DEF n
  <2>2. Taken(n) = Taken(r) \cup {s} /\ InHand(n) = {}
    BY <1>9, <1>12, <2>1 DEF Taken, InHand
  <2>3. Left(n) = Left(r)
    BY <1>2, <1>7, <2>1, <2>2 DEF Left
  <2>4. KindOK(n)
    BY <1>2, <2>1 DEF KindOK
  <2>5. Cardinality(n.parts) = Cardinality(r.parts) + 1 /\ IsFiniteSet(n.parts)
    <3>1. Read(s) \notin r.parts
      BY <1>9, <1>12
    <3>2. IsFiniteSet(r.parts \cup {Read(s)}) /\ Cardinality(r.parts \cup {Read(s)}) = Cardinality(r.parts) + 1
      BY <1>5, <3>1, FS_AddElement
    <3> QED
      BY <2>1, <3>2
  <2>6. TallyOK(n)
    BY <1>5, <1>7, <1>8, <2>1, <2>2, <2>5 DEF TallyOK
  <2>7. TruthOK(n, row)
    BY <1>6, <1>12, <2>1, <2>3 DEF TruthOK
  <2> QED
    BY <1>10, <1>12, <2>1, <2>4, <2>6, <2>7 DEF n
<1>13. CASE Becomes(q, [b EXCEPT !.faulty = @ \/ Loads(s),
                                 !.failures = IF r.ask.kind = "sessions" THEN @ ELSE @ + 1])
  <2> DEFINE faulty == b.faulty \/ Loads(s)
             failures == IF r.ask.kind = "sessions" THEN b.failures ELSE b.failures + 1
             n == [b EXCEPT !.faulty = faulty, !.failures = failures]
  <2>1. /\ faulty \in BOOLEAN /\ (~faulty => ~r.faulty /\ ~Loads(s))
        /\ failures \in Nat /\ failures = IF r.ask.kind = "sessions" THEN r.failures ELSE r.failures + 1
    BY <1>4, <1>7
  <2> HIDE DEF faulty, failures
  <2>2. /\ n \in Reqs /\ n.refs = r.refs \ {s} /\ n.ask = r.ask /\ n.at = "each" /\ n.listed = r.listed
        /\ n.parts = r.parts /\ n.moved = r.moved
        /\ n.failures = IF r.ask.kind = "sessions" THEN r.failures ELSE r.failures + 1
        /\ ~n.faulty => ~r.faulty /\ ~Loads(s)
    BY <1>4, <2>1 DEF Reqs
  <2> HIDE DEF n
  <2>3. Taken(n) = Taken(r) /\ InHand(n) = {}
    BY <2>2 DEF Taken, InHand
  <2>4. Left(n) \subseteq Left(r) \cup {s}
    BY <1>2, <2>2, <2>3 DEF Left
  <2>5. KindOK(n)
    BY <1>2, <2>2 DEF KindOK
  <2>6. TallyOK(n)
    BY <1>5, <1>7, <1>8, <2>2, <2>3 DEF TallyOK
  <2>7. ~Loads(s) => Unread(row, s) \/ s \in r.moved
    BY <1>6, <1>7 DEF Loads, Stored, Unread
  <2>8. TruthOK(n, row)
    BY <1>6, <2>2, <2>4, <2>7 DEF TruthOK
  <2> QED
    BY <1>10, <1>13, <2>2, <2>5, <2>6, <2>8 DEF n, faulty, failures
<1> QED
  BY <1>3, <1>4, <1>11, <1>12, <1>13 DEF b

(* A row read in two statements: as it was, or it has moved.               *)
LEMMA EpisodesOK == ASSUME WebOK, NEW q \in Request, Episodes(q) PROVE Moved(q)
<1> SUFFICES ASSUME NEW r, r = req[q], NEW s, s = r.cur.sid PROVE Moved(q)
  OBVIOUS
<1>1. /\ r \in Reqs /\ KindOK(r) /\ TallyOK(r) /\ TruthOK(r, row) /\ r.faulty \in BOOLEAN /\ r.ask \in Asked
      /\ r.at = "episodes" /\ lock = q /\ row' = row
  BY MineOK DEF Episodes, Holds, ReqOK, Keep, Release
<1>2. /\ Holds(r) /\ r.ask.kind \in {"session", "aggregate"} /\ r.cur \in Part /\ InHand(r) = {s}
      /\ r.ask.kind = "session" => s = Wanted(r.ask) /\ r.parts = {}
  BY <1>1 DEF KindOK, Holds, InHand
<1>3. /\ \A t \in r.listed : row[t] # NoRow \/ t \in r.moved
      /\ r.ask.kind # "session" /\ ~r.faulty => \A t \in Left(r) : Unread(row, t) \/ t \in r.moved
      /\ r.ask.kind = "aggregate" =>
           \A p \in r.parts : p.sid \in r.moved \/ row[p.sid] = [report |-> p.report, episodes |-> p.episodes]
      /\ s \in r.moved \/ (row[s] # NoRow /\ row[s].report = r.cur.report)
  <2>1. CurOK(r.cur, r.moved, row)
    BY <1>1, <1>2 DEF TruthOK
  <2>2. s \in r.moved \/ (row[s] # NoRow /\ row[s].report = r.cur.report)
    BY <2>1 DEF CurOK
  <2> QED
    BY <1>1, <1>2, <2>2 DEF TruthOK
<1> DEFINE part == [r.cur EXCEPT !.episodes = row[s].episodes]
<1>4. ASSUME row[s] # NoRow
      PROVE  /\ part \in Part /\ part.sid = s
             /\ s \in r.moved \/ row[s] = [report |-> part.report, episodes |-> part.episodes]
  <2>1. s \in Session /\ row[s] \in [report : Nat, episodes : Nat]
    BY <1>2, <1>4 DEF Part, WebOK, RowTable
  <2>2. /\ part \in Part /\ part.sid = s /\ part.report = r.cur.report
        /\ part.episodes = row[s].episodes
    BY <1>2, <2>1 DEF Part
  <2>3. row[s] = [report |-> row[s].report, episodes |-> row[s].episodes]
    BY <2>1
  <2> HIDE DEF part
  <2> QED
    BY <1>3, <2>2, <2>3
<1>5. s \in Session
  BY <1>2 DEF Part
<1>6. CASE /\ row[s] # NoRow /\ r.ask.kind = "session" /\ Release
           /\ Becomes(q, [r EXCEPT !.at = "render", !.parts = @ \cup {part}])
  <2> DEFINE n == [r EXCEPT !.at = "render", !.parts = @ \cup {part}]
  <2>1. part \in Part /\ part.sid = s /\ (s \in r.moved \/ row[s] = [report |-> part.report, episodes |-> part.episodes])
    BY <1>4, <1>6
  <2> HIDE DEF part
  <2>2. n \in Reqs /\ n.at = "render" /\ n.parts = {part} /\ n.moved = r.moved
    BY <1>1, <1>2, <1>6, <2>1 DEF Reqs
  <2> HIDE DEF n
  <2>3. ReqOK(n, row) /\ ~Holds(n)
    BY <2>2 DEF ReqOK, KindOK, TallyOK, TruthOK, Holds
  <2>4. Told(r, n)
    BY <1>1, <2>1, <2>2 DEF Told, Now
  <2>5. Advances(q, n)
    BY <1>6, <2>3, <2>4 DEF Advances, n
  <2> QED
    BY <1>1, <1>6, <2>5 DEF Moved, Passes, Release
<1>7. CASE /\ row[s] # NoRow /\ r.ask.kind = "aggregate" /\ Keep
           /\ Becomes(q, [r EXCEPT !.at = "each", !.parts = @ \cup {part}])
  <2> DEFINE n == [r EXCEPT !.at = "each", !.parts = @ \cup {part}]
  <2>1. part \in Part /\ part.sid = s /\ (s \in r.moved \/ row[s] = [report |-> part.report, episodes |-> part.episodes])
    BY <1>4, <1>7
  <2> HIDE DEF part
  <2>2. /\ n \in Reqs /\ n.at = "each" /\ n.parts = r.parts \cup {part} /\ n.moved = r.moved /\ n.ask = r.ask
        /\ n.refs = r.refs /\ n.listed = r.listed /\ n.failures = r.failures /\ n.faulty = r.faulty
    BY <1>1, <2>1 DEF Reqs
  <2> HIDE DEF n
  <2>3. /\ IsFiniteSet(r.parts) /\ r.refs \subseteq r.listed /\ Taken(r) \cup {s} \subseteq r.listed \ r.refs
        /\ s \notin Taken(r)
        /\ Cardinality(r.parts) + r.failures + Cardinality(r.refs) + Cardinality({s}) = Cardinality(r.listed)
    BY <1>1, <1>2, <1>7 DEF TallyOK
  <2>4. Taken(n) = Taken(r) \cup {s} /\ InHand(n) = {}
    BY <2>1, <2>2 DEF Taken, InHand
  <2>5. Left(n) = Left(r)
    BY <1>2, <2>2, <2>4 DEF Left
  <2>6. part \notin r.parts
    BY <2>1, <2>3 DEF Taken
  <2>7. IsFiniteSet(n.parts) /\ Cardinality(n.parts) = Cardinality(r.parts) + 1
    <3>1. \A p : p \notin r.parts => IsFiniteSet(r.parts \cup {p})
                                 /\ Cardinality(r.parts \cup {p}) = Cardinality(r.parts) + 1
      BY <2>3, FS_AddElement
    <3> QED
      BY <2>2, <2>6, <3>1
  <2>8. /\ Cardinality(r.parts) \in Nat /\ Cardinality(r.listed) \in Nat /\ Cardinality(r.refs) \in Nat
        /\ Cardinality({}) = 0 /\ Cardinality({s}) = 1 /\ r.failures \in Nat
    BY <1>1, <1>2, <1>7, CountOK DEF Reqs
  <2>9. KindOK(n)
    BY <1>7, <2>2 DEF KindOK
  <2>10. TallyOK(n)
    BY <2>2, <2>3, <2>4, <2>7, <2>8 DEF TallyOK
  <2>11. TruthOK(n, row)
    BY <1>3, <1>7, <2>1, <2>2, <2>5 DEF TruthOK
  <2>12. Told(r, n)
    BY <1>1, <2>2 DEF Told, Now
  <2>13. Advances(q, n)
    BY <1>1, <1>7, <2>2, <2>9, <2>10, <2>11, <2>12 DEF Advances, ReqOK, n, Keep
  <2> QED
    BY <1>1, <1>7, <2>13 DEF Moved, Passes, Keep
<1> DEFINE faulty == r.faulty \/ row[s] # NoRow
           worse == [r EXCEPT !.faulty = faulty]
<1>8. /\ worse \in Reqs /\ worse.at = r.at /\ worse.parts = r.parts /\ worse.moved = r.moved /\ worse.ask = r.ask
      /\ worse.refs = r.refs /\ worse.listed = r.listed /\ worse.failures = r.failures /\ worse.faulty = faulty
  <2>1. faulty \in BOOLEAN
    BY <1>1
  <2> HIDE DEF faulty
  <2> QED
    BY <1>1, <2>1 DEF Reqs
<1>9. ~worse.faulty => ~r.faulty /\ s \in r.moved
  BY <1>3, <1>8
<1>10. CASE r.ask.kind = "session" /\ Answered(q, worse, 500, "load_episodes") /\ Release
  <2>1. worse.ask \in Asked /\ worse.faulty \in BOOLEAN
    BY <1>1, <1>8
  <2>2. "load_episodes" \in Whys
    BY DEF Whys
  <2> HIDE DEF worse
  <2>3. \E n : Advances(q, n)
    <3>1. req[q].at # "each" /\ req[q].ask.kind = "session" /\ (~worse.faulty => Wanted(req[q].ask) \in req[q].moved)
      BY <1>1, <1>2, <1>9, <1>10
    <3>2. Answered(q, worse, 500, "load_episodes")
      BY <1>10
    <3> QED
      BY <2>1, <2>2, <3>1, <3>2, AnswerAdvances
  <2> QED
    BY <1>1, <1>10, <2>3 DEF Moved, Passes, Release
<1>11. CASE /\ r.ask.kind = "aggregate" /\ Keep
            /\ Becomes(q, [worse EXCEPT !.at = "each", !.failures = @ + 1])
  <2> DEFINE failures == worse.failures + 1
             n == [worse EXCEPT !.at = "each", !.failures = failures]
  <2> HIDE DEF worse
  <2>1. r.failures \in Nat /\ failures \in Nat /\ failures = r.failures + 1
    BY <1>1, <1>8 DEF Reqs
  <2> HIDE DEF failures
  <2>2. /\ n \in Reqs /\ n.at = "each" /\ n.parts = r.parts /\ n.moved = r.moved /\ n.ask = r.ask
        /\ n.refs = r.refs /\ n.listed = r.listed /\ n.failures = r.failures + 1 /\ n.faulty = worse.faulty
    BY <1>8, <2>1 DEF Reqs
  <2> HIDE DEF n
  <2>3. Taken(n) = Taken(r) /\ InHand(n) = {}
    BY <2>2 DEF Taken, InHand
  <2>4. Left(n) \subseteq Left(r) \cup {s}
    BY <1>2, <2>2, <2>3 DEF Left
  <2>5. KindOK(n)
    BY <1>11, <2>2 DEF KindOK
  <2>6. /\ Cardinality(r.parts) \in Nat /\ Cardinality(r.listed) \in Nat /\ Cardinality(r.refs) \in Nat
        /\ Cardinality({}) = 0 /\ Cardinality({s}) = 1
    BY <1>1, <1>2, <1>11, CountOK
  <2>7. TallyOK(n)
    BY <1>1, <1>2, <1>11, <2>1, <2>2, <2>3, <2>6 DEF TallyOK
  <2>8. TruthOK(n, row)
    BY <1>3, <1>9, <1>11, <2>2, <2>4 DEF TruthOK
  <2>9. Told(r, n)
    BY <1>1, <2>2 DEF Told, Now
  <2>10. Advances(q, n)
    BY <1>1, <1>11, <2>2, <2>5, <2>7, <2>8, <2>9 DEF Advances, ReqOK, n, failures, Keep
  <2> QED
    BY <1>1, <1>11, <2>10 DEF Moved, Passes, Keep
<1> QED
  BY <1>2, <1>6, <1>7, <1>10, <1>11 DEF Episodes

(* All refs are done: every session listed is on the page or counted.      *)
LEMMA ComputeOK == ASSUME WebOK, NEW q \in Request, Compute(q) PROVE Moved(q)
<1> SUFFICES ASSUME NEW r, r = req[q] PROVE Moved(q)
  OBVIOUS
<1>1. /\ r \in Reqs /\ KindOK(r) /\ TallyOK(r) /\ TruthOK(r, row) /\ r.faulty \in BOOLEAN /\ r.ask \in Asked
      /\ r.at = "each" /\ r.refs = {} /\ lock = q /\ Release
  BY MineOK DEF Compute, Holds, ReqOK
<1>2. Holds(r) /\ r.ask.kind # "session" /\ InHand(r) = {}
  BY <1>1 DEF KindOK, Holds, InHand
<1>3. r.ask.kind # "sessions" => Cardinality(r.parts) + r.failures = Cardinality(r.listed)
  <2>1. /\ Cardinality(r.parts) \in Nat /\ Cardinality(r.listed) \in Nat /\ Cardinality({}) = 0
        /\ r.failures \in Nat
    BY <1>1, <1>2, CountOK DEF Reqs
  <2>2. r.ask.kind # "sessions" =>
          Cardinality(r.parts) + r.failures + Cardinality({}) + Cardinality({}) = Cardinality(r.listed)
    BY <1>1, <1>2 DEF TallyOK
  <2> QED
    BY <2>1, <2>2
<1>4. CASE r.parts = {} /\ r.failures > 0 /\ Answered(q, r, 500, "all failed")
  <2>0. PICK why \in Whys : why = "all failed"
    BY DEF Whys
  <2> DEFINE n == Answer(r, 500, why)
  <2>1. r.parts = {} /\ r.failures > 0 /\ Answered(q, r, 500, why)
    BY <1>4, <2>0, Zenon
  <2>2. Becomes(q, n)
    BY <2>1 DEF Answered, Answer
  <2>3. Reply(n, r.ask, r.faulty, 500)
    <3>1. r.ask \in Asked /\ r.faulty \in BOOLEAN
      BY <1>1
    <3> QED
      BY <3>1, AnsweredOK
  <2> HIDE DEF n
  <2>4. n.at = "answered" /\ n.faulty = r.faulty /\ n.answer.status = 500 /\ ~Holds(n) /\ ReqOK(n, row)
    BY <2>3 DEF Reply
  <2>5. r.ask.kind # "sessions" => r.listed # {}
    <3>1. Cardinality(r.parts) = 0 /\ r.failures \in Nat
      BY <1>1, <2>1, FS_EmptySet DEF Reqs
    <3>2. r.listed = {} => Cardinality(r.listed) = 0
      BY FS_EmptySet
    <3>3. r.failures # 0
      BY <2>1, <3>1
    <3>4. 0 + r.failures = r.failures
      BY <3>1
    <3> QED
      BY <1>3, <3>1, <3>2, <3>3, <3>4
  <2>6. ~r.faulty => \A s \in r.listed : (Stored(s) /\ ~Loads(s)) \/ s \in r.moved
    <3>1. Left(r) = r.listed
      BY <1>1, <1>2, <2>1 DEF Left, Taken
    <3>2. ~r.faulty => \A s \in r.listed : Unread(row, s) \/ s \in r.moved
      BY <1>1, <1>2, <3>1 DEF TruthOK
    <3>3. r.listed \subseteq Session
      BY <1>1 DEF Reqs
    <3> QED
      BY <3>2, <3>3 DEF Unread, Stored, Loads
  <2>7. Told(r, n)
    BY <1>2, <1>3, <2>1, <2>4, <2>5, <2>6 DEF Told, Now
  <2>8. Advances(q, n)
    BY <2>2, <2>4, <2>7 DEF Advances
  <2> QED
    BY <1>1, <2>8 DEF Moved, Passes, Release
<1>5. CASE Becomes(q, [r EXCEPT !.at = "render"])
  <2> DEFINE n == [r EXCEPT !.at = "render"]
  <2>1. n \in Reqs /\ n.at = "render" /\ n.parts = r.parts /\ n.moved = r.moved
    BY <1>1 DEF Reqs
  <2> HIDE DEF n
  <2>2. ReqOK(n, row) /\ ~Holds(n)
    BY <2>1 DEF ReqOK, KindOK, TallyOK, TruthOK, Holds
  <2>3. r.ask.kind = "aggregate" =>
          \A p \in r.parts : p.sid \in r.moved \/ row[p.sid] = [report |-> p.report, episodes |-> p.episodes]
    BY <1>1, <1>2 DEF TruthOK
  <2>4. Told(r, n)
    BY <1>1, <1>2, <1>3, <2>1, <2>3 DEF Told, Now
  <2>5. Advances(q, n)
    BY <1>5, <2>2, <2>4 DEF Advances, n
  <2> QED
    BY <1>1, <2>5 DEF Moved, Passes, Release
<1> QED
  BY <1>4, <1>5 DEF Compute

LEMMA RenderOK == ASSUME WebOK, NEW q \in Request, Render(q) PROVE Moved(q)
<1> SUFFICES ASSUME NEW r, r = req[q] PROVE Moved(q)
  OBVIOUS
<1>1. r \in Reqs /\ r.ask \in Asked /\ r.faulty \in BOOLEAN /\ r.at = "render" /\ Keep
  BY MineOK DEF Render
<1>2. CASE r.ask.kind = "server" /\ Answered(q, r, 404, "")
  <2>1. PICK why \in Whys : why = ""
    BY DEF Whys
  <2>2. Answered(q, r, 404, why)
    BY <1>2, <2>1
  <2>3. \E n : Advances(q, n)
    <3>1. req[q].at # "each" /\ req[q].ask.kind # "session"
      BY <1>1, <1>2
    <3> QED
      BY <1>1, <2>2, <3>1, AnswerAdvances
  <2> QED
    BY <1>1, <2>3 DEF Moved, Passes, Keep
<1>3. CASE Answered(q, r, 200, IF r.ask.chunk THEN "no-store" ELSE "")
  <2>1. PICK why \in Whys : why = IF r.ask.chunk THEN "no-store" ELSE ""
    BY DEF Whys
  <2>2. Answered(q, r, 200, why)
    BY <1>3, <2>1
  <2>3. \E n : Advances(q, n)
    <3>1. req[q].at # "each"
      BY <1>1
    <3> QED
      BY <1>1, <2>2, <3>1, AnswerAdvances
  <2> QED
    BY <1>1, <2>3 DEF Moved, Passes, Keep
<1>4. CASE Answered(q, [r EXCEPT !.faulty = TRUE], 500, "render")
  <2> DEFINE w == [r EXCEPT !.faulty = TRUE]
  <2>1. w.ask \in Asked /\ w.faulty = TRUE /\ w.faulty \in BOOLEAN
    BY <1>1 DEF Reqs
  <2>2. "render" \in Whys
    BY DEF Whys
  <2> HIDE DEF w
  <2>3. Answered(q, w, 500, "render")
    BY <1>4 DEF w
  <2>4. \E n : Advances(q, n)
    BY <1>1, <2>1, <2>2, <2>3, AnswerAdvances
  <2> QED
    BY <1>1, <2>4 DEF Moved, Passes, Keep
<1> QED
  BY <1>2, <1>3, <1>4 DEF Render

LEMMA PanicOK == ASSUME WebOK, NEW q \in Request, HandlerPanics(q) PROVE Moved(q)
<1> SUFFICES ASSUME NEW r, r = req[q] PROVE Moved(q)
  OBVIOUS
<1> DEFINE n == [r EXCEPT !.at = "dropped", !.faulty = TRUE]
<1>1. r \in Reqs /\ Becomes(q, n) /\ row' = row /\ Passes(q)
  BY MineOK DEF HandlerPanics, Passes
<1>2. n \in Reqs /\ n.at = "dropped"
  BY <1>1 DEF Reqs
<1> HIDE DEF n
<1>3. ReqOK(n, row) /\ ~Holds(n) /\ Told(r, n)
  BY <1>2 DEF ReqOK, KindOK, TallyOK, TruthOK, Holds, Told, Now
<1> QED
  BY <1>1, <1>3 DEF Moved, Advances

-----------------------------------------------------------------------------
(* Rows change under a request's hands, and it is noted which.             *)
LEMMA MovesOK ==
  ASSUME WebOK, NEW sids \in SUBSET Session, Moves(sids), Others, row' \in RowTable,
         \A s \in Session \ sids : row'[s] = row[s]
  PROVE  WebOK' /\ \A q \in Request : Told(req[q], req'[q])
<1>1. lock' = lock
  BY DEF Others
<1>2. ASSUME lock = NoRequest
      PROVE  WebOK' /\ \A q \in Request : Told(req[q], req'[q])
  <2>1. req' = req /\ \A q \in Request : ~Holds(req[q])
    BY <1>2, DashboardAssumption DEF Moves, WebOK
  <2>2. \A q \in Request : ReqOK(req[q], row') /\ Told(req[q], req'[q])
    BY <2>1 DEF WebOK, ReqOK, TruthOK, Told, Now
  <2> QED
    BY <1>1, <2>1, <2>2 DEF WebOK
<1>3. ASSUME lock # NoRequest
      PROVE  WebOK' /\ \A q \in Request : Told(req[q], req'[q])
  <2> DEFINE r == req[lock]
             n == [r EXCEPT !.moved = @ \cup sids]
  <2>1. lock \in Request /\ r \in Reqs /\ ReqOK(r, row) /\ req' = [req EXCEPT ![lock].moved = @ \cup sids]
    BY <1>3 DEF Moves, WebOK
  <2>2. /\ req' \in [Request -> Reqs] /\ req'[lock] = n
        /\ \A q \in Request : q # lock => req'[q] = req[q]
    BY <2>1 DEF WebOK, Reqs
  <2>3. /\ n \in Reqs /\ n.at = r.at /\ n.ask = r.ask /\ n.refs = r.refs /\ n.listed = r.listed /\ n.cur = r.cur
        /\ n.parts = r.parts /\ n.failures = r.failures /\ n.faulty = r.faulty
        /\ n.moved = r.moved \cup sids
    BY <2>1 DEF Reqs
  <2> HIDE DEF n, r
  <2>4. KindOK(n) /\ TallyOK(n)
    BY <2>1, <2>3 DEF ReqOK, KindOK, TallyOK, Taken, InHand, Holds
  <2>5. TruthOK(n, row')
    <3>1. r.listed \subseteq Session /\ r.parts \subseteq Part /\ r.cur \in {None} \cup Part
      BY <2>1 DEF Reqs
    <3>2. Left(n) = Left(r) /\ Left(r) \subseteq Session
      BY <2>3, <3>1 DEF Left, Taken, InHand
    <3>3. ASSUME Holds(n) PROVE \A s \in n.listed : row'[s] # NoRow \/ s \in n.moved
      BY <2>1, <2>3, <3>1, <3>3 DEF ReqOK, TruthOK, Holds
    <3>4. ASSUME Holds(n), n.ask.kind # "session", ~n.faulty
          PROVE  \A s \in Left(n) : Unread(row', s) \/ s \in n.moved
      BY <2>1, <2>3, <3>2, <3>4 DEF ReqOK, TruthOK, Holds, Unread
    <3>5. ASSUME Holds(n), n.ask.kind = "aggregate", NEW p \in n.parts
          PROVE  p.sid \in n.moved \/ row'[p.sid] = [report |-> p.report, episodes |-> p.episodes]
      <4>1. p.sid \in r.moved \/ row[p.sid] = [report |-> p.report, episodes |-> p.episodes]
        BY <2>1, <2>3, <3>5 DEF ReqOK, TruthOK, Holds
      <4>2. p.sid \in Session
        BY <2>3, <3>1 DEF Part
      <4> QED
        BY <2>3, <4>1, <4>2
    <3>6. ASSUME Holds(n), n.at = "episodes" PROVE CurOK(n.cur, n.moved, row')
      <4>1. CurOK(r.cur, r.moved, row) /\ r.cur \in Part
        BY <2>1, <2>3, <3>6 DEF ReqOK, TruthOK, KindOK, Holds
      <4> QED
        BY <2>3, <4>1 DEF CurOK, Part
    <3> QED
      BY <3>3, <3>4, <3>5, <3>6 DEF TruthOK
  <2>6. \A q \in Request : q # lock => ReqOK(req[q], row')
    BY DEF WebOK, ReqOK, TruthOK
  <2>7. \A q \in Request : Told(req[q], req'[q])
    <3>1. Told(r, n)
      BY <2>3 DEF Told, Now
    <3>2. \A x : Told(x, x)
      BY DEF Told, Now
    <3> QED
      BY <2>2, <3>1, <3>2 DEF r
  <2>8. \A q \in Request : ReqOK(req'[q], row')
    BY <2>2, <2>3, <2>4, <2>5, <2>6 DEF ReqOK
  <2>9. \A q \in Request : Holds(req'[q]) => lock' = q
    BY <1>1, <2>2 DEF WebOK
  <2> QED
    BY <1>1, <2>1, <2>2, <2>7, <2>8, <2>9 DEF WebOK
<1> QED
  BY <1>2, <1>3

LEMMA WriterOK ==
  ASSUME WebOK, Writers
  PROVE  WebOK' /\ \A q \in Request : Told(req[q], req'[q])
<1>1. row \in RowTable
  BY DEF WebOK
<1>2. ASSUME NEW s \in Rewritten, CommitReport(s)
      PROVE  WebOK' /\ \A q \in Request : Told(req[q], req'[q])
  <2>1. s \in Session
    BY DashboardAssumption
  <2> DEFINE v == IF row[s] = NoRow THEN 1 ELSE row[s].report + 1
  <2>2. v \in Nat
    BY <1>1, <2>1 DEF RowTable
  <2>3. row' = [row EXCEPT ![s] = [report |-> v, episodes |-> 0]] /\ Moves({s}) /\ Others
    BY <1>2 DEF CommitReport
  <2> HIDE DEF v
  <2>4. row' \in RowTable /\ \A t \in Session \ {s} : row'[t] = row[t]
    BY <1>1, <2>1, <2>2, <2>3 DEF RowTable
  <2> QED
    BY <2>1, <2>3, <2>4, MovesOK
<1>3. ASSUME NEW s \in Rewritten, CommitEpisodes(s)
      PROVE  WebOK' /\ \A q \in Request : Told(req[q], req'[q])
  <2>1. s \in Session
    BY DashboardAssumption
  <2>2. /\ row[s] # NoRow /\ row' = [row EXCEPT ![s].episodes = row[s].report]
        /\ Moves({s}) /\ Others
    BY <1>3 DEF CommitEpisodes
  <2>3. row' \in RowTable /\ \A t \in Session \ {s} : row'[t] = row[t]
    BY <1>1, <2>1, <2>2 DEF RowTable
  <2> QED
    BY <2>1, <2>2, <2>3, MovesOK
<1>4. ASSUME NEW s \in Session, PruneBefore(s)
      PROVE  WebOK' /\ \A q \in Request : Told(req[q], req'[q])
  <2> DEFINE old == {t \in Session : Age[t] >= Age[s]}
  <2>1. row' = [t \in Session |-> IF t \in old THEN NoRow ELSE row[t]] /\ Moves(old) /\ Others
    BY <1>4 DEF PruneBefore
  <2>2. old \in SUBSET Session
    OBVIOUS
  <2> HIDE DEF old
  <2>3. row' \in RowTable /\ \A t \in Session \ old : row'[t] = row[t]
    BY <1>1, <2>1, <2>2 DEF RowTable
  <2> QED
    BY <2>1, <2>2, <2>3, MovesOK
<1> QED
  BY <1>2, <1>3, <1>4 DEF Writers

LEMMA WebStep ==
  ASSUME WebOK, [DashNext]_dashVars
  PROVE  WebOK' /\ \A q \in Request : Told(req[q], req'[q])
<1>1. CASE UNCHANGED <<row, web>>
  <2>1. \A r : Told(r, r)
    BY DEF Told, Now
  <2> QED
    BY <1>1, <2>1 DEF web, WebOK
<1>2. CASE Writers
  BY <1>2, WriterOK
<1>3. ASSUME NEW q \in Request, Arrive(q) \/ RequestStep(q) \/ HandlerPanics(q)
      PROVE  WebOK' /\ \A p \in Request : Told(req[p], req'[p])
  <2>1. Moved(q)
    BY <1>3, ArriveOK, HandleOK, AcquireOK, ListOK, NextRowOK, LoadOK, EpisodesOK, ComputeOK, RenderOK,
       PanicOK DEF RequestStep
  <2> QED
    BY <2>1, AdvanceOK DEF Moved
<1> QED
  BY <1>1, <1>2, <1>3
  DEF DashNext, dashVars, server, Started, Resolve, CheckPath, OpenDb, Bind, Signal, Stop, OtherOpens, Configure

LEMMA DashStarts == DashInit => DashInv
<1> SUFFICES ASSUME DashInit PROVE DashInv
  OBVIOUS
<1>1. StoreOK
  BY StoreInitOK DEF DashInit
<1>2. SetupOK
  BY DEF DashInit, ConfigInit, SetupOK
<1>3. WebOK
  <2>1. /\ row \in RowTable /\ lock = NoRequest /\ req = [q \in Request |-> Fresh]
    BY DEF DashInit, RowTable
  <2>2. ReqOK(Fresh, row) /\ ~Holds(Fresh)
    BY FreshIs DEF ReqOK, KindOK, TallyOK, TruthOK, Holds
  <2> QED
    BY <2>1, <2>2, FreshIs DEF WebOK
<1> QED
  BY <1>1, <1>2, <1>3 DEF DashInv

LEMMA DashInvariant == DashSpec => []DashInv
<1>1. DashInv /\ [DashNext]_dashVars => DashInv'
  BY StoreStep, SetupStep, WebStep DEF DashInv
<1> QED
  BY <1>1, DashStarts, PTL DEF DashSpec

(* However many processes open the store at once, and whatever the         *)
(* configuration file says while it is edited: a process that opened the   *)
(* store has the whole schema, and a server runs with an address and an    *)
(* interval that are usable and asked for (db.rs, config.rs, serve/mod.rs).*)
THEOREM SetupStaysSound == DashSpec => []SetupIsSound
<1>1. DashInv => SetupIsSound
  BY DEF DashInv, StoreOK, SetupOK, SettingsOK, SetupIsSound, SchemaIsWhole, ServedAsAsked
<1> QED
  BY <1>1, DashInvariant, PTL

LEMMA CountsStayUp == DashSpec => CountsAddUp
<1> DEFINE Promise ==
      \A q \in Request :
        LET r == req[q]  r2 == req'[q] IN
        r.at = "each" /\ r2.at \in {"render", "answered"} /\ r.ask.kind # "sessions" =>
          /\ Cardinality(r.parts) + r.failures = Cardinality(r.listed)
          /\ r2.at = "answered" => r.listed # {} /\ r.parts = {}
<1>1. DashInv /\ [DashNext]_dashVars => [Promise]_dashVars
  <2> SUFFICES ASSUME WebOK, [DashNext]_dashVars PROVE Promise
    BY DEF DashInv
  <2> QED
    BY WebStep DEF Told
<1> QED
  BY <1>1, DashInvariant, PTL DEF DashSpec, CountsAddUp

LEMMA ErrorsStayReal == DashSpec => ErrorsAreReal
<1> DEFINE Promise ==
      \A q \in Request :
        LET r == req[q]  s == Wanted(r.ask)  Bad(t) == Stored(t) /\ ~Loads(t) IN
        /\ AnswersNow(q, 404) /\ r.ask.kind = "session" => ~Stored(s)
        /\ AnswersNow(q, 500) /\ ~req'[q].faulty =>
             \/ r.ask.kind = "session" /\ (Bad(s) \/ s \in r.moved)
             \/ r.ask.kind # "session" /\ \A t \in r.listed : Bad(t) \/ t \in r.moved
<1>1. DashInv /\ [DashNext]_dashVars => [Promise]_dashVars
  <2> SUFFICES ASSUME WebOK, [DashNext]_dashVars PROVE Promise
    BY DEF DashInv
  <2> QED
    BY WebStep DEF Told, Now, AnswersNow
<1> QED
  BY <1>1, DashInvariant, PTL DEF DashSpec, ErrorsAreReal

LEMMA PartsStayWhole == DashSpec => PartsAreOfOneRow
<1> DEFINE Promise ==
      \A q \in Request :
        req[q].at # "render" /\ req'[q].at = "render" /\ req[q].ask.kind \in {"session", "aggregate"} =>
          \A p \in req'[q].parts :
            p.sid \in req'[q].moved \/ row[p.sid] = [report |-> p.report, episodes |-> p.episodes]
<1>1. DashInv /\ [DashNext]_dashVars => [Promise]_dashVars
  <2> SUFFICES ASSUME WebOK, [DashNext]_dashVars PROVE Promise
    BY DEF DashInv
  <2> QED
    BY WebStep DEF Told
<1> QED
  BY <1>1, DashInvariant, PTL DEF DashSpec, PartsAreOfOneRow

LEMMA ShownStaysUsed == DashSpec => ShownIsUsed
<1>1. DashInv /\ [DashNext]_dashVars => [ShownNow]_dashVars
  BY SetupStep DEF DashInv
<1>2. DashSpec => [][ShownNow]_dashVars
  BY <1>1, DashInvariant, PTL DEF DashSpec
<1> QED
  BY <1>2 DEF ShownIsUsed, ShownNow

(* For every number of sessions, requests and workers, and whatever other  *)
(* processes commit and prune between two statements: what a page counts,  *)
(* what an error says and what stands together on a page is true of the    *)
(* store (serve/handlers.rs, aggregate.rs, waste.rs), and `config show`    *)
(* tells what a server then uses.                                          *)
THEOREM AnswersStayTrue == DashSpec => AnswersAreTrue
  BY CountsStayUp, ErrorsStayReal, PartsStayWhole, ShownStaysUsed DEF AnswersAreTrue
=============================================================================
