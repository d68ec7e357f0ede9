------------------------ MODULE DeriveEpisodesProofs ------------------------
(***************************************************************************)
(* Proofs about DeriveEpisodes for streams of any length, with any names,  *)
(* call ids, modes, timestamps and windows.  First, from the types of the  *)
(* parts (IInv): no span runs backwards, the mode segments tile the        *)
(* session, and what was committed stays.  A step is described by what it  *)
(* does to each part of the state (the ...Move definitions); invariant and *)
(* action property follow from those alone.  Then, from what the parts say *)
(* of each other (CInv): every event is counted once and every skill       *)
(* window is exact.  There a commit is described by the one call it adds   *)
(* (Added), and each conjunct of CInv by what such a step does to it.      *)
(* Last, what the report makes of the parts: rankings and summary count    *)
(* every call once, percentiles are durations, and pending is open.        *)
(***************************************************************************)
EXTENDS DerivedReport, AnalyzerProofs

ToolNames == ToolName \cup {OrphanName}
Ref == [name : ToolNames \cup HookName \cup SkillName, index : Nat]
Lists == {"tool_calls", "hook_calls", "skill_calls"}
Turn == [status : {"open", "completed", "aborted"}, mode : Mode \cup {None},
         from : Stamp, to : Stamp \cup {None}, model : Model \cup {None}, tokens : Nat,
         tool_calls : Seq(Ref), hook_calls : Seq(Ref), skill_calls : Seq(Ref)]
Status == Outcomes \cup {"orphan", "aborted", "open"}
OpenTool == [name : ToolName, at : Stamp, turn : Nat, id : CallId \cup {None},
             requested : BOOLEAN, opened : Nat]
OpenHook == [name : HookName, at : Stamp, turn : Nat, opened : Nat]
Skill == [at : Stamp, triggered : Seq(Ref), opened : Nat]
Segment == [mode : Mode, from : Stamp, to : Stamp \cup {None}]
Forward(Records) == {c \in Records : c.from <= c.to}
ToolRecord == Forward([from : Stamp, to : Stamp, turn : Nat, status : Status, requested : BOOLEAN,
                       args : CallId \cup {None}, opened : Nat, closed : Nat])
HookRecord == Forward([from : Stamp, to : Stamp, turn : Nat, synthesized : BOOLEAN,
                       opened : Nat, closed : Nat])

(* What has been read: only a stream without events has no clock.          *)
SeenOK == /\ seen \in Seq(Kinds)
          /\ clock \in Stamp \cup {None}
          /\ seen # <<>> => clock # None
TurnsOK == /\ turns \in Seq(Turn)
           /\ openTurn \in 0..Len(turns)
           /\ openTurn # NoTurn => turns[openTurn].status = "open"
(* A call that is open has started, so there is a clock to close it by.    *)
OpenOK == /\ openTools \in Seq(OpenTool) /\ openHooks \in Seq(OpenHook)
          /\ clock = None => openTools = <<>> /\ openHooks = <<>>
ToolsOK == tools \in [ToolNames -> Seq(ToolRecord)]
HooksOK == hooks \in [HookName -> Seq(HookRecord)]
SkillsOK == skills \in [SkillName -> Seq(Skill)]
SegmentsOK == /\ segments \in Seq(Segment) /\ segments # <<>>
              /\ mode \in Mode
              /\ SegmentsAreContiguous

IInv == SeenOK /\ TurnsOK /\ OpenOK /\ ToolsOK /\ HooksOK /\ SkillsOK /\ SegmentsOK

(* What a step may do to turns, tools and hooks.                           *)
TurnsMove == /\ TurnsOK'
             /\ \A t \in DOMAIN turns : Kept(t)
             /\ Len(turns') > Len(turns) => Last(turns').mode \in {mode, None}
ToolsMove == ToolsOK' /\ \A n \in DOMAIN tools : IsPrefix(tools[n], tools'[n])
HooksMove == HooksOK' /\ \A n \in DOMAIN hooks : IsPrefix(hooks[n], hooks'[n])
Moves == SeenOK' /\ TurnsMove /\ OpenOK' /\ ToolsMove /\ HooksMove /\ SkillsOK' /\ SegmentsOK'

-----------------------------------------------------------------------------
(* Sequences                                                               *)

(* A sequence is a prefix of itself and of itself with one more element.   *)
LEMMA PrefixOfSelf == ASSUME NEW S, NEW s \in Seq(S) PROVE IsPrefix(s, s)
  BY DEF IsPrefix

LEMMA PrefixOfAppend ==
  ASSUME NEW S, NEW s \in Seq(S), NEW e \in S
  PROVE  IsPrefix(s, Append(s, e))
<1> DEFINE t == Append(s, e)
<1>1. t \in Seq(S) /\ Len(t) = Len(s) + 1 /\ \A i \in 1..Len(s) : t[i] = s[i]
  BY AppendProperties
<1>2. SubSeq(s, 1, Len(s)) = SubSeq(t, 1, Len(s))
  <2> DEFINE a == SubSeq(s, 1, Len(s))
             b == SubSeq(t, 1, Len(s))
  <2>1. a \in Seq(S) /\ b \in Seq(S) /\ Len(a) = Len(s) /\ Len(b) = Len(s)
    BY <1>1
  <2>2. \A i \in 1..Len(s) : a[i] = b[i]
    BY <1>1
  <2> QED
    BY <2>1, <2>2, SeqEqual
<1> QED
  BY <1>1, <1>2 DEF IsPrefix

(* Front, Last, Head and Tail of a sequence that is not empty.             *)
LEMMA EntryEnds ==
  ASSUME NEW S, NEW s \in Seq(S), s # <<>>
  PROVE  /\ Last(s) \in S /\ Front(s) \in Seq(S)
         /\ Head(s) \in S /\ Tail(s) \in Seq(S)
<1>1. Len(s) \in Nat \ {0}
  BY EmptySeq
<1> QED
  BY <1>1, ElementOfSeq, HeadTailProperties DEF Last, Front

-----------------------------------------------------------------------------
(* Init has no calls, no turns and one open segment.                       *)
LEMMA InitInv == Init => IInv
<1> SUFFICES ASSUME Init PROVE IInv
  OBVIOUS
<1> USE ConstantsAssumption
<1>1. SeenOK /\ TurnsOK /\ OpenOK
  BY DEF Init, SeenOK, TurnsOK, OpenOK, NoTurn
<1>2. ToolsOK /\ HooksOK /\ SkillsOK
  BY DEF Init, ToolsOK, HooksOK, SkillsOK, ToolNames
<1>3. SegmentsOK
  <2> PICK t \in Stamp : segments = <<[mode |-> Interactive, from |-> t, to |-> None]>>
    BY DEF Init
  <2>1. segments \in Seq(Segment) /\ segments # <<>> /\ Len(segments) = 1
    BY DEF Segment
  <2> QED
    BY <2>1 DEF Init, SegmentsOK, SegmentsAreContiguous, Last
<1> QED
  BY <1>1, <1>2, <1>3 DEF IInv

(* An event is appended to what was read, and its time is the clock.       *)
LEMMA Observed ==
  ASSUME IInv, NEW ts \in Stamp, NEW kind, NEW warning, ObserveAll(kind, ts, warning)
  PROVE  SeenOK' /\ clock' = ts /\ ts # None /\ phase' = "reading"
<1>1. seen' \in Seq(Kinds)
  BY AppendProperties DEF IInv, SeenOK, ObserveAll
<1> QED
  BY <1>1, ConstantsAssumption DEF ObserveAll, SeenOK

(* Parts a step leaves alone.                                              *)
LEMMA TurnsStay ==
  ASSUME IInv, UNCHANGED <<turns, openTurn>> PROVE TurnsMove
  BY DEF IInv, TurnsOK, TurnsMove, Kept
LEMMA ToolsStay ==
  ASSUME IInv, UNCHANGED tools PROVE ToolsMove
  BY PrefixOfSelf DEF IInv, ToolsOK, ToolsMove
LEMMA HooksStay ==
  ASSUME IInv, UNCHANGED hooks PROVE HooksMove
  BY PrefixOfSelf DEF IInv, HooksOK, HooksMove
LEMMA SkillsStay ==
  ASSUME IInv, UNCHANGED skills PROVE SkillsOK'
  BY DEF IInv, SkillsOK
LEMMA SegmentsStay ==
  ASSUME IInv, UNCHANGED <<segments, mode>>, phase' # "done" PROVE SegmentsOK'
  BY DEF IInv, SegmentsOK, SegmentsAreContiguous
LEMMA OpenStay ==
  ASSUME IInv, UNCHANGED <<openTools, openHooks>>, clock' # None \/ UNCHANGED clock PROVE OpenOK'
  BY DEF IInv, OpenOK

-----------------------------------------------------------------------------
(* Commits                                                                 *)

LEMMA SpanEndForward ==
  ASSUME NEW from \in Stamp, NEW to \in Stamp
  PROVE  SpanEnd(from, to) \in Stamp /\ from <= SpanEnd(from, to)
<1>1. from \in Nat /\ to \in Nat
  BY ConstantsAssumption
<1> QED
  BY <1>1 DEF SpanEnd

(* Span::new's clamp makes the call of a popped or drained entry forward.  *)
LEMMA ToolCallTyped ==
  ASSUME IInv, NEW o, o.at \in Stamp, o.turn \in Nat, o.requested \in BOOLEAN, o.opened \in Nat,
         NEW ts \in Stamp, NEW status \in Status, NEW id \in CallId \cup {None}
  PROVE  ToolCall(o, ts, status, id) \in ToolRecord
<1>1. SpanEnd(o.at, ts) \in Stamp /\ o.at <= SpanEnd(o.at, ts)
  BY SpanEndForward
<1>2. Arguments(id) \in CallId \cup {None}
  BY DEF Arguments
<1>3. Now \in Nat
  BY DEF Now, IInv, SeenOK
<1> QED
  BY <1>1, <1>2, <1>3 DEF ToolCall, ToolRecord, Forward

LEMMA HookCallTyped ==
  ASSUME IInv, NEW o, o.at \in Stamp, o.turn \in Nat, o.opened \in Nat,
         NEW ts \in Stamp, NEW synthesized \in BOOLEAN
  PROVE  HookCall(o, ts, synthesized) \in HookRecord
<1>1. SpanEnd(o.at, ts) \in Stamp /\ o.at <= SpanEnd(o.at, ts)
  BY SpanEndForward
<1>2. Now \in Nat
  BY DEF Now, IInv, SeenOK
<1> QED
  BY <1>1, <1>2 DEF HookCall, HookRecord, Forward

(* A back-reference changes only the list it goes to.                      *)
LEMMA ReferencedTurns ==
  ASSUME IInv, NEW turn, NEW list \in Lists, NEW ref \in Ref
  PROVE  /\ Referenced(turn, list, ref) \in Seq(Turn)
         /\ Len(Referenced(turn, list, ref)) = Len(turns)
         /\ \A t \in DOMAIN turns :
              /\ Referenced(turn, list, ref)[t].status = turns[t].status
              /\ Referenced(turn, list, ref)[t].mode = turns[t].mode
              /\ Referenced(turn, list, ref)[t].tokens = turns[t].tokens
<1>1. turns \in Seq(Turn)
  BY DEF IInv, TurnsOK
<1>2. CASE turn = NoTurn
  BY <1>1, <1>2 DEF Referenced
<1>4. CASE turn # NoTurn /\ turn \notin DOMAIN turns
  <2> DEFINE new == [turns[turn] EXCEPT ![list] = Append(@, ref)]
             out == Referenced(turn, list, ref)
  <2>1. out = [turns EXCEPT ![turn] = new]
    BY <1>4 DEF Referenced
  <2>2. DOMAIN turns = 1..Len(turns) /\ Len(turns) \in Nat
        /\ \A t \in 1..Len(turns) : turns[t] \in Turn
    BY <1>1
  <2> HIDE DEF new, out
  <2>3. DOMAIN out = 1..Len(turns) /\ \A t \in 1..Len(turns) : out[t] = turns[t]
    BY <1>4, <2>1, <2>2
  <2>4. out \in [1..Len(turns) -> Turn]
    BY <2>1, <2>2, <2>3
  <2>5. out \in Seq(Turn) /\ Len(out) = Len(turns)
    BY <2>2, <2>4
  <2> QED
    BY <2>2, <2>3, <2>5 DEF out
<1>3. CASE turn # NoTurn /\ turn \in DOMAIN turns
  <2> DEFINE new == [turns[turn] EXCEPT ![list] = Append(@, ref)]
  <2>0. turns[turn] \in Turn
    BY <1>1, <1>3, ElementOfSeq
  <2>1. turns[turn] \in Turn /\ turns[turn][list] \in Seq(Ref)
    BY <2>0 DEF Turn, Lists
  <2>2. Append(turns[turn][list], ref) \in Seq(Ref)
    BY <2>1, AppendProperties
  <2>3. new \in Turn /\ new.status = turns[turn].status /\ new.mode = turns[turn].mode
        /\ new.tokens = turns[turn].tokens
    BY <2>1, <2>2 DEF Turn, Lists
  <2>4. Referenced(turn, list, ref) = [turns EXCEPT ![turn] = new]
    BY <1>3 DEF Referenced
  <2> HIDE DEF new
  <2> QED
    BY <1>1, <1>3, <2>3, <2>4, ExceptSeq
<1> QED
  BY <1>2, <1>3, <1>4

(* A back-reference is a move of the turns when the open turn stays open,  *)
(* or none is open any more.                                               *)
LEMMA ReferenceMoves ==
  ASSUME IInv, NEW turn, NEW list \in Lists, NEW ref \in Ref,
         turns' = Referenced(turn, list, ref), openTurn' \in {openTurn, NoTurn}
  PROVE  TurnsMove
<1>1. turns \in Seq(Turn) /\ openTurn \in 0..Len(turns)
      /\ (openTurn # NoTurn => turns[openTurn].status = "open")
  BY DEF IInv, TurnsOK
<1>2. /\ turns' \in Seq(Turn) /\ Len(turns') = Len(turns)
      /\ \A t \in DOMAIN turns : /\ turns'[t].status = turns[t].status
                                 /\ turns'[t].mode = turns[t].mode
                                 /\ turns'[t].tokens = turns[t].tokens
  BY ReferencedTurns
<1> QED
  BY <1>1, <1>2 DEF TurnsMove, TurnsOK, Kept, NoTurn

(* Open skill windows get the reference; the invocations stay in place.    *)
LEMMA TriggeredSkills ==
  ASSUME IInv, NEW ref \in Ref
  PROVE  Triggered(ref) \in [SkillName -> Seq(Skill)]
<1> SUFFICES ASSUME NEW n \in SkillName PROVE Triggered(ref)[n] \in Seq(Skill)
  BY DEF Triggered
<1> DEFINE old == skills[n]
           new == Triggered(ref)[n]
<1>1. old \in Seq(Skill) /\ DOMAIN old = 1..Len(old) /\ Len(old) \in Nat
  BY DEF IInv, SkillsOK
<1>2. new = [i \in 1..Len(old) |->
               IF \E w \in openSkills : w.name = n /\ w.index = i
               THEN [old[i] EXCEPT !.triggered = Append(@, ref)] ELSE old[i]]
  BY <1>1 DEF Triggered
<1> HIDE DEF old, new
<1>3. ASSUME NEW i \in 1..Len(old) PROVE new[i] \in Skill
  <2>0. old[i] \in Skill
    BY <1>1, <1>3, ElementOfSeq
  <2>1. old[i] \in Skill /\ old[i].triggered \in Seq(Ref)
    BY <2>0 DEF Skill
  <2>2. Append(old[i].triggered, ref) \in Seq(Ref)
    BY <2>1, AppendProperties
  <2>3. [old[i] EXCEPT !.triggered = Append(@, ref)] \in Skill
    BY <2>1, <2>2 DEF Skill
  <2> QED
    BY <1>2, <1>3, <2>1, <2>3
<1>4. new \in [1..Len(old) -> Skill]
  BY <1>2, <1>3
<1> QED
  BY <1>1, <1>4 DEF new

LEMMA CommitToolMoves ==
  ASSUME IInv, NEW name \in ToolNames, NEW call \in ToolRecord, CommitTool(name, call),
         UNCHANGED openTurn
  PROVE  TurnsMove /\ ToolsMove /\ SkillsOK'
<1>1. tools[name] \in Seq(ToolRecord)
  BY DEF IInv, ToolsOK
<1>2. NextRef(tools, name) \in Ref
  BY <1>1, LenProperties DEF NextRef, Ref
<1>3. TurnsMove
  BY <1>2, ReferenceMoves DEF CommitTool, Lists
<1>7. SkillsOK'
  BY <1>2, TriggeredSkills DEF CommitTool, SkillsOK
<1>4. tools' = [tools EXCEPT ![name] = Append(@, call)]
  BY DEF CommitTool
<1>5. tools' \in [ToolNames -> Seq(ToolRecord)]
  BY <1>1, <1>4, AppendProperties DEF IInv, ToolsOK
<1>6. ASSUME NEW n \in DOMAIN tools PROVE IsPrefix(tools[n], tools'[n])
  <2>1. tools[n] \in Seq(ToolRecord)
    BY <1>6 DEF IInv, ToolsOK
  <2>2. CASE n = name
    <3>1. tools'[n] = Append(tools[n], call)
      BY <1>4, <1>6, <2>2
    <3> QED
      BY <2>1, <3>1, PrefixOfAppend
  <2>3. CASE n # name
    <3>1. tools'[n] = tools[n]
      BY <1>4, <1>6, <2>3
    <3> QED
      BY <2>1, <3>1, PrefixOfSelf
  <2> QED
    BY <2>2, <2>3
<1> QED
  BY <1>3, <1>5, <1>6, <1>7 DEF ToolsMove, ToolsOK

LEMMA CommitHookMoves ==
  ASSUME IInv, NEW name \in HookName, NEW call \in HookRecord, CommitHook(name, call),
         UNCHANGED openTurn
  PROVE  TurnsMove /\ HooksMove
<1>1. hooks[name] \in Seq(HookRecord)
  BY DEF IInv, HooksOK
<1>2. NextRef(hooks, name) \in Ref
  BY <1>1, LenProperties DEF NextRef, Ref
<1>3. TurnsMove
  BY <1>2, ReferenceMoves DEF CommitHook, Lists
<1>4. hooks' = [hooks EXCEPT ![name] = Append(@, call)]
  BY DEF CommitHook
<1>5. hooks' \in [HookName -> Seq(HookRecord)]
  BY <1>1, <1>4, AppendProperties DEF IInv, HooksOK
<1>6. ASSUME NEW n \in DOMAIN hooks PROVE IsPrefix(hooks[n], hooks'[n])
  <2>1. hooks[n] \in Seq(HookRecord)
    BY <1>6 DEF IInv, HooksOK
  <2>2. CASE n = name
    <3>1. hooks'[n] = Append(hooks[n], call)
      BY <1>4, <1>6, <2>2
    <3> QED
      BY <2>1, <3>1, PrefixOfAppend
  <2>3. CASE n # name
    <3>1. hooks'[n] = hooks[n]
      BY <1>4, <1>6, <2>3
    <3> QED
      BY <2>1, <3>1, PrefixOfSelf
  <2> QED
    BY <2>2, <2>3
<1> QED
  BY <1>3, <1>5, <1>6 DEF HooksMove, HooksOK

(* Ended changes the end of the last segment and nothing else.             *)
LEMMA EndedSegments ==
  ASSUME IInv, NEW ts \in Stamp
  PROVE  /\ Ended(ts) \in Seq(Segment) /\ Len(Ended(ts)) = Len(segments)
         /\ \A k \in 1..Len(segments) : /\ Ended(ts)[k].mode = segments[k].mode
                                        /\ Ended(ts)[k].from = segments[k].from
         /\ \A k \in 1..(Len(segments) - 1) : Ended(ts)[k] = segments[k]
         /\ Ended(ts)[Len(segments)].to = ts
<1>1. segments \in Seq(Segment) /\ Len(segments) \in 1..Len(segments)
  BY EmptySeq DEF IInv, SegmentsOK
<1> DEFINE new == [segments[Len(segments)] EXCEPT !.to = ts]
<1>2. segments[Len(segments)] \in Segment
  BY <1>1, ElementOfSeq
<1>3. new \in Segment /\ new.mode = segments[Len(segments)].mode
      /\ new.from = segments[Len(segments)].from /\ new.to = ts
  BY <1>2 DEF Segment
<1>4. Ended(ts) = [segments EXCEPT ![Len(segments)] = new]
  BY DEF Ended
<1> HIDE DEF new
<1> QED
  BY <1>1, <1>3, <1>4, ExceptSeq

(* Ending the last segment keeps the tiling.                               *)
LEMMA SegmentsEnd ==
  ASSUME IInv, NEW ts \in Stamp, segments' = Ended(ts), UNCHANGED mode
  PROVE  SegmentsOK'
<1>1. segments \in Seq(Segment) /\ Len(segments) \in 1..Len(segments)
      /\ segments[Len(segments)].mode = mode /\ mode \in Mode
      /\ \A k \in 1..(Len(segments) - 1) : segments[k].to = segments[k + 1].from
  BY EmptySeq DEF IInv, SegmentsOK, SegmentsAreContiguous, Last
<1>2. /\ segments' \in Seq(Segment) /\ Len(segments') = Len(segments)
      /\ \A k \in 1..Len(segments) : /\ segments'[k].mode = segments[k].mode
                                     /\ segments'[k].from = segments[k].from
      /\ \A k \in 1..(Len(segments) - 1) : segments'[k] = segments[k]
      /\ segments'[Len(segments)].to = ts
  BY EndedSegments
<1>3. segments' # <<>>
  BY <1>1, <1>2, EmptySeq
<1>4. \A k \in 1..(Len(segments') - 1) : segments'[k].to = segments'[k + 1].from
  BY <1>1, <1>2
<1>5. ts # None
  BY ConstantsAssumption
<1> QED
  BY <1>1, <1>2, <1>3, <1>4, <1>5 DEF SegmentsOK, SegmentsAreContiguous, Last

(* A new segment begins where the last one was ended.                      *)
LEMMA SegmentsGrow ==
  ASSUME IInv, NEW ts \in Stamp, NEW new \in Mode, mode' = new, phase' # "done",
         segments' = Append(Ended(ts), [mode |-> new, from |-> ts, to |-> None])
  PROVE  SegmentsOK'
<1>1. segments \in Seq(Segment) /\ Len(segments) \in Nat \ {0}
      /\ \A k \in 1..(Len(segments) - 1) : segments[k].to = segments[k + 1].from
  BY EmptySeq DEF IInv, SegmentsOK, SegmentsAreContiguous
<1> DEFINE e == Ended(ts)
           s == [mode |-> new, from |-> ts, to |-> None]
           n == Len(segments)
<1>2. /\ e \in Seq(Segment) /\ Len(e) = n
      /\ \A k \in 1..n : e[k].from = segments[k].from
      /\ \A k \in 1..(n - 1) : e[k] = segments[k]
      /\ e[n].to = ts
  BY EndedSegments
<1>3. s \in Segment /\ s.from = ts /\ s.mode = new
  BY DEF Segment
<1> HIDE DEF e, s
<1>4. /\ segments' \in Seq(Segment) /\ Len(segments') = n + 1
      /\ \A k \in 1..n : segments'[k] = e[k]
      /\ segments'[n + 1] = s
  BY <1>2, <1>3, AppendProperties DEF e, s
<1>5. ASSUME NEW k \in 1..n PROVE segments'[k].to = segments'[k + 1].from
  <2>1. CASE k = n
    BY <1>1, <1>2, <1>3, <1>4, <2>1
  <2>2. CASE k # n
    <3>1. k \in 1..(n - 1) /\ k + 1 \in 1..n
      BY <1>1, <2>2
    <3>2. segments'[k].to = segments[k].to /\ segments'[k + 1].from = segments[k + 1].from
      BY <1>2, <1>4, <3>1
    <3> QED
      BY <1>1, <3>1, <3>2
  <2> QED
    BY <2>1, <2>2
<1>6. segments' # <<>>
  BY <1>1, <1>4, EmptySeq
<1> QED
  BY <1>1, <1>3, <1>4, <1>5, <1>6 DEF SegmentsOK, SegmentsAreContiguous, Last

-----------------------------------------------------------------------------
(* Turns: a new turn, and a change to the open one                         *)

LEMMA TurnAdded ==
  ASSUME IInv, NEW status \in {"open", "completed"}, NEW ts \in Stamp,
         turns' = Append(turns, NewTurn(status, ts)),
         openTurn' = IF status = "open" THEN Len(turns) + 1 ELSE NoTurn
  PROVE  TurnsMove
<1>1. turns \in Seq(Turn) /\ mode \in Mode
  BY DEF IInv, TurnsOK, SegmentsOK
<1> DEFINE new == NewTurn(status, ts)
<1>2. new \in Turn /\ new.status = status /\ new.mode \in {mode, None}
  BY <1>1, ConstantsAssumption DEF NewTurn, Turn
<1> HIDE DEF new
<1>3. /\ turns' \in Seq(Turn) /\ Len(turns') = Len(turns) + 1
      /\ \A t \in 1..Len(turns) : turns'[t] = turns[t]
      /\ turns'[Len(turns) + 1] = new
  BY <1>1, <1>2, AppendProperties DEF new
<1>4. TurnsOK'
  BY <1>1, <1>2, <1>3, LenProperties DEF TurnsOK, NoTurn
<1> QED
  BY <1>1, <1>2, <1>3, <1>4 DEF TurnsMove, Kept, Last

LEMMA OpenTurnChanged ==
  ASSUME IInv, openTurn # NoTurn, NEW new \in Turn, new.mode = turns[openTurn].mode,
         turns' = [turns EXCEPT ![openTurn] = new],
         openTurn' = NoTurn \/ (openTurn' = openTurn /\ new.status = "open")
  PROVE  TurnsMove
<1>1. turns \in Seq(Turn) /\ openTurn \in 1..Len(turns) /\ turns[openTurn].status = "open"
  BY DEF IInv, TurnsOK, NoTurn
<1>2. /\ turns' \in Seq(Turn) /\ Len(turns') = Len(turns)
      /\ \A t \in 1..Len(turns) : turns'[t] = IF t = openTurn THEN new ELSE turns[t]
  BY <1>1, ExceptSeq
<1> QED
  BY <1>1, <1>2 DEF TurnsMove, TurnsOK, Kept, NoTurn

-----------------------------------------------------------------------------
(* The steps                                                               *)

(* Events that leave the calls and the segments alone.                     *)
LEMMA TurnEventMoves ==
  ASSUME IInv, NEW kind, NEW ts \in Stamp, NEW warning, ObserveAll(kind, ts, warning),
         TurnsMove, SkillsOK', UNCHANGED <<calls, segments, mode>>
  PROVE  Moves
<1>1. SeenOK' /\ clock' # None /\ phase' # "done"
  BY Observed
<1> QED
  BY <1>1, ToolsStay, HooksStay, SegmentsStay, OpenStay DEF Moves, calls

LEMMA TurnStartMoves == ASSUME IInv, NEW ts \in Stamp, TurnStart(ts) PROVE Moves
<1>1. TurnsMove
  BY TurnAdded DEF TurnStart
<1> QED
  BY <1>1, TurnEventMoves, SkillsStay DEF TurnStart, Observe

LEMMA TurnEndMoves == ASSUME IInv, NEW ts \in Stamp, TurnEnd(ts) PROVE Moves
<1>1. CASE openTurn = NoTurn
  <2>1. TurnsMove
    BY <1>1, TurnAdded DEF TurnEnd
  <2> QED
    BY <1>1, <2>1, TurnEventMoves, SkillsStay DEF TurnEnd, Observe
<1>2. CASE openTurn # NoTurn
  <2> DEFINE new == [turns[openTurn] EXCEPT !.status = "completed", !.to = ts]
  <2>1. turns[openTurn] \in Turn
    BY <1>2, ElementOfSeq DEF IInv, TurnsOK, NoTurn
  <2>2. new \in Turn /\ new.mode = turns[openTurn].mode
    BY <2>1 DEF Turn
  <2>3. turns' = [turns EXCEPT ![openTurn] = new]
    BY <1>2 DEF TurnEnd
  <2>4. openTurn' = NoTurn
    BY DEF TurnEnd
  <2> HIDE DEF new
  <2>5. TurnsMove
    BY <1>2, <2>2, <2>3, <2>4, OpenTurnChanged
  <2> QED
    BY <1>2, <2>5, TurnEventMoves, SkillsStay DEF TurnEnd, Observe
<1> QED
  BY <1>1, <1>2

LEMMA AbortTurnMoves == ASSUME IInv, NEW ts \in Stamp, AbortTurn(ts) PROVE Moves
<1> DEFINE new == [turns[openTurn] EXCEPT !.status = "aborted", !.to = ts]
<1>1. openTurn # NoTurn /\ openTurn' = NoTurn
  BY DEF AbortTurn
<1>2. turns[openTurn] \in Turn
  BY <1>1, ElementOfSeq DEF IInv, TurnsOK, NoTurn
<1>3. new \in Turn /\ new.mode = turns[openTurn].mode
  BY <1>2 DEF Turn
<1>4. turns' = [turns EXCEPT ![openTurn] = new]
  BY DEF AbortTurn
<1> HIDE DEF new
<1>5. TurnsMove
  BY <1>1, <1>3, <1>4, OpenTurnChanged
<1> QED
  BY <1>5, TurnEventMoves, SkillsStay DEF AbortTurn, Observe

LEMMA AssistantMessageMoves ==
  ASSUME IInv, NEW ts \in Stamp, NEW model \in Model, NEW tokens \in Tokens,
         AssistantMessage(ts, model, tokens)
  PROVE  Moves
<1>1. TurnsMove
  <2>1. CASE openTurn = NoTurn
    BY <2>1, TurnsStay DEF AssistantMessage
  <2>2. CASE openTurn # NoTurn
    <3> DEFINE new == [turns[openTurn] EXCEPT !.model = model, !.tokens = @ + tokens]
    <3>1. turns[openTurn] \in Turn /\ turns[openTurn].status = "open"
      BY <2>2, ElementOfSeq DEF IInv, TurnsOK, NoTurn
    <3>2. tokens \in Nat
      BY ConstantsAssumption
    <3>5. turns[openTurn].tokens + tokens \in Nat
      BY <3>1, <3>2 DEF Turn
    <3>3. new \in Turn /\ new.mode = turns[openTurn].mode /\ new.status = "open"
      BY <3>1, <3>5 DEF Turn
    <3>4. turns' = [turns EXCEPT ![openTurn] = new] /\ openTurn' = openTurn
      BY <2>2 DEF AssistantMessage
    <3> HIDE DEF new
    <3> QED
      BY <2>2, <3>3, <3>4, OpenTurnChanged
  <2> QED
    BY <2>1, <2>2
<1> QED
  BY <1>1, TurnEventMoves, SkillsStay DEF AssistantMessage, Observe

LEMMA SkillInvokedMoves ==
  ASSUME IInv, NEW ts \in Stamp, NEW name \in SkillName, SkillInvoked(ts, name) PROVE Moves
<1> DEFINE new == [at |-> ts, triggered |-> <<>>, opened |-> Now]
<1>1. skills \in [SkillName -> Seq(Skill)] /\ skills[name] \in Seq(Skill)
  BY DEF IInv, SkillsOK
<1>2. NextRef(skills, name) \in Ref
  BY <1>1, LenProperties DEF NextRef, Ref
<1>3. TurnsMove
  BY <1>2, ReferenceMoves DEF SkillInvoked, Lists
<1>4. new \in Skill
  BY DEF Skill, Now, IInv, SeenOK
<1>5. skills' = [skills EXCEPT ![name] = Append(@, new)]
  BY DEF SkillInvoked
<1> HIDE DEF new
<1>6. SkillsOK'
  BY <1>1, <1>4, <1>5, AppendProperties DEF SkillsOK
<1> QED
  BY <1>3, <1>6, TurnEventMoves DEF SkillInvoked, Observe

(* Events that leave turns, calls and skills alone.                        *)
LEMMA PlainEventMoves ==
  ASSUME IInv, NEW kind, NEW ts \in Stamp, NEW warning, ObserveAll(kind, ts, warning),
         UNCHANGED <<turns, openTurn, calls, skills>>, SegmentsOK'
  PROVE  Moves
<1>1. SeenOK' /\ clock' # None
  BY Observed
<1> QED
  BY <1>1, TurnsStay, ToolsStay, HooksStay, SkillsStay, OpenStay DEF Moves, calls

LEMMA ModeEventMoves ==
  ASSUME IInv, NEW ts \in Stamp,
         (\E m \in Mode : ModeChanged(ts, m)) \/ ModelChange(ts)
  PROVE  Moves
<1>1. CASE ModelChange(ts)
  <2>1. SegmentsOK'
    BY <1>1, SegmentsEnd DEF ModelChange
  <2> QED
    BY <1>1, <2>1, PlainEventMoves DEF ModelChange, Observe
<1>2. ASSUME NEW m \in Mode, ModeChanged(ts, m) PROVE Moves
  <2>1. phase' # "done"
    BY <1>2, Observed DEF ModeChanged, Observe
  <2>2. SegmentsOK'
    BY <1>2, <2>1, SegmentsGrow DEF ModeChanged
  <2> QED
    BY <1>2, <2>2, PlainEventMoves DEF ModeChanged, Observe
<1> QED
  BY <1>1, <1>2

LEMMA OtherEventMoves ==
  ASSUME IInv, NEW ts \in Stamp,
         \/ AbortNothing(ts)
         \/ \E u \in Usage : Shutdown(ts, u)
         \/ \E announced \in SUBSET McpTool : OtherEvent(ts, announced)
  PROVE  Moves
<1>1. PICK kind, warning : ObserveAll(kind, ts, warning)
  BY DEF AbortNothing, Shutdown, OtherEvent, Observe
<1>2. UNCHANGED <<turns, openTurn, calls, skills, segments, mode>>
  BY DEF AbortNothing, Shutdown, OtherEvent
<1>3. SegmentsOK'
  BY <1>1, <1>2, Observed, SegmentsStay
<1> QED
  BY <1>1, <1>2, <1>3, PlainEventMoves

(* Events that start or end a call leave the segments alone.               *)
LEMMA CallEventMoves ==
  ASSUME IInv, NEW kind, NEW ts \in Stamp, NEW warning, ObserveAll(kind, ts, warning),
         TurnsMove, ToolsMove, HooksMove, SkillsOK',
         openTools' \in Seq(OpenTool), openHooks' \in Seq(OpenHook), UNCHANGED <<segments, mode>>
  PROVE  Moves
<1>1. SeenOK' /\ clock' # None /\ phase' # "done"
  BY Observed
<1>2. OpenOK'
  BY <1>1 DEF OpenOK
<1> QED
  BY <1>1, <1>2, SegmentsStay DEF Moves

LEMMA ToolStartMoves ==
  ASSUME IInv, NEW ts \in Stamp, NEW name \in ToolName, NEW id \in CallId \cup {None},
         ToolStart(ts, name, id)
  PROVE  Moves
<1> DEFINE o == [name |-> name, at |-> ts, turn |-> openTurn, id |-> id,
                 requested |-> id \in requested, opened |-> Now]
<1>1. openTools \in Seq(OpenTool) /\ openHooks \in Seq(OpenHook) /\ openTurn \in Nat /\ Now \in Nat
  BY LenProperties DEF IInv, OpenOK, TurnsOK, SeenOK, Now
<1>2. o \in OpenTool
  BY <1>1 DEF OpenTool
<1>3. openTools' = Append(openTools, o)
  BY DEF ToolStart
<1> HIDE DEF o
<1>4. openTools' \in Seq(OpenTool) /\ openHooks' \in Seq(OpenHook)
  BY <1>1, <1>2, <1>3, AppendProperties DEF ToolStart
<1> QED
  BY <1>4, CallEventMoves, TurnsStay, ToolsStay, HooksStay, SkillsStay DEF ToolStart, Observe

LEMMA UserRequestedMoves ==
  ASSUME IInv, NEW ts \in Stamp, NEW id \in CallId \cup {None}, UserRequested(ts, id)
  PROVE  Moves
<1> DEFINE matching == {k \in DOMAIN openTools : id = None \/ openTools[k].id = id}
           newest == CHOOSE k \in matching : \A j \in matching : j <= k
<1>1. openTools \in Seq(OpenTool) /\ openHooks \in Seq(OpenHook)
  BY DEF IInv, OpenOK
<1>2. ASSUME NEW k PROVE [openTools EXCEPT ![k].requested = TRUE] \in Seq(OpenTool)
  <2> DEFINE new == [openTools[k] EXCEPT !.requested = TRUE]
             out == [openTools EXCEPT ![k] = new]
  <2>1. DOMAIN openTools = 1..Len(openTools) /\ Len(openTools) \in Nat
        /\ \A i \in 1..Len(openTools) : openTools[i] \in OpenTool
    BY <1>1, LenProperties, ElementOfSeq
  <2>2. k \in 1..Len(openTools) => new \in OpenTool
    BY <2>1 DEF OpenTool
  <2> HIDE DEF new
  <2>3. out \in [1..Len(openTools) -> OpenTool]
    BY <2>1, <2>2
  <2> QED
    BY <2>1, <2>3 DEF new
<1>3. openTools' = openTools \/ openTools' = [openTools EXCEPT ![newest].requested = TRUE]
  BY DEF UserRequested
<1> HIDE DEF newest
<1>4. openTools' \in Seq(OpenTool)
  BY <1>1, <1>2, <1>3
<1>5. openTools' \in Seq(OpenTool) /\ openHooks' \in Seq(OpenHook)
  BY <1>1, <1>4 DEF UserRequested
<1>6. /\ ObserveAll("UserRequested", ts, "none")
      /\ UNCHANGED <<turns, openTurn, tools, hooks, skills, segments, mode>>
  BY DEF UserRequested, Observe
<1>7. TurnsMove /\ ToolsMove /\ HooksMove /\ SkillsOK'
  BY <1>6, TurnsStay, ToolsStay, HooksStay, SkillsStay
<1> QED
  BY <1>5, <1>6, <1>7, CallEventMoves

LEMMA HookStartMoves ==
  ASSUME IInv, NEW ts \in Stamp, NEW name \in HookName, HookStart(ts, name) PROVE Moves
<1> DEFINE o == [name |-> name, at |-> ts, turn |-> openTurn, opened |-> Now]
<1>1. openTools \in Seq(OpenTool) /\ openHooks \in Seq(OpenHook) /\ openTurn \in Nat /\ Now \in Nat
  BY LenProperties DEF IInv, OpenOK, TurnsOK, SeenOK, Now
<1>2. o \in OpenHook
  BY <1>1 DEF OpenHook
<1>3. openHooks' = Append(openHooks, o)
  BY DEF HookStart
<1> HIDE DEF o
<1>4. openTools' \in Seq(OpenTool) /\ openHooks' \in Seq(OpenHook)
  BY <1>1, <1>2, <1>3, AppendProperties DEF HookStart
<1> QED
  BY <1>4, CallEventMoves, TurnsStay, ToolsStay, HooksStay, SkillsStay DEF HookStart, Observe

(* What ends a call: the entry it pops is typed.                           *)
LEMMA ToolEntry ==
  ASSUME IInv, NEW o \in OpenTool, NEW ts \in Stamp, NEW status \in Status,
         NEW id \in CallId \cup {None},
         CommitTool(o.name, ToolCall(o, ts, status, id)), UNCHANGED <<openTurn, hooks>>
  PROVE  TurnsMove /\ ToolsMove /\ HooksMove /\ SkillsOK'
<1>1. ToolCall(o, ts, status, id) \in ToolRecord
  BY ToolCallTyped DEF OpenTool
<1>2. o.name \in ToolNames
  BY DEF OpenTool, ToolNames
<1> QED
  BY <1>1, <1>2, CommitToolMoves, HooksStay

LEMMA HookEntry ==
  ASSUME IInv, NEW o \in OpenHook, NEW ts \in Stamp,
         CommitHook(o.name, HookCall(o, ts, FALSE)), UNCHANGED <<openTurn, tools, skills>>
  PROVE  TurnsMove /\ ToolsMove /\ HooksMove /\ SkillsOK'
<1>1. HookCall(o, ts, FALSE) \in HookRecord
  BY HookCallTyped DEF OpenHook
<1>2. o.name \in HookName
  BY DEF OpenHook
<1> QED
  BY <1>1, <1>2, CommitHookMoves, ToolsStay, SkillsStay

LEMMA ToolCompleteMoves ==
  ASSUME IInv, NEW ts \in Stamp, NEW id \in CallId \cup {None}, NEW outcome \in Outcomes,
         ToolComplete(ts, id, outcome)
  PROVE  Moves
<1> DEFINE o == Last(openTools)
<1>1. openTools \in Seq(OpenTool) /\ openHooks \in Seq(OpenHook) /\ openTurn \in Nat /\ Now \in Nat
  BY LenProperties DEF IInv, OpenOK, TurnsOK, SeenOK, Now
<1>2. UNCHANGED <<openTurn, openHooks, hooks, segments, mode>>
  BY DEF ToolComplete
<1>3. PICK warning : ObserveAll("ToolComplete", ts, warning)
  BY DEF ToolComplete, Observe
<1>4. CASE openTools # <<>>
  <2>1. o \in OpenTool /\ Front(openTools) \in Seq(OpenTool)
    BY <1>1, <1>4, EntryEnds
  <2>2. /\ CommitTool(o.name, ToolCall(o, ts, outcome, IF id # None THEN id ELSE o.id))
        /\ openTools' = Front(openTools)
    BY <1>4 DEF ToolComplete
  <2>3. outcome \in Status /\ (IF id # None THEN id ELSE o.id) \in CallId \cup {None}
    BY <2>1 DEF Status, OpenTool
  <2> HIDE DEF o
  <2>4. TurnsMove /\ ToolsMove /\ HooksMove /\ SkillsOK'
    BY <1>2, <2>1, <2>2, <2>3, ToolEntry
  <2> QED
    BY <1>1, <1>2, <1>3, <2>1, <2>2, <2>4, CallEventMoves
<1>5. CASE openTools = <<>>
  <2> DEFINE orphan == [at |-> ts, turn |-> openTurn, id |-> None, requested |-> FALSE, opened |-> Now]
  <2>1. CommitTool(OrphanName, ToolCall(orphan, ts, "orphan", id)) /\ openTools' = openTools
    BY <1>5 DEF ToolComplete
  <2>2. orphan.at \in Stamp /\ orphan.turn \in Nat /\ orphan.requested \in BOOLEAN /\ orphan.opened \in Nat
    BY <1>1
  <2> HIDE DEF orphan
  <2>3. ToolCall(orphan, ts, "orphan", id) \in ToolRecord
    BY <2>2, ToolCallTyped DEF Status
  <2>4. TurnsMove /\ ToolsMove /\ SkillsOK'
    BY <1>2, <2>1, <2>3, CommitToolMoves DEF ToolNames
  <2> QED
    BY <1>1, <1>2, <1>3, <2>1, <2>4, CallEventMoves, HooksStay
<1> QED
  BY <1>4, <1>5

LEMMA HookEndMoves ==
  ASSUME IInv, NEW ts \in Stamp, NEW name \in HookName, HookEnd(ts, name) PROVE Moves
<1> DEFINE o == Last(openHooks)
<1>1. openTools \in Seq(OpenTool) /\ openHooks \in Seq(OpenHook) /\ openTurn \in Nat /\ Now \in Nat
  BY LenProperties DEF IInv, OpenOK, TurnsOK, SeenOK, Now
<1>2. UNCHANGED <<openTurn, openTools, tools, skills, segments, mode>>
  BY DEF HookEnd
<1>3. PICK warning : ObserveAll("HookEnd", ts, warning)
  BY DEF HookEnd, Observe
<1>4. CASE openHooks # <<>>
  <2>1. o \in OpenHook /\ Front(openHooks) \in Seq(OpenHook)
    BY <1>1, <1>4, EntryEnds
  <2>2. CommitHook(o.name, HookCall(o, ts, FALSE)) /\ openHooks' = Front(openHooks)
    BY <1>4 DEF HookEnd
  <2> HIDE DEF o
  <2>3. TurnsMove /\ ToolsMove /\ HooksMove /\ SkillsOK'
    BY <1>2, <2>1, <2>2, HookEntry
  <2> QED
    BY <1>1, <1>2, <1>3, <2>1, <2>2, <2>3, CallEventMoves
<1>5. CASE openHooks = <<>>
  <2> DEFINE orphan == [at |-> ts, turn |-> openTurn, opened |-> Now]
  <2>1. CommitHook(name, HookCall(orphan, ts, TRUE)) /\ openHooks' = openHooks
    BY <1>5 DEF HookEnd
  <2>2. orphan.at \in Stamp /\ orphan.turn \in Nat /\ orphan.opened \in Nat
    BY <1>1
  <2> HIDE DEF orphan
  <2>3. HookCall(orphan, ts, TRUE) \in HookRecord
    BY <2>2, HookCallTyped
  <2>4. TurnsMove /\ HooksMove
    BY <1>2, <2>1, <2>3, CommitHookMoves
  <2> QED
    BY <1>1, <1>2, <1>3, <2>1, <2>4, CallEventMoves, ToolsStay, SkillsStay
<1> QED
  BY <1>4, <1>5

LEMMA AbortCallMoves ==
  ASSUME IInv, NEW ts \in Stamp, AbortTool(ts) \/ AbortHook(ts) PROVE Moves
<1>1. openTools \in Seq(OpenTool) /\ openHooks \in Seq(OpenHook)
  BY DEF IInv, OpenOK
<1>2. ObserveAll("Abort", ts, "none") /\ UNCHANGED <<openTurn, segments, mode>>
  BY DEF AbortTool, AbortHook, Observe
<1>3. CASE AbortTool(ts)
  <2> DEFINE o == Last(openTools)
  <2>0. o \in OpenTool /\ Front(openTools) \in Seq(OpenTool)
    BY <1>1, <1>3, EntryEnds DEF AbortTool
  <2>1. o \in OpenTool /\ o.id \in CallId \cup {None} /\ Front(openTools) \in Seq(OpenTool)
    BY <2>0 DEF OpenTool
  <2>2. /\ CommitTool(o.name, ToolCall(o, ts, "aborted", o.id)) /\ openTools' = Front(openTools)
        /\ UNCHANGED <<openHooks, hooks>>
    BY <1>3 DEF AbortTool
  <2> HIDE DEF o
  <2>3. TurnsMove /\ ToolsMove /\ HooksMove /\ SkillsOK'
    BY <1>2, <2>1, <2>2, ToolEntry DEF Status
  <2> QED
    BY <1>1, <1>2, <2>1, <2>2, <2>3, CallEventMoves
<1>4. CASE AbortHook(ts)
  <2> DEFINE o == Last(openHooks)
  <2>1. o \in OpenHook /\ Front(openHooks) \in Seq(OpenHook)
    BY <1>1, <1>4, EntryEnds DEF AbortHook
  <2>2. /\ CommitHook(o.name, HookCall(o, ts, FALSE)) /\ openHooks' = Front(openHooks)
        /\ UNCHANGED <<openTools, tools, skills>>
    BY <1>4 DEF AbortHook
  <2> HIDE DEF o
  <2>3. TurnsMove /\ ToolsMove /\ HooksMove /\ SkillsOK'
    BY <1>2, <2>1, <2>2, HookEntry
  <2> QED
    BY <1>1, <1>2, <2>1, <2>2, <2>3, CallEventMoves
<1> QED
  BY <1>3, <1>4

-----------------------------------------------------------------------------
(* finalize: what is open is closed by the last event's time.              *)
LEMMA CloseMoves == ASSUME IInv, CloseOpenTool \/ CloseOpenHook PROVE Moves
<1>1. openTools \in Seq(OpenTool) /\ openHooks \in Seq(OpenHook) /\ clock \in Stamp
  BY DEF IInv, OpenOK, SeenOK, CloseOpenTool, CloseOpenHook
<1>2. UNCHANGED <<seen, clock, openTurn, segments, mode, phase>> /\ phase = "finalizing"
  BY DEF CloseOpenTool, CloseOpenHook
<1>3. SeenOK' /\ SegmentsOK'
  BY <1>2, SegmentsStay DEF IInv, SeenOK
<1>4. clock' # None
  BY <1>1, <1>2, ConstantsAssumption
<1>5. CASE CloseOpenTool
  <2> DEFINE o == Head(openTools)
  <2>0. o \in OpenTool /\ Tail(openTools) \in Seq(OpenTool)
    BY <1>1, <1>5, EntryEnds DEF CloseOpenTool
  <2>1. o.id \in CallId \cup {None}
    BY <2>0 DEF OpenTool
  <2>2. /\ CommitTool(o.name, ToolCall(o, clock, "open", o.id)) /\ openTools' = Tail(openTools)
        /\ UNCHANGED <<openHooks, hooks>>
    BY <1>5 DEF CloseOpenTool
  <2> HIDE DEF o
  <2>3. TurnsMove /\ ToolsMove /\ HooksMove /\ SkillsOK'
    BY <1>1, <1>2, <2>0, <2>1, <2>2, ToolEntry DEF Status
  <2>4. OpenOK'
    BY <1>1, <1>4, <2>0, <2>2 DEF OpenOK
  <2> QED
    BY <1>3, <2>3, <2>4 DEF Moves
<1>6. CASE CloseOpenHook
  <2> DEFINE o == Head(openHooks)
  <2>1. o \in OpenHook /\ Tail(openHooks) \in Seq(OpenHook)
    BY <1>1, <1>6, EntryEnds DEF CloseOpenHook
  <2>2. /\ CommitHook(o.name, HookCall(o, clock, FALSE)) /\ openHooks' = Tail(openHooks)
        /\ UNCHANGED <<openTools, tools, skills>>
    BY <1>6 DEF CloseOpenHook
  <2> HIDE DEF o
  <2>3. TurnsMove /\ ToolsMove /\ HooksMove /\ SkillsOK'
    BY <1>1, <1>2, <2>1, <2>2, HookEntry
  <2>4. OpenOK'
    BY <1>1, <1>4, <2>1, <2>2 DEF OpenOK
  <2> QED
    BY <1>3, <2>3, <2>4 DEF Moves
<1> QED
  BY <1>5, <1>6

(* A session that had an event has a clock to end the last segment by;     *)
(* one without events keeps its first segment open.                        *)
LEMMA FinishMoves == ASSUME IInv, Finish PROVE Moves
<1>1. /\ UNCHANGED <<seen, clock, turns, openTurn, calls, skills, mode>>
      /\ segments' = IF Last(segments).to = None THEN Ended(clock) ELSE segments
  BY DEF Finish
<1>2. SeenOK' /\ TurnsMove /\ OpenOK' /\ ToolsMove /\ HooksMove /\ SkillsOK'
  BY <1>1, TurnsStay, ToolsStay, HooksStay, SkillsStay, OpenStay DEF calls, IInv, SeenOK
<1>3. CASE clock \in Stamp /\ Last(segments).to = None
  <2>1. SegmentsOK'
    BY <1>1, <1>3, SegmentsEnd
  <2> QED
    BY <1>2, <2>1 DEF Moves
<1>4. CASE Last(segments).to # None
  <2>1. SegmentsOK'
    BY <1>1, <1>4 DEF IInv, SegmentsOK, SegmentsAreContiguous
  <2> QED
    BY <1>2, <2>1 DEF Moves
<1>5. CASE clock = None /\ Last(segments).to = None
  <2> DEFINE s == segments[Len(segments)]
  <2>1. segments \in Seq(Segment) /\ Len(segments) \in 1..Len(segments) /\ s.to = None
    BY <1>5, EmptySeq DEF IInv, SegmentsOK, Last
  <2>2. s \in Segment
    BY <2>1, ElementOfSeq
  <2>3. [s EXCEPT !.to = clock] = s
    BY <1>5, <2>1, <2>2 DEF Segment
  <2>4. segments' = [segments EXCEPT ![Len(segments)] = s]
    BY <1>1, <1>5, <2>3 DEF Ended
  <2>5. segments' = segments
    BY <2>1, <2>2, <2>4, ExceptSeq, SeqEqual
  <2>6. seen = <<>>
    BY <1>5 DEF IInv, SeenOK
  <2>7. SegmentsOK'
    BY <1>1, <2>5, <2>6 DEF IInv, SegmentsOK, SegmentsAreContiguous
  <2> QED
    BY <1>2, <2>7 DEF Moves
<1> QED
  BY <1>3, <1>4, <1>5 DEF IInv, SeenOK

LEMMA EndOfEventsMoves == ASSUME IInv, EndOfEvents PROVE Moves
<1>1. UNCHANGED <<seen, clock, turns, calls, skills, segments, mode>> /\ openTurn' = NoTurn
      /\ phase' = "finalizing"
  BY DEF EndOfEvents
<1>2. SeenOK' /\ OpenOK' /\ ToolsMove /\ HooksMove /\ SkillsOK' /\ SegmentsOK'
  BY <1>1, ToolsStay, HooksStay, SkillsStay, SegmentsStay, OpenStay DEF calls, IInv, SeenOK
<1>3. TurnsMove
  BY <1>1, LenProperties DEF IInv, TurnsOK, TurnsMove, Kept, NoTurn
<1> QED
  BY <1>2, <1>3 DEF Moves

LEMMA StutterMoves == ASSUME IInv, UNCHANGED vars PROVE Moves
<1>1. UNCHANGED <<seen, clock, turns, openTurn, calls, skills, segments, mode, phase>>
  BY DEF vars
<1>2. SeenOK' /\ OpenOK'
  BY <1>1, OpenStay DEF calls, IInv, SeenOK
<1>3. SegmentsOK'
  BY <1>1 DEF IInv, SegmentsOK, SegmentsAreContiguous
<1> QED
  BY <1>1, <1>2, <1>3, TurnsStay, ToolsStay, HooksStay, SkillsStay DEF Moves, calls

(* Every step is a move.                                                   *)
LEMMA StepMoves == ASSUME IInv, [Next]_vars PROVE Moves
<1>1. ASSUME NEW ts \in Stamp, HandleEvent(ts) PROVE Moves
  <2>1. CASE TurnStart(ts) \/ TurnEnd(ts) \/ AbortTurn(ts)
    BY <2>1, TurnStartMoves, TurnEndMoves, AbortTurnMoves
  <2>2. ASSUME NEW n \in ToolName, NEW id \in CallId \cup {None}, ToolStart(ts, n, id) PROVE Moves
    BY <2>2, ToolStartMoves
  <2>3. ASSUME NEW id \in CallId \cup {None}, NEW outcome \in Outcomes, ToolComplete(ts, id, outcome)
        PROVE  Moves
    BY <2>3, ToolCompleteMoves
  <2>4. ASSUME NEW id \in CallId \cup {None}, UserRequested(ts, id) PROVE Moves
    BY <2>4, UserRequestedMoves
  <2>5. ASSUME NEW n \in HookName, HookStart(ts, n) \/ HookEnd(ts, n) PROVE Moves
    BY <2>5, HookStartMoves, HookEndMoves
  <2>6. ASSUME NEW n \in SkillName, SkillInvoked(ts, n) PROVE Moves
    BY <2>6, SkillInvokedMoves
  <2>7. CASE (\E m \in Mode : ModeChanged(ts, m)) \/ ModelChange(ts)
    BY <2>7, ModeEventMoves
  <2>8. CASE AbortTool(ts) \/ AbortHook(ts)
    BY <2>8, AbortCallMoves
  <2>9. ASSUME NEW m \in Model, NEW n \in Tokens, AssistantMessage(ts, m, n) PROVE Moves
    BY <2>9, AssistantMessageMoves
  <2>10. CASE \/ AbortNothing(ts)
              \/ \E u \in Usage : Shutdown(ts, u)
              \/ \E announced \in SUBSET McpTool : OtherEvent(ts, announced)
    BY <2>10, OtherEventMoves
  <2> QED
    BY <1>1, <2>1, <2>2, <2>3, <2>4, <2>5, <2>6, <2>7, <2>8, <2>9, <2>10 DEF HandleEvent
<1>2. CASE Finalize
  BY <1>2, EndOfEventsMoves, CloseMoves, FinishMoves DEF Finalize
<1>3. CASE Done \/ UNCHANGED vars
  BY <1>3, StutterMoves DEF Done
<1> QED
  BY <1>1, <1>2, <1>3 DEF Next

LEMMA MovesKeepInv == Moves => IInv'
  BY DEF Moves, TurnsMove, ToolsMove, HooksMove, IInv

(* The names and lengths a step reads stay in their types.                 *)
LEMMA Invariance == Spec => []IInv
<1>1. IInv /\ [Next]_vars => IInv'
  BY StepMoves, MovesKeepInv
<1> QED
  BY InitInv, <1>1, PTL DEF Spec

-----------------------------------------------------------------------------
(* However the clocks of the events go back, no recorded tool or hook call *)
(* runs backwards, and the mode segments tile the session: each begins     *)
(* where the one before it ends, and once the derivation is done only a    *)
(* session without events has one that never ended (finalize).             *)
THEOREM TimesStaySound == Spec => []TimesAreSound
<1>1. IInv => TimesAreSound
  <2> SUFFICES ASSUME IInv PROVE SpansRunForward
    BY DEF IInv, SegmentsOK, TimesAreSound
  <2>1. ASSUME NEW r \in ToolRefs PROVE ToolAt(r).from <= ToolAt(r).to
    <3>1. PICK n \in ToolNames : \E i \in DOMAIN tools[n] : r = [name |-> n, index |-> i]
      BY DEF ToolRefs, IInv, ToolsOK
    <3>2. PICK i \in DOMAIN tools[n] : r = [name |-> n, index |-> i]
      BY <3>1
    <3>3. tools[n] \in Seq(ToolRecord)
      BY DEF IInv, ToolsOK
    <3>4. tools[n][i] \in ToolRecord
      BY <3>2, <3>3, LenProperties, ElementOfSeq
    <3> QED
      BY <3>2, <3>4 DEF ToolAt, ToolRecord, Forward
  <2>2. ASSUME NEW r \in HookRefs PROVE HookAt(r).from <= HookAt(r).to
    <3>1. PICK n \in HookName : \E i \in DOMAIN hooks[n] : r = [name |-> n, index |-> i]
      BY DEF HookRefs, IInv, HooksOK
    <3>2. PICK i \in DOMAIN hooks[n] : r = [name |-> n, index |-> i]
      BY <3>1
    <3>3. hooks[n] \in Seq(HookRecord)
      BY DEF IInv, HooksOK
    <3>4. hooks[n][i] \in HookRecord
      BY <3>2, <3>3, LenProperties, ElementOfSeq
    <3> QED
      BY <3>2, <3>4 DEF HookAt, HookRecord, Forward
  <2> QED
    BY <2>1, <2>2 DEF SpansRunForward
<1> QED
  BY Invariance, <1>1, PTL

(* Whatever event comes next, also while finalize closes what was left     *)
(* open, the calls already recorded stay as and where they are, a finished *)
(* turn keeps its status and tokens, and a turn the mode it began in.      *)
THEOREM CommittedStays == Spec => CommittedIsFinal
<1>1. IInv /\ [Next]_vars =>
        [/\ \A n \in DOMAIN tools : IsPrefix(tools[n], tools'[n])
         /\ \A n \in DOMAIN hooks : IsPrefix(hooks[n], hooks'[n])
         /\ \A t \in DOMAIN turns : Kept(t)
         /\ Len(turns') > Len(turns) => Last(turns').mode \in {mode, None}]_vars
  BY StepMoves DEF Moves, TurnsMove, ToolsMove, HooksMove
<1> QED
  BY Invariance, <1>1, PTL DEF Spec, CommittedIsFinal

-----------------------------------------------------------------------------
(* What the counting of events rests on.  The calls of a name are reached  *)
(* by references; a reference is added by a commit and never removed.      *)
Refs(c) == UNION {{[name |-> n, index |-> i] : i \in DOMAIN c[n]} : n \in DOMAIN c}
At(c, r) == c[r.name][r.index]
Added(c, d, new, e) ==
  /\ new \notin Refs(c) /\ Refs(d) = Refs(c) \cup {new} /\ At(d, new) = e
  /\ \A r \in Refs(c) : At(d, r) = At(c, r)

Real(c) == {r \in Refs(c) : At(c, r).status # "orphan"}
Orphans(c) == {r \in Refs(c) : At(c, r).status = "orphan"}
LeftOpen(c) == {r \in Refs(c) : At(c, r).status = "open"}
RealHooks(c) == {r \in Refs(c) : ~At(c, r).synthesized}
MadeUp(c) == {r \in Refs(c) : At(c, r).synthesized}
Late(c, n) == {r \in Refs(c) : At(c, r).closed > n}
OfTurn(c, t) == {r \in Refs(c) : At(c, r).turn = t}

(* Starts and ends against the calls: n events were read.                  *)
OpenedBy(open) == {open[k].opened : k \in DOMAIN open}
Distinct(open) == \A j, k \in DOMAIN open : open[j].opened = open[k].opened => j = k
Counted(open, c, real, n, starts, ends) ==
  /\ Distinct(open) /\ OpenedBy(open) \subseteq 1..n
  /\ real \subseteq Refs(c)
  /\ \A r \in Refs(c) : /\ At(c, r).opened \in 1..n
                        /\ At(c, r).opened \notin OpenedBy(open)
  /\ \A r, q \in Refs(c) : At(c, r).opened = At(c, q).opened => r = q
  /\ starts = OpenedBy(open) \cup {At(c, r).opened : r \in real}
  /\ \A i \in ends : \E r \in Refs(c) : At(c, r).closed = i

ToolsCounted == Counted(openTools, tools, Real(tools), Len(seen),
                        Positions("ToolStart"), Positions("ToolComplete"))
HooksCounted == Counted(openHooks, hooks, RealHooks(hooks), Len(seen),
                        Positions("HookStart"), Positions("HookEnd"))

(* A list of a turn against the calls that began in it.                    *)
Listed(list, refs) == ToSet(list) = refs /\ IsFiniteSet(refs) /\ Len(list) = Cardinality(refs)
Began(open, c, n) == /\ \A k \in DOMAIN open : open[k].turn \in 0..n
                     /\ \A r \in Refs(c) : At(c, r).turn \in 0..n
ListedOK == /\ Began(openTools, tools, Len(turns)) /\ Began(openHooks, hooks, Len(turns))
            /\ \A t \in DOMAIN turns : /\ Listed(turns[t].tool_calls, OfTurn(tools, t))
                                       /\ Listed(turns[t].hook_calls, OfTurn(hooks, t))

(* The warnings against what was made up, lost or left open.               *)
MadeUpOK == /\ IsFiniteSet(Orphans(tools)) /\ IsFiniteSet(MadeUp(hooks))
            /\ warnings["synthesized"] + Cardinality(Positions("TurnStart")) =
                 Cardinality(Orphans(tools)) + Cardinality(MadeUp(hooks)) + Len(turns)
LeftOpenOK == /\ IsFiniteSet(LeftOpen(tools)) /\ IsFiniteSet(Late(hooks, Len(seen)))
              /\ warnings["open"] = Cardinality(LeftOpen(tools)) + Cardinality(Late(hooks, Len(seen)))
              /\ phase = "reading" => LeftOpen(tools) \cup Late(tools, Len(seen)) = {}
              /\ phase = "reading" => Late(hooks, Len(seen)) = {}
WarningsOK == /\ warnings \in [{"synthesized", "open", "abort", "order"} -> Nat]
              /\ aborts \in Nat /\ warnings["abort"] = aborts
              /\ phase = "done" => openTools = <<>> /\ openHooks = <<>>

(* A window is open as long as an event can still fall into it, and what   *)
(* fell into it was listed.                                                *)
WindowsOpen ==
  /\ \A w \in openSkills : /\ w \in [name : SkillName, index : Nat, left : 1..Window]
                           /\ w.index \in DOMAIN skills[w.name]
                           /\ w.left = Window - 1 - (Len(seen) - skills[w.name][w.index].opened)
  /\ \A n \in SkillName : \A i \in DOMAIN skills[n] :
       /\ skills[n][i].opened \in 1..Len(seen)
       /\ Len(seen) - skills[n][i].opened < Window - 1 => \E w \in openSkills : w.name = n /\ w.index = i
Within(c, from) == {r \in Refs(c) : At(c, r).closed - from \in 1..(Window - 1)}
TriggeredOK ==
  \A n \in SkillName : \A i \in DOMAIN skills[n] :
    ToSet(skills[n][i].triggered) = Within(tools, skills[n][i].opened)

(* The rest of what TypeOK says.                                           *)
BoundsOK == /\ Len(seen) <= MaxEvents
            /\ requested \subseteq CallId /\ declared \subseteq CallId
            /\ phase \in {"reading", "finalizing", "done"}

CInv == /\ ToolsCounted /\ HooksCounted /\ ListedOK /\ NoMarkerMissesItsCall
        /\ MadeUpOK /\ LeftOpenOK /\ WarningsOK /\ WindowsOpen /\ TriggeredOK /\ BoundsOK

-----------------------------------------------------------------------------
(* Lemmas about references, lists and counts                               *)

(* A commit adds one reference and leaves the others in place.             *)
LEMMA RefsAdded ==
  ASSUME NEW N, NEW R, NEW c \in [N -> Seq(R)], NEW n \in N, NEW e \in R,
         NEW d, d = [c EXCEPT ![n] = Append(@, e)]
  PROVE  Added(c, d, NextRef(c, n), e)
<1> DEFINE s == c[n]
           a == Append(s, e)
           new == [name |-> n, index |-> Len(s) + 1]
<1>1. s \in Seq(R) /\ Len(s) \in Nat /\ DOMAIN s = 1..Len(s)
  OBVIOUS
<1>2. /\ a \in Seq(R) /\ DOMAIN a = 1..(Len(s) + 1)
      /\ \A i \in 1..Len(s) : a[i] = s[i]
      /\ a[Len(s) + 1] = e
  BY <1>1, AppendProperties
<1>3. DOMAIN d = N /\ DOMAIN c = N /\ d[n] = a /\ \A m \in N : m # n => d[m] = c[m]
  OBVIOUS
<1>4. NextRef(c, n) = new
  BY DEF NextRef
<1>5. ASSUME NEW r PROVE r \in Refs(c) <=> \E m \in N : \E i \in DOMAIN c[m] : r = [name |-> m, index |-> i]
  BY <1>3 DEF Refs
<1>6. ASSUME NEW r PROVE r \in Refs(d) <=> \E m \in N : \E i \in DOMAIN d[m] : r = [name |-> m, index |-> i]
  BY <1>3 DEF Refs
<1> HIDE DEF s, a, new
<1>7. new.name = n /\ new.index = Len(s) + 1 /\ new = [name |-> n, index |-> Len(s) + 1]
  BY DEF new
<1>8. s = c[n]
  BY DEF s
<1>9. new \notin Refs(c)
  <2> SUFFICES ASSUME NEW m \in N, NEW i \in DOMAIN c[m], new = [name |-> m, index |-> i] PROVE FALSE
    BY <1>5
  <2>1. m = n /\ i = Len(s) + 1
    BY <1>7
  <2> QED
    BY <1>1, <1>8, <2>1
<1>10. At(d, new) = e
  BY <1>2, <1>3, <1>7 DEF At
<1>11. ASSUME NEW r \in Refs(c) PROVE At(d, r) = At(c, r) /\ r \in Refs(d)
  <2>1. PICK m \in N : \E i \in DOMAIN c[m] : r = [name |-> m, index |-> i]
    BY <1>5
  <2>2. PICK i \in DOMAIN c[m] : r = [name |-> m, index |-> i]
    BY <2>1
  <2>3. r.name = m /\ r.index = i
    BY <2>2
  <2>4. CASE m = n
    <3>1. i \in 1..Len(s) /\ i \in DOMAIN d[m] /\ d[m][i] = c[m][i]
      BY <1>1, <1>2, <1>3, <1>8, <2>4
    <3> QED
      BY <1>6, <2>2, <2>3, <3>1 DEF At
  <2>5. CASE m # n
    BY <1>3, <1>6, <2>2, <2>3, <2>5 DEF At
  <2> QED
    BY <2>4, <2>5
<1>12. new \in Refs(d)
  <2>1. Len(s) + 1 \in DOMAIN d[n]
    BY <1>1, <1>2, <1>3
  <2>2. \E i \in DOMAIN d[n] : new = [name |-> n, index |-> i]
    BY <1>7, <2>1
  <2> QED
    BY <1>6, <2>2
<1>13. ASSUME NEW r \in Refs(d), r # new PROVE r \in Refs(c)
  <2>1. PICK m \in N : \E i \in DOMAIN d[m] : r = [name |-> m, index |-> i]
    BY <1>6
  <2>2. PICK i \in DOMAIN d[m] : r = [name |-> m, index |-> i]
    BY <2>1
  <2>3. CASE m = n
    <3>1. i \in 1..(Len(s) + 1) /\ i # Len(s) + 1
      BY <1>2, <1>3, <1>7, <1>13, <2>2, <2>3
    <3>2. i \in DOMAIN c[m]
      BY <1>1, <1>8, <2>3, <3>1
    <3> QED
      BY <1>5, <2>2, <3>2
  <2>4. CASE m # n
    BY <1>3, <1>5, <2>2, <2>4
  <2> QED
    BY <2>3, <2>4
<1>14. Refs(d) = Refs(c) \cup {new}
  BY <1>11, <1>12, <1>13
<1> QED
  BY <1>4, <1>9, <1>10, <1>11, <1>14 DEF Added

(* What a commit adds to the calls of a turn, and to those of each kind.   *)
LEMMA AddedToTurn ==
  ASSUME NEW c, NEW d, NEW new, NEW e, Added(c, d, new, e), NEW t
  PROVE  OfTurn(d, t) = IF e.turn = t THEN OfTurn(c, t) \cup {new} ELSE OfTurn(c, t)
  BY DEF Added, OfTurn

LEMMA AddedTools ==
  ASSUME NEW c, NEW d, NEW new, NEW e, Added(c, d, new, e)
  PROVE  /\ Real(d) = IF e.status # "orphan" THEN Real(c) \cup {new} ELSE Real(c)
         /\ Orphans(d) = IF e.status = "orphan" THEN Orphans(c) \cup {new} ELSE Orphans(c)
         /\ LeftOpen(d) = IF e.status = "open" THEN LeftOpen(c) \cup {new} ELSE LeftOpen(c)
  BY DEF Added, Real, Orphans, LeftOpen

LEMMA AddedHooks ==
  ASSUME NEW c, NEW d, NEW new, NEW e, Added(c, d, new, e)
  PROVE  /\ RealHooks(d) = IF ~e.synthesized THEN RealHooks(c) \cup {new} ELSE RealHooks(c)
         /\ MadeUp(d) = IF e.synthesized THEN MadeUp(c) \cup {new} ELSE MadeUp(c)
         /\ \A n : Late(d, n) = IF e.closed > n THEN Late(c, n) \cup {new} ELSE Late(c, n)
<1>1. RealHooks(d) = IF ~e.synthesized THEN RealHooks(c) \cup {new} ELSE RealHooks(c)
  BY DEF Added, RealHooks
<1>2. MadeUp(d) = IF e.synthesized THEN MadeUp(c) \cup {new} ELSE MadeUp(c)
  BY DEF Added, MadeUp
<1>3. ASSUME NEW n PROVE Late(d, n) = IF e.closed > n THEN Late(c, n) \cup {new} ELSE Late(c, n)
  BY DEF Added, Late
<1> QED
  BY <1>1, <1>2, <1>3

(* One more in a finite set.                                               *)
LEMMA OneMore ==
  ASSUME NEW S, NEW x, IsFiniteSet(S), x \notin S
  PROVE  /\ IsFiniteSet(S \cup {x}) /\ Cardinality(S) \in Nat
         /\ Cardinality(S \cup {x}) = Cardinality(S) + 1
  BY FS_AddElement, FS_CardinalityType

LEMMA AppendedSet ==
  ASSUME NEW R, NEW s \in Seq(R), NEW new \in R
  PROVE  ToSet(Append(s, new)) = ToSet(s) \cup {new}
<1> DEFINE a == Append(s, new)
<1>1. /\ \A i \in 1..Len(s) : a[i] = s[i]
      /\ a[Len(s) + 1] = new
      /\ Len(s) \in Nat /\ DOMAIN s = 1..Len(s) /\ DOMAIN a = 1..(Len(s) + 1)
  BY AppendProperties, LenProperties
<1> HIDE DEF a
<1>2. ASSUME NEW x \in ToSet(a) PROVE x \in ToSet(s) \cup {new}
  BY <1>1 DEF ToSet
<1>3. ASSUME NEW x \in ToSet(s) PROVE x \in ToSet(a)
  BY <1>1 DEF ToSet
<1>4. new \in ToSet(a)
  BY <1>1 DEF ToSet
<1> QED
  BY <1>2, <1>3, <1>4 DEF a

(* A list that gets a new reference lists one call more.                   *)
LEMMA ListedMore ==
  ASSUME NEW R, NEW s \in Seq(R), NEW refs, Listed(s, refs), NEW new \in R, new \notin refs
  PROVE  Listed(Append(s, new), refs \cup {new})
<1>1. Len(Append(s, new)) = Len(s) + 1
  BY AppendProperties
<1> QED
  BY <1>1, AppendedSet, OneMore DEF Listed

-----------------------------------------------------------------------------
(* Counting                                                                *)

(* What is open without the entry o.                                       *)
Takes(open, rest, o) == /\ OpenedBy(rest) = OpenedBy(open) \ {o.opened}
                        /\ o.opened \in OpenedBy(open)
                        /\ Distinct(rest)

LEMMA FrontTakes ==
  ASSUME NEW S, NEW s \in Seq(S), s # <<>>, Distinct(s)
  PROVE  Takes(s, Front(s), Last(s))
<1>1. Len(s) \in Nat \ {0} /\ DOMAIN s = 1..Len(s)
  BY EmptySeq, LenProperties
<1>2. Front(s) \in Seq(S) /\ Len(Front(s)) = Len(s) - 1
      /\ \A i \in 1..(Len(s) - 1) : Front(s)[i] = s[i]
  <2>1. \A i \in 1..(Len(s) - 1) : s[i] \in S
    BY <1>1, ElementOfSeq
  <2> QED
    BY <1>1, <2>1, SubSeqProperties DEF Front
<1> DEFINE f == Front(s)
<1>3. DOMAIN f = 1..(Len(s) - 1) /\ \A i \in 1..(Len(s) - 1) : f[i] = s[i]
  BY <1>2, LenProperties
<1> HIDE DEF f
<1>4. Distinct(f)
  BY <1>1, <1>3 DEF Distinct
<1>5. \A i \in 1..(Len(s) - 1) : s[i].opened # s[Len(s)].opened
  BY <1>1 DEF Distinct
<1>6. OpenedBy(f) = OpenedBy(s) \ {s[Len(s)].opened}
  BY <1>1, <1>3, <1>5 DEF OpenedBy
<1>7. s[Len(s)].opened \in OpenedBy(s)
  BY <1>1 DEF OpenedBy
<1> QED
  BY <1>4, <1>6, <1>7 DEF f, Takes, Last

LEMMA TailTakes ==
  ASSUME NEW S, NEW s \in Seq(S), s # <<>>, Distinct(s)
  PROVE  Takes(s, Tail(s), Head(s))
<1>1. Len(s) \in Nat \ {0} /\ DOMAIN s = 1..Len(s) /\ Head(s) = s[1]
  BY EmptySeq, LenProperties
<1>2. Tail(s) \in Seq(S) /\ Len(Tail(s)) = Len(s) - 1
      /\ \A i \in 1..(Len(s) - 1) : Tail(s)[i] = s[i + 1]
  BY HeadTailProperties
<1> DEFINE f == Tail(s)
<1>3. DOMAIN f = 1..(Len(s) - 1) /\ \A i \in 1..(Len(s) - 1) : f[i] = s[i + 1]
  BY <1>2, LenProperties
<1> HIDE DEF f
<1>4. Distinct(f)
  BY <1>1, <1>3 DEF Distinct
<1>5. \A i \in 2..Len(s) : s[i].opened # s[1].opened
  BY <1>1 DEF Distinct
<1>6. OpenedBy(f) = OpenedBy(s) \ {s[1].opened}
  <2>1. ASSUME NEW x \in OpenedBy(f) PROVE x \in OpenedBy(s) \ {s[1].opened}
    <3>1. PICK i \in 1..(Len(s) - 1) : x = s[i + 1].opened
      BY <1>3 DEF OpenedBy
    <3> QED
      BY <1>1, <1>5, <3>1 DEF OpenedBy
  <2>2. ASSUME NEW x \in OpenedBy(s), x # s[1].opened PROVE x \in OpenedBy(f)
    <3>1. PICK i \in 1..Len(s) : x = s[i].opened
      BY <1>1 DEF OpenedBy
    <3>2. i - 1 \in 1..(Len(s) - 1) /\ f[i - 1] = s[i]
      BY <1>1, <1>3, <2>2, <3>1
    <3> QED
      BY <1>3, <3>1, <3>2 DEF OpenedBy
  <2> QED
    BY <2>1, <2>2
<1>7. s[1].opened \in OpenedBy(s)
  BY <1>1 DEF OpenedBy
<1> QED
  BY <1>1, <1>4, <1>6, <1>7 DEF f, Takes

LEMMA AppendOpens ==
  ASSUME NEW S, NEW s \in Seq(S), NEW o \in S, Distinct(s), o.opened \notin OpenedBy(s)
  PROVE  OpenedBy(Append(s, o)) = OpenedBy(s) \cup {o.opened} /\ Distinct(Append(s, o))
<1> DEFINE a == Append(s, o)
<1>1. /\ \A i \in 1..Len(s) : a[i] = s[i]
      /\ a[Len(s) + 1] = o
      /\ Len(s) \in Nat /\ DOMAIN s = 1..Len(s) /\ DOMAIN a = 1..(Len(s) + 1)
  BY AppendProperties, LenProperties
<1> HIDE DEF a
<1>2. ASSUME NEW x \in OpenedBy(a) PROVE x \in OpenedBy(s) \cup {o.opened}
  BY <1>1 DEF OpenedBy
<1>3. ASSUME NEW x \in OpenedBy(s) \cup {o.opened} PROVE x \in OpenedBy(a)
  BY <1>1 DEF OpenedBy
<1>4. Distinct(a)
  <2> SUFFICES ASSUME NEW j \in DOMAIN a, NEW k \in DOMAIN a, a[j].opened = a[k].opened PROVE j = k
    BY DEF Distinct
  <2>1. CASE j \in DOMAIN s /\ k \in DOMAIN s
    BY <1>1, <2>1 DEF Distinct
  <2>2. \A i \in DOMAIN s : a[i].opened \in OpenedBy(s)
    BY <1>1 DEF OpenedBy
  <2>3. j \in DOMAIN s \/ j = Len(s) + 1
    BY <1>1
  <2>4. k \in DOMAIN s \/ k = Len(s) + 1
    BY <1>1
  <2> QED
    BY <1>1, <2>1, <2>2, <2>3, <2>4
<1> QED
  BY <1>2, <1>3, <1>4 DEF a

(* An event that neither starts nor ends a call.                           *)
LEMMA CountedLater ==
  ASSUME NEW open, NEW c, NEW real, NEW n \in Nat, NEW starts, NEW ends,
         Counted(open, c, real, n, starts, ends),
         NEW same, OpenedBy(same) = OpenedBy(open), Distinct(same), NEW m \in Nat, n <= m
  PROVE  Counted(same, c, real, m, starts, ends)
<1>1. \A i \in 1..n : i \in 1..m
  OBVIOUS
<1> QED
  BY <1>1 DEF Counted

(* The n+1st event starts a call.                                          *)
LEMMA CountedStart ==
  ASSUME NEW S, NEW open \in Seq(S), NEW c, NEW real, NEW n \in Nat, NEW starts, NEW ends,
         Counted(open, c, real, n, starts, ends), NEW o \in S, o.opened = n + 1
  PROVE  Counted(Append(open, o), c, real, n + 1, starts \cup {n + 1}, ends)
<1>1. n + 1 \notin 1..n /\ (\A i \in 1..n : i \in 1..(n + 1)) /\ n + 1 \in 1..(n + 1)
  OBVIOUS
<1>2. OpenedBy(open) \subseteq 1..n /\ Distinct(open) /\ real \subseteq Refs(c)
      /\ starts = OpenedBy(open) \cup {At(c, r).opened : r \in real}
      /\ \A r \in Refs(c) : At(c, r).opened \in 1..n /\ At(c, r).opened \notin OpenedBy(open)
  BY DEF Counted
<1>3. OpenedBy(Append(open, o)) = OpenedBy(open) \cup {n + 1} /\ Distinct(Append(open, o))
  BY <1>1, <1>2, AppendOpens
<1>4. /\ \A r, q \in Refs(c) : At(c, r).opened = At(c, q).opened => r = q
      /\ \A i \in ends : \E r \in Refs(c) : At(c, r).closed = i
  BY DEF Counted
<1> DEFINE a == Append(open, o)
           real1 == {At(c, r).opened : r \in real}
<1>5. starts \cup {n + 1} = OpenedBy(a) \cup real1
  BY <1>2, <1>3
<1>6. \A r \in Refs(c) : At(c, r).opened \in 1..(n + 1) /\ At(c, r).opened \notin OpenedBy(a)
  BY <1>1, <1>2, <1>3
<1>7. OpenedBy(a) \subseteq 1..(n + 1)
  BY <1>1, <1>2, <1>3
<1> HIDE DEF a
<1> QED
  BY <1>2, <1>3, <1>4, <1>5, <1>6, <1>7 DEF Counted, a

(* An entry that is taken becomes a call.                                  *)
LEMMA CountedClose ==
  ASSUME NEW open, NEW rest, NEW c, NEW d, NEW real, NEW n \in Nat, NEW starts, NEW ends, NEW more,
         Counted(open, c, real, n, starts, ends),
         NEW o, Takes(open, rest, o), NEW new, NEW e, Added(c, d, new, e),
         e.opened = o.opened, more \subseteq ends \cup {e.closed}, NEW m \in Nat, n <= m
  PROVE  Counted(rest, d, real \cup {new}, m, starts, more)
<1>1. \A i \in 1..n : i \in 1..m
  OBVIOUS
<1>2. /\ OpenedBy(open) \subseteq 1..n /\ real \subseteq Refs(c)
      /\ starts = OpenedBy(open) \cup {At(c, r).opened : r \in real}
      /\ \A r \in Refs(c) : At(c, r).opened \in 1..n /\ At(c, r).opened \notin OpenedBy(open)
      /\ \A r, q \in Refs(c) : At(c, r).opened = At(c, q).opened => r = q
      /\ \A i \in ends : \E r \in Refs(c) : At(c, r).closed = i
  BY DEF Counted
<1>3. /\ OpenedBy(rest) = OpenedBy(open) \ {e.opened} /\ e.opened \in OpenedBy(open) /\ Distinct(rest)
  BY DEF Takes
<1>4. /\ new \notin Refs(c) /\ Refs(d) = Refs(c) \cup {new} /\ At(d, new) = e
      /\ \A r \in Refs(c) : At(d, r) = At(c, r)
  BY DEF Added
<1>5. {At(d, r).opened : r \in real \cup {new}} = {At(c, r).opened : r \in real} \cup {e.opened}
  BY <1>2, <1>4
<1>6. starts = OpenedBy(rest) \cup {At(d, r).opened : r \in real \cup {new}}
  BY <1>2, <1>3, <1>5
<1>7. ASSUME NEW r \in Refs(d) PROVE At(d, r).opened \in 1..m /\ At(d, r).opened \notin OpenedBy(rest)
  BY <1>1, <1>2, <1>3, <1>4
<1>8. ASSUME NEW r \in Refs(d), NEW q \in Refs(d), At(d, r).opened = At(d, q).opened PROVE r = q
  BY <1>2, <1>3, <1>4, <1>8
<1>9. ASSUME NEW i \in more PROVE \E r \in Refs(d) : At(d, r).closed = i
  <2>1. CASE i = e.closed
    BY <1>4, <2>1
  <2>2. CASE i \in ends
    BY <1>2, <1>4, <2>2
  <2> QED
    BY <2>1, <2>2
<1>10. OpenedBy(rest) \subseteq 1..m /\ real \cup {new} \subseteq Refs(d)
  BY <1>1, <1>2, <1>3, <1>4
<1> QED
  BY <1>3, <1>6, <1>7, <1>8, <1>9, <1>10 DEF Counted

(* The n+1st event ends a call that nothing started.                       *)
LEMMA CountedOrphan ==
  ASSUME NEW open, NEW c, NEW d, NEW real, NEW n \in Nat, NEW starts, NEW ends, NEW more,
         Counted(open, c, real, n, starts, ends),
         NEW new, NEW e, Added(c, d, new, e),
         e.opened = n + 1, more \subseteq ends \cup {e.closed}
  PROVE  Counted(open, d, real, n + 1, starts, more)
<1>1. n + 1 \notin 1..n /\ (\A i \in 1..n : i \in 1..(n + 1)) /\ n + 1 \in 1..(n + 1)
  OBVIOUS
<1>2. /\ OpenedBy(open) \subseteq 1..n /\ real \subseteq Refs(c) /\ Distinct(open)
      /\ starts = OpenedBy(open) \cup {At(c, r).opened : r \in real}
      /\ \A r \in Refs(c) : At(c, r).opened \in 1..n /\ At(c, r).opened \notin OpenedBy(open)
      /\ \A r, q \in Refs(c) : At(c, r).opened = At(c, q).opened => r = q
      /\ \A i \in ends : \E r \in Refs(c) : At(c, r).closed = i
  BY DEF Counted
<1>4. /\ new \notin Refs(c) /\ Refs(d) = Refs(c) \cup {new} /\ At(d, new) = e
      /\ \A r \in Refs(c) : At(d, r) = At(c, r)
  BY DEF Added
<1>5. {At(d, r).opened : r \in real} = {At(c, r).opened : r \in real}
  BY <1>2, <1>4
<1>7. ASSUME NEW r \in Refs(d) PROVE At(d, r).opened \in 1..(n + 1) /\ At(d, r).opened \notin OpenedBy(open)
  BY <1>1, <1>2, <1>4
<1>8. ASSUME NEW r \in Refs(d), NEW q \in Refs(d), At(d, r).opened = At(d, q).opened PROVE r = q
  BY <1>1, <1>2, <1>4, <1>8
<1>9. ASSUME NEW i \in more PROVE \E r \in Refs(d) : At(d, r).closed = i
  <2>1. CASE i = e.closed
    BY <1>4, <2>1
  <2>2. CASE i \in ends
    BY <1>2, <1>4, <2>2
  <2> QED
    BY <2>1, <2>2
<1>10. OpenedBy(open) \subseteq 1..(n + 1) /\ real \subseteq Refs(d)
  BY <1>1, <1>2, <1>4
<1> QED
  BY <1>2, <1>5, <1>7, <1>8, <1>9, <1>10 DEF Counted

-----------------------------------------------------------------------------
(* What an event adds to the stream, and what a commit adds to the calls   *)

LEMMA Reads ==
  ASSUME IInv, NEW kind, NEW ts, NEW warning, ObserveAll(kind, ts, warning)
  PROVE  /\ Len(seen) \in Nat /\ Now = Len(seen) + 1 /\ Len(seen') = Len(seen) + 1
         /\ \A k : Positions(k)' = IF k = kind THEN Positions(k) \cup {Now} ELSE Positions(k)
<1>1. seen \in Seq(Kinds) /\ seen' = Append(seen, kind) /\ kind \in Kinds
  BY DEF IInv, SeenOK, ObserveAll
<1> DEFINE n == Len(seen)
<1>2. /\ n \in Nat /\ DOMAIN seen = 1..n /\ DOMAIN seen' = 1..(n + 1) /\ Len(seen') = n + 1
      /\ \A i \in 1..n : seen'[i] = seen[i]
      /\ seen'[n + 1] = kind
  BY <1>1, AppendProperties, LenProperties
<1>3. ASSUME NEW k PROVE Positions(k)' = IF k = kind THEN Positions(k) \cup {n + 1} ELSE Positions(k)
  <2>1. \A i : i \in Positions(k)' <=> i \in 1..(n + 1) /\ seen'[i] = k
    BY <1>2 DEF Positions
  <2>2. \A i : i \in Positions(k) <=> i \in 1..n /\ seen[i] = k
    BY <1>2 DEF Positions
  <2>3. \A i : i \in 1..(n + 1) <=> i \in 1..n \/ i = n + 1
    BY <1>2
  <2> QED
    BY <1>2, <2>1, <2>2, <2>3
<1> QED
  BY <1>2, <1>3 DEF Now

LEMMA PositionsFinite ==
  ASSUME IInv, NEW k
  PROVE  /\ IsFiniteSet(Positions(k)) /\ Cardinality(Positions(k)) \in Nat
         /\ Positions(k) \subseteq 1..Len(seen)
<1>1. seen \in Seq(Kinds) /\ Len(seen) \in Nat /\ DOMAIN seen = 1..Len(seen)
  BY LenProperties DEF IInv, SeenOK
<1>2. Positions(k) \subseteq 1..Len(seen)
  BY <1>1 DEF Positions
<1>3. IsFiniteSet(1..Len(seen))
  BY <1>1, FS_Interval
<1>4. IsFiniteSet(Positions(k))
  BY <1>2, <1>3, FS_Subset
<1> QED
  BY <1>2, <1>4, FS_CardinalityType

LEMMA RefTyped ==
  ASSUME NEW N, NEW R, NEW c \in [N -> Seq(R)], NEW r \in Refs(c)
  PROVE  /\ r.name \in N /\ r.index \in DOMAIN c[r.name] /\ At(c, r) \in R
         /\ r = [name |-> r.name, index |-> r.index]
<1>1. PICK n \in N : \E i \in DOMAIN c[n] : r = [name |-> n, index |-> i]
  BY DEF Refs
<1>2. PICK i \in DOMAIN c[n] : r = [name |-> n, index |-> i]
  BY <1>1
<1>3. c[n] \in Seq(R) /\ i \in 1..Len(c[n])
  BY <1>2, LenProperties
<1>4. c[n][i] \in R
  BY <1>3, ElementOfSeq
<1> QED
  BY <1>2, <1>4 DEF At

(* commit_tool_call and commit_hook_call, in these terms.                  *)
LEMMA ToolCommitted ==
  ASSUME IInv, NEW name \in ToolNames, NEW e \in ToolRecord, CommitTool(name, e)
  PROVE  /\ Added(tools, tools', NextRef(tools, name), e)
         /\ NextRef(tools, name) \in Ref
         /\ skills' = Triggered(NextRef(tools, name))
         /\ turns' = Referenced(e.turn, "tool_calls", NextRef(tools, name))
<1>1. tools \in [ToolNames -> Seq(ToolRecord)] /\ tools[name] \in Seq(ToolRecord)
  BY DEF IInv, ToolsOK
<1>2. tools' = [tools EXCEPT ![name] = Append(@, e)]
  BY DEF CommitTool
<1>3. NextRef(tools, name) \in Ref
  BY <1>1, LenProperties DEF NextRef, Ref
<1> QED
  BY <1>1, <1>2, <1>3, RefsAdded DEF CommitTool

LEMMA HookCommitted ==
  ASSUME IInv, NEW name \in HookName, NEW e \in HookRecord, CommitHook(name, e)
  PROVE  /\ Added(hooks, hooks', NextRef(hooks, name), e)
         /\ NextRef(hooks, name) \in Ref
         /\ turns' = Referenced(e.turn, "hook_calls", NextRef(hooks, name))
<1>1. hooks \in [HookName -> Seq(HookRecord)] /\ hooks[name] \in Seq(HookRecord)
  BY DEF IInv, HooksOK
<1>2. hooks' = [hooks EXCEPT ![name] = Append(@, e)]
  BY DEF CommitHook
<1>3. NextRef(hooks, name) \in Ref
  BY <1>1, LenProperties DEF NextRef, Ref
<1> QED
  BY <1>1, <1>2, <1>3, RefsAdded DEF CommitHook

-----------------------------------------------------------------------------
(* The counts of tools and hooks after a step                              *)

(* A step that neither starts nor ends a tool call.                        *)
ToolsIdle == /\ UNCHANGED tools
             /\ OpenedBy(openTools') = OpenedBy(openTools) /\ Distinct(openTools')
HooksIdle == UNCHANGED <<hooks, openHooks>>

LEMMA ToolsIdleCount ==
  ASSUME IInv, CInv, ToolsIdle, NEW kind, NEW ts, NEW warning, ObserveAll(kind, ts, warning),
         kind \notin {"ToolStart", "ToolComplete"}
  PROVE  ToolsCounted'
<1>1. Len(seen) \in Nat /\ Len(seen') = Len(seen) + 1
      /\ Positions("ToolStart")' = Positions("ToolStart")
      /\ Positions("ToolComplete")' = Positions("ToolComplete")
  BY Reads
<1> QED
  BY <1>1, CountedLater DEF CInv, ToolsCounted, ToolsIdle

LEMMA HooksIdleCount ==
  ASSUME IInv, CInv, HooksIdle, NEW kind, NEW ts, NEW warning, ObserveAll(kind, ts, warning),
         kind \notin {"HookStart", "HookEnd"}
  PROVE  HooksCounted'
<1>1. Len(seen) \in Nat /\ Len(seen') = Len(seen) + 1
      /\ Positions("HookStart")' = Positions("HookStart")
      /\ Positions("HookEnd")' = Positions("HookEnd")
  BY Reads
<1>2. Distinct(openHooks)
  BY DEF CInv, HooksCounted, Counted
<1> QED
  BY <1>1, <1>2, CountedLater DEF CInv, HooksCounted, HooksIdle

(* The streams before and after a step that commits e.                     *)
EndsOf(start, end, e) == /\ Len(seen) \in Nat /\ Len(seen') \in {Len(seen), Len(seen) + 1}
                       /\ Positions(start)' = Positions(start)
                       /\ Positions(end)' \subseteq Positions(end) \cup {e.closed}

LEMMA EndsRead ==
  ASSUME IInv, NEW start, NEW end, NEW e, e.closed = Now, NEW kind, NEW ts, NEW warning,
         ObserveAll(kind, ts, warning), kind # start
  PROVE  EndsOf(start, end, e)
  BY Reads DEF EndsOf

LEMMA EndsFinal ==
  ASSUME IInv, NEW start, NEW end, NEW e, UNCHANGED seen
  PROVE  EndsOf(start, end, e)
  BY LenProperties DEF EndsOf, Positions, IInv, SeenOK

LEMMA ToolEndCount ==
  ASSUME IInv, CInv, NEW o, Takes(openTools, openTools', o),
         NEW new, NEW e, Added(tools, tools', new, e), e.opened = o.opened, e.status # "orphan",
         EndsOf("ToolStart", "ToolComplete", e)
  PROVE  ToolsCounted'
<1>1. Real(tools') = Real(tools) \cup {new}
  BY AddedTools
<1> DEFINE starts == Positions("ToolStart")
           more == Positions("ToolComplete")'
<1>2. starts' = starts /\ more \subseteq Positions("ToolComplete") \cup {e.closed}
      /\ Len(seen) \in Nat /\ Len(seen') \in Nat /\ Len(seen) <= Len(seen')
  BY DEF EndsOf
<1>3. Counted(openTools, tools, Real(tools), Len(seen), starts, Positions("ToolComplete"))
  BY DEF CInv, ToolsCounted
<1> HIDE DEF starts, more
<1>4. Counted(openTools', tools', Real(tools) \cup {new}, Len(seen'), starts, more)
  BY <1>2, <1>3, CountedClose
<1> QED
  BY <1>1, <1>2, <1>4 DEF ToolsCounted, starts, more

LEMMA HookEndCount ==
  ASSUME IInv, CInv, NEW o, Takes(openHooks, openHooks', o),
         NEW new, NEW e, Added(hooks, hooks', new, e), e.opened = o.opened, e.synthesized = FALSE,
         EndsOf("HookStart", "HookEnd", e)
  PROVE  HooksCounted'
<1>1. RealHooks(hooks') = RealHooks(hooks) \cup {new}
  BY AddedHooks
<1> DEFINE starts == Positions("HookStart")
           more == Positions("HookEnd")'
<1>2. starts' = starts /\ more \subseteq Positions("HookEnd") \cup {e.closed}
      /\ Len(seen) \in Nat /\ Len(seen') \in Nat /\ Len(seen) <= Len(seen')
  BY DEF EndsOf
<1>3. Counted(openHooks, hooks, RealHooks(hooks), Len(seen), starts, Positions("HookEnd"))
  BY DEF CInv, HooksCounted
<1> HIDE DEF starts, more
<1>4. Counted(openHooks', hooks', RealHooks(hooks) \cup {new}, Len(seen'), starts, more)
  BY <1>2, <1>3, CountedClose
<1> QED
  BY <1>1, <1>2, <1>4 DEF HooksCounted, starts, more

LEMMA ToolOrphanCount ==
  ASSUME IInv, CInv, UNCHANGED openTools, NEW ts, NEW warning, ObserveAll("ToolComplete", ts, warning),
         NEW new, NEW e, Added(tools, tools', new, e), e.opened = Now, e.closed = Now,
         e.status = "orphan"
  PROVE  ToolsCounted'
<1>1. Real(tools') = Real(tools)
  BY AddedTools
<1> DEFINE starts == Positions("ToolStart")
           more == Positions("ToolComplete")'
<1>2. starts' = starts /\ more = Positions("ToolComplete") \cup {Now}
      /\ Len(seen) \in Nat /\ Now = Len(seen) + 1 /\ Len(seen') = Len(seen) + 1
  BY Reads
<1>3. Counted(openTools, tools, Real(tools), Len(seen), starts, Positions("ToolComplete"))
  BY DEF CInv, ToolsCounted
<1> HIDE DEF starts, more
<1>4. Counted(openTools, tools', Real(tools), Len(seen) + 1, starts, more)
  BY <1>2, <1>3, CountedOrphan
<1> QED
  BY <1>1, <1>2, <1>4 DEF ToolsCounted, starts, more

LEMMA HookOrphanCount ==
  ASSUME IInv, CInv, UNCHANGED openHooks, NEW ts, NEW warning, ObserveAll("HookEnd", ts, warning),
         NEW new, NEW e, Added(hooks, hooks', new, e), e.opened = Now, e.closed = Now,
         e.synthesized = TRUE
  PROVE  HooksCounted'
<1>1. RealHooks(hooks') = RealHooks(hooks)
  BY AddedHooks
<1> DEFINE starts == Positions("HookStart")
           more == Positions("HookEnd")'
<1>2. starts' = starts /\ more = Positions("HookEnd") \cup {Now}
      /\ Len(seen) \in Nat /\ Now = Len(seen) + 1 /\ Len(seen') = Len(seen) + 1
  BY Reads
<1>3. Counted(openHooks, hooks, RealHooks(hooks), Len(seen), starts, Positions("HookEnd"))
  BY DEF CInv, HooksCounted
<1> HIDE DEF starts, more
<1>4. Counted(openHooks, hooks', RealHooks(hooks), Len(seen) + 1, starts, more)
  BY <1>2, <1>3, CountedOrphan
<1> QED
  BY <1>1, <1>2, <1>4 DEF HooksCounted, starts, more

LEMMA ToolStartCount ==
  ASSUME IInv, CInv, UNCHANGED tools, NEW ts, NEW warning, ObserveAll("ToolStart", ts, warning),
         NEW o \in OpenTool, o.opened = Now, openTools' = Append(openTools, o)
  PROVE  ToolsCounted'
<1> DEFINE starts == Positions("ToolStart")
           ends == Positions("ToolComplete")
<1>1. starts' = starts \cup {Now} /\ ends' = ends
      /\ Len(seen) \in Nat /\ Now = Len(seen) + 1 /\ Len(seen') = Len(seen) + 1
  BY Reads
<1>2. Counted(openTools, tools, Real(tools), Len(seen), starts, ends)
  BY DEF CInv, ToolsCounted
<1> HIDE DEF starts, ends
<1>3. Counted(openTools', tools, Real(tools), Len(seen) + 1, starts \cup {Len(seen) + 1}, ends)
  BY <1>1, <1>2, CountedStart DEF IInv, OpenOK
<1> QED
  BY <1>1, <1>3 DEF ToolsCounted, starts, ends

LEMMA HookStartCount ==
  ASSUME IInv, CInv, UNCHANGED hooks, NEW ts, NEW warning, ObserveAll("HookStart", ts, warning),
         NEW o \in OpenHook, o.opened = Now, openHooks' = Append(openHooks, o)
  PROVE  HooksCounted'
<1> DEFINE starts == Positions("HookStart")
           ends == Positions("HookEnd")
<1>1. starts' = starts \cup {Now} /\ ends' = ends
      /\ Len(seen) \in Nat /\ Now = Len(seen) + 1 /\ Len(seen') = Len(seen) + 1
  BY Reads
<1>2. Counted(openHooks, hooks, RealHooks(hooks), Len(seen), starts, ends)
  BY DEF CInv, HooksCounted
<1> HIDE DEF starts, ends
<1>3. Counted(openHooks', hooks, RealHooks(hooks), Len(seen) + 1, starts \cup {Len(seen) + 1}, ends)
  BY <1>1, <1>2, CountedStart DEF IInv, OpenOK
<1> QED
  BY <1>1, <1>3 DEF HooksCounted, starts, ends

-----------------------------------------------------------------------------
(* The lists of the turns after a step                                     *)

(* Calls stay and so do the lists; a new turn has empty ones.              *)
ListsStay == /\ UNCHANGED <<tools, hooks>>
             /\ Len(turns') \in {Len(turns), Len(turns) + 1}
             /\ \A t \in 1..Len(turns) : /\ turns'[t].tool_calls = turns[t].tool_calls
                                         /\ turns'[t].hook_calls = turns[t].hook_calls
             /\ Len(turns') = Len(turns) + 1 =>
                  turns'[Len(turns) + 1].tool_calls = <<>> /\ turns'[Len(turns) + 1].hook_calls = <<>>
(* What is open has begun in a turn there is.                              *)
OpenBegan == /\ \A k \in DOMAIN openTools' : openTools'[k].turn \in 0..Len(turns')
             /\ \A k \in DOMAIN openHooks' : openHooks'[k].turn \in 0..Len(turns')

LEMMA EmptyList == Listed(<<>>, {})
<1>1. ToSet(<<>>) = {}
  BY DEF ToSet
<1>2. Len(<<>>) = 0
  OBVIOUS
<1> QED
  BY <1>1, <1>2, FS_EmptySet DEF Listed

LEMMA ListsStayListed ==
  ASSUME IInv, CInv, TurnsOK', ListsStay, OpenBegan
  PROVE  ListedOK'
<1>1. /\ turns \in Seq(Turn) /\ Len(turns) \in Nat /\ DOMAIN turns = 1..Len(turns)
      /\ turns' \in Seq(Turn) /\ DOMAIN turns' = 1..Len(turns') /\ Len(turns') \in Nat
  BY LenProperties DEF IInv, TurnsOK
<1>2. /\ \A r \in Refs(tools) : At(tools, r).turn \in 0..Len(turns)
      /\ \A r \in Refs(hooks) : At(hooks, r).turn \in 0..Len(turns)
  BY DEF CInv, ListedOK, Began
<1>3. tools' = tools /\ hooks' = hooks
  BY DEF ListsStay
<1>7. /\ Len(turns') \in {Len(turns), Len(turns) + 1}
      /\ \A t \in 1..Len(turns) : /\ turns'[t].tool_calls = turns[t].tool_calls
                                  /\ turns'[t].hook_calls = turns[t].hook_calls
  BY DEF ListsStay
<1>8. /\ \A i \in 0..Len(turns) : i \in 0..Len(turns')
      /\ \A i \in 1..Len(turns') : \/ i \in 1..Len(turns)
                                  \/ (i = Len(turns) + 1 /\ Len(turns') = Len(turns) + 1)
  <2> DEFINE n == Len(turns)
             m == Len(turns')
  <2>1. n \in Nat /\ m \in Nat /\ (m = n \/ m = n + 1)
    BY <1>1, <1>7
  <2> HIDE DEF n, m
  <2>2. /\ \A i \in 0..n : i \in 0..m
        /\ \A i \in 1..m : i \in 1..n \/ (i = n + 1 /\ m = n + 1)
    BY <2>1
  <2> QED
    BY <2>2 DEF n, m
<1>5. Began(openTools', tools', Len(turns')) /\ Began(openHooks', hooks', Len(turns'))
  BY <1>2, <1>3, <1>8 DEF Began, OpenBegan
<1>6. ASSUME NEW t \in 1..Len(turns')
      PROVE  Listed(turns'[t].tool_calls, OfTurn(tools, t)) /\ Listed(turns'[t].hook_calls, OfTurn(hooks, t))
  <2>1. CASE t \in 1..Len(turns)
    <3>1. Listed(turns[t].tool_calls, OfTurn(tools, t)) /\ Listed(turns[t].hook_calls, OfTurn(hooks, t))
      BY <1>1, <2>1 DEF CInv, ListedOK
    <3>2. turns'[t].tool_calls = turns[t].tool_calls /\ turns'[t].hook_calls = turns[t].hook_calls
      BY <1>7, <2>1
    <3> QED
      BY <3>1, <3>2
  <2>2. CASE t = Len(turns) + 1 /\ Len(turns') = Len(turns) + 1
    <3>1. Len(turns) + 1 \notin 0..Len(turns)
      BY <1>1
    <3>2. OfTurn(tools, t) = {}
      BY <1>2, <2>2, <3>1 DEF OfTurn
    <3>4. OfTurn(hooks, t) = {}
      BY <1>2, <2>2, <3>1 DEF OfTurn
    <3>3. turns'[t].tool_calls = <<>> /\ turns'[t].hook_calls = <<>>
      BY <2>2 DEF ListsStay
    <3> QED
      BY <3>2, <3>3, <3>4, EmptyList
  <2> QED
    BY <1>8, <2>1, <2>2
<1> QED
  BY <1>1, <1>3, <1>5, <1>6 DEF ListedOK

(* A back-reference goes to the list it is for.                            *)
LEMMA ReferencedLists ==
  ASSUME IInv, NEW turn \in 0..Len(turns), NEW list \in Lists, NEW ref
  PROVE  \A t \in 1..Len(turns) : \A l \in Lists :
           Referenced(turn, list, ref)[t][l] =
             IF t = turn /\ l = list THEN Append(turns[t][l], ref) ELSE turns[t][l]
<1>1. turns \in Seq(Turn) /\ Len(turns) \in Nat /\ DOMAIN turns = 1..Len(turns)
  BY LenProperties DEF IInv, TurnsOK
<1> SUFFICES ASSUME NEW t \in 1..Len(turns), NEW l \in Lists
             PROVE  Referenced(turn, list, ref)[t][l] =
                      IF t = turn /\ l = list THEN Append(turns[t][l], ref) ELSE turns[t][l]
  OBVIOUS
<1>2. turns[t] \in Turn
  BY <1>1, ElementOfSeq
<1>3. CASE turn = NoTurn
  <2>1. t # turn
    BY <1>3 DEF NoTurn
  <2> QED
    BY <1>3, <2>1 DEF Referenced
<1>4. CASE turn # NoTurn
  <2>1. Referenced(turn, list, ref) = [turns EXCEPT ![turn][list] = Append(@, ref)]
    BY <1>4 DEF Referenced
  <2>2. DOMAIN turns[t] = {"status", "mode", "from", "to", "model", "tokens",
                           "tool_calls", "hook_calls", "skill_calls"}
    BY <1>2 DEF Turn
  <2>3. l \in DOMAIN turns[t] /\ list \in DOMAIN turns[t]
    BY <2>2 DEF Lists
  <2>4. CASE t = turn
    <3>1. [turns EXCEPT ![turn][list] = Append(@, ref)][t] = [turns[t] EXCEPT ![list] = Append(@, ref)]
      BY <1>1, <2>4
    <3> QED
      BY <2>1, <2>3, <2>4, <3>1
  <2>5. CASE t # turn
    BY <1>1, <2>1, <2>5
  <2> QED
    BY <2>4, <2>5
<1> QED
  BY <1>3, <1>4

(* The turn a committed call began in lists it, and no other turn does.    *)
LEMMA ToolListed ==
  ASSUME IInv, CInv, TurnsOK', OpenBegan, UNCHANGED hooks,
         NEW new \in Ref, NEW e, Added(tools, tools', new, e), e.turn \in 0..Len(turns),
         turns' = Referenced(e.turn, "tool_calls", new)
  PROVE  ListedOK'
<1>1. /\ turns \in Seq(Turn) /\ Len(turns) \in Nat /\ DOMAIN turns = 1..Len(turns)
      /\ Len(turns') = Len(turns) /\ DOMAIN turns' = 1..Len(turns)
  <2>1. Len(turns') = Len(turns) /\ turns \in Seq(Turn) /\ turns' \in Seq(Turn)
    BY ReferencedTurns DEF Lists, IInv, TurnsOK
  <2> QED
    BY <2>1, LenProperties
<1>2. /\ new \notin Refs(tools) /\ Refs(tools') = Refs(tools) \cup {new} /\ At(tools', new) = e
      /\ \A r \in Refs(tools) : At(tools', r) = At(tools, r)
  BY DEF Added
<1>3. Began(openTools', tools', Len(turns')) /\ Began(openHooks', hooks', Len(turns'))
  BY <1>1, <1>2 DEF CInv, ListedOK, Began, OpenBegan
<1>4. ASSUME NEW t \in 1..Len(turns)
      PROVE  /\ Listed(turns'[t].tool_calls, OfTurn(tools', t))
             /\ Listed(turns'[t].hook_calls, OfTurn(hooks, t))
  <2>1. /\ turns'[t]["tool_calls"] = IF t = e.turn THEN Append(turns[t]["tool_calls"], new)
                                     ELSE turns[t]["tool_calls"]
        /\ turns'[t]["hook_calls"] = turns[t]["hook_calls"]
    BY ReferencedLists DEF Lists
  <2>2. Listed(turns[t].tool_calls, OfTurn(tools, t)) /\ Listed(turns[t].hook_calls, OfTurn(hooks, t))
    BY <1>1 DEF CInv, ListedOK
  <2>3. OfTurn(tools', t) = IF e.turn = t THEN OfTurn(tools, t) \cup {new} ELSE OfTurn(tools, t)
    BY AddedToTurn
  <2>4. new \notin OfTurn(tools, t)
    BY <1>2 DEF OfTurn
  <2>5. turns[t] \in Turn
    BY <1>1, ElementOfSeq
  <2>6. turns[t].tool_calls \in Seq(Ref)
    BY <2>5 DEF Turn
  <2>7. Listed(Append(turns[t].tool_calls, new), OfTurn(tools, t) \cup {new})
    BY <2>2, <2>4, <2>6, ListedMore
  <2> QED
    BY <2>1, <2>2, <2>3, <2>7
<1> QED
  BY <1>1, <1>3, <1>4 DEF ListedOK

LEMMA HookListed ==
  ASSUME IInv, CInv, TurnsOK', OpenBegan, UNCHANGED tools,
         NEW new \in Ref, NEW e, Added(hooks, hooks', new, e), e.turn \in 0..Len(turns),
         turns' = Referenced(e.turn, "hook_calls", new)
  PROVE  ListedOK'
<1>1. /\ turns \in Seq(Turn) /\ Len(turns) \in Nat /\ DOMAIN turns = 1..Len(turns)
      /\ Len(turns') = Len(turns) /\ DOMAIN turns' = 1..Len(turns)
  <2>1. Len(turns') = Len(turns) /\ turns \in Seq(Turn) /\ turns' \in Seq(Turn)
    BY ReferencedTurns DEF Lists, IInv, TurnsOK
  <2> QED
    BY <2>1, LenProperties
<1>2. /\ new \notin Refs(hooks) /\ Refs(hooks') = Refs(hooks) \cup {new} /\ At(hooks', new) = e
      /\ \A r \in Refs(hooks) : At(hooks', r) = At(hooks, r)
  BY DEF Added
<1>3. Began(openTools', tools', Len(turns')) /\ Began(openHooks', hooks', Len(turns'))
  BY <1>1, <1>2 DEF CInv, ListedOK, Began, OpenBegan
<1>4. ASSUME NEW t \in 1..Len(turns)
      PROVE  /\ Listed(turns'[t].tool_calls, OfTurn(tools, t))
             /\ Listed(turns'[t].hook_calls, OfTurn(hooks', t))
  <2>1. /\ turns'[t]["hook_calls"] = IF t = e.turn THEN Append(turns[t]["hook_calls"], new)
                                     ELSE turns[t]["hook_calls"]
        /\ turns'[t]["tool_calls"] = turns[t]["tool_calls"]
    BY ReferencedLists DEF Lists
  <2>2. Listed(turns[t].tool_calls, OfTurn(tools, t)) /\ Listed(turns[t].hook_calls, OfTurn(hooks, t))
    BY <1>1 DEF CInv, ListedOK
  <2>3. OfTurn(hooks', t) = IF e.turn = t THEN OfTurn(hooks, t) \cup {new} ELSE OfTurn(hooks, t)
    BY AddedToTurn
  <2>4. new \notin OfTurn(hooks, t)
    BY <1>2 DEF OfTurn
  <2>5. turns[t] \in Turn
    BY <1>1, ElementOfSeq
  <2>6. turns[t].hook_calls \in Seq(Ref)
    BY <2>5 DEF Turn
  <2>7. Listed(Append(turns[t].hook_calls, new), OfTurn(hooks, t) \cup {new})
    BY <2>2, <2>4, <2>6, ListedMore
  <2> QED
    BY <2>1, <2>2, <2>3, <2>7
<1> QED
  BY <1>1, <1>3, <1>4 DEF ListedOK

-----------------------------------------------------------------------------
(* The skill windows after a step                                          *)

SameSkills == \A n \in SkillName : /\ DOMAIN skills'[n] = DOMAIN skills[n]
                                   /\ \A i \in DOMAIN skills[n] : skills'[n][i].opened = skills[n][i].opened

LEMMA WindowsStay ==
  ASSUME IInv, CInv, UNCHANGED <<seen, openSkills>>, SameSkills
  PROVE  WindowsOpen'
  BY DEF CInv, WindowsOpen, SameSkills

LEMMA WindowsBump ==
  ASSUME IInv, CInv, NEW kind, NEW ts, NEW warning, ObserveAll(kind, ts, warning),
         openSkills' = Bumped(openSkills), SameSkills
  PROVE  WindowsOpen'
<1>1. Len(seen) \in Nat /\ Len(seen') = Len(seen) + 1 /\ Window \in Nat \ {0}
  BY Reads, ConstantsAssumption
<1>2. /\ \A w \in openSkills : /\ w \in [name : SkillName, index : Nat, left : 1..Window]
                               /\ w.index \in DOMAIN skills[w.name]
                               /\ w.left = Window - 1 - (Len(seen) - skills[w.name][w.index].opened)
      /\ \A n \in SkillName : \A i \in DOMAIN skills[n] :
           /\ skills[n][i].opened \in 1..Len(seen)
           /\ Len(seen) - skills[n][i].opened < Window - 1 => \E w \in openSkills : w.name = n /\ w.index = i
  BY DEF CInv, WindowsOpen
<1>3. \A n \in SkillName : /\ DOMAIN skills'[n] = DOMAIN skills[n]
                           /\ \A i \in DOMAIN skills[n] : skills'[n][i].opened = skills[n][i].opened
  BY DEF SameSkills
<1> DEFINE n1 == Len(seen)
<1>4. ASSUME NEW v \in openSkills'
      PROVE  /\ v \in [name : SkillName, index : Nat, left : 1..Window]
             /\ v.index \in DOMAIN skills'[v.name]
             /\ v.left = Window - 1 - (Len(seen') - skills'[v.name][v.index].opened)
  <2>1. PICK w \in openSkills : w.left > 1 /\ v = [w EXCEPT !.left = @ - 1]
    BY <1>4 DEF Bumped
  <2>2. w \in [name : SkillName, index : Nat, left : 1..Window]
    BY <1>2
  <2>3. v.name = w.name /\ v.index = w.index /\ v.left = w.left - 1
        /\ v = [name |-> w.name, index |-> w.index, left |-> w.left - 1]
    BY <2>1, <2>2
  <2>4. w.left - 1 \in 1..Window
    BY <1>1, <2>1, <2>2
  <2>5. w.name \in SkillName /\ w.index \in DOMAIN skills[w.name]
    BY <1>2, <2>2
  <2>6. skills'[v.name][v.index].opened = skills[w.name][w.index].opened
        /\ skills[w.name][w.index].opened \in 1..Len(seen)
        /\ v.index \in DOMAIN skills'[v.name]
    BY <1>2, <1>3, <2>3, <2>5
  <2>7. v.left = Window - 1 - (Len(seen') - skills'[v.name][v.index].opened)
    BY <1>1, <1>2, <2>3, <2>6
  <2> QED
    BY <2>2, <2>3, <2>4, <2>6, <2>7
<1>5. ASSUME NEW n \in SkillName, NEW i \in DOMAIN skills[n]
      PROVE  /\ skills[n][i].opened \in 1..Len(seen')
             /\ Len(seen') - skills[n][i].opened < Window - 1 => \E v \in openSkills' : v.name = n /\ v.index = i
  <2>1. skills[n][i].opened \in 1..Len(seen) /\ skills[n][i].opened \in 1..Len(seen')
    BY <1>1, <1>2
  <2>2. ASSUME Len(seen') - skills[n][i].opened < Window - 1
        PROVE  \E v \in openSkills' : v.name = n /\ v.index = i
    <3>1. Len(seen) - skills[n][i].opened < Window - 1
      BY <1>1, <2>1, <2>2
    <3>2. PICK w \in openSkills : w.name = n /\ w.index = i
      BY <1>2, <3>1
    <3>3. w.left = Window - 1 - (Len(seen) - skills[n][i].opened)
          /\ w \in [name : SkillName, index : Nat, left : 1..Window]
      BY <1>2, <3>2
    <3>4. w.left > 1
      BY <1>1, <2>1, <2>2, <3>3
    <3>5. [w EXCEPT !.left = @ - 1] \in openSkills'
      BY <3>4 DEF Bumped
    <3>6. [w EXCEPT !.left = @ - 1].name = n /\ [w EXCEPT !.left = @ - 1].index = i
      BY <3>2, <3>3
    <3> QED
      BY <3>5, <3>6
  <2> QED
    BY <2>1, <2>2
<1> QED
  BY <1>3, <1>4, <1>5 DEF WindowsOpen

(* An invocation opens the window it counts as the first event of.         *)
LEMMA WindowsInvoked ==
  ASSUME IInv, CInv, NEW kind, NEW ts, NEW warning, ObserveAll(kind, ts, warning),
         NEW name \in SkillName, NEW s \in Skill, s.opened = Now, s.triggered = <<>>,
         skills' = [skills EXCEPT ![name] = Append(@, s)],
         openSkills' = Bumped(openSkills \cup {[name |-> name, index |-> Len(skills[name]) + 1,
                                                left |-> Window]})
  PROVE  WindowsOpen'
<1> DEFINE old == skills[name]
           at == Len(old) + 1
           new == [name |-> name, index |-> at, left |-> Window]
<1>1. Len(seen) \in Nat /\ Now = Len(seen) + 1 /\ Len(seen') = Len(seen) + 1 /\ Window \in Nat \ {0}
  BY Reads, ConstantsAssumption
<1>2. /\ \A w \in openSkills : /\ w \in [name : SkillName, index : Nat, left : 1..Window]
                               /\ w.index \in DOMAIN skills[w.name]
                               /\ w.left = Window - 1 - (Len(seen) - skills[w.name][w.index].opened)
      /\ \A n \in SkillName : \A i \in DOMAIN skills[n] :
           /\ skills[n][i].opened \in 1..Len(seen)
           /\ Len(seen) - skills[n][i].opened < Window - 1 => \E w \in openSkills : w.name = n /\ w.index = i
  BY DEF CInv, WindowsOpen
<1>3. skills \in [SkillName -> Seq(Skill)] /\ old \in Seq(Skill)
  BY DEF IInv, SkillsOK
<1>4. /\ Len(old) \in Nat /\ DOMAIN old = 1..Len(old)
      /\ DOMAIN skills'[name] = 1..at /\ skills'[name][at] = s
      /\ \A i \in 1..Len(old) : skills'[name][i] = old[i]
      /\ \A n \in SkillName : n # name => skills'[n] = skills[n]
  <2>1. skills'[name] = Append(old, s) /\ \A n \in SkillName : n # name => skills'[n] = skills[n]
    BY <1>3
  <2> QED
    BY <1>3, <2>1, AppendProperties, LenProperties
<1>5. \A n \in SkillName : \A i \in DOMAIN skills[n] :
        i \in DOMAIN skills'[n] /\ skills'[n][i].opened = skills[n][i].opened
  BY <1>4
<1> HIDE DEF old, at, new
<1>6. /\ new = [name |-> name, index |-> at, left |-> Window]
      /\ new.name = name /\ new.index = at /\ new.left = Window /\ at = Len(old) + 1
  BY DEF new, at
<1>7. openSkills' = Bumped(openSkills \cup {new})
  BY DEF new, at, old
<1>8. ASSUME NEW v \in openSkills'
      PROVE  /\ v \in [name : SkillName, index : Nat, left : 1..Window]
             /\ v.index \in DOMAIN skills'[v.name]
             /\ v.left = Window - 1 - (Len(seen') - skills'[v.name][v.index].opened)
  <2>1. PICK w \in openSkills \cup {new} : w.left > 1 /\ v = [w EXCEPT !.left = @ - 1]
    BY <1>7, <1>8 DEF Bumped
  <2>2. w \in [name : SkillName, index : Nat, left : 1..Window]
    BY <1>1, <1>2, <1>4, <1>6
  <2>3. v.name = w.name /\ v.index = w.index /\ v.left = w.left - 1
        /\ v = [name |-> w.name, index |-> w.index, left |-> w.left - 1]
    BY <2>1, <2>2
  <2>4. w.left - 1 \in 1..Window
    BY <1>1, <2>1, <2>2
  <2>5. CASE w \in openSkills
    <3>1. w.name \in SkillName /\ w.index \in DOMAIN skills[w.name]
      BY <1>2, <2>2, <2>5
    <3>2. skills'[v.name][v.index].opened = skills[w.name][w.index].opened
          /\ skills[w.name][w.index].opened \in 1..Len(seen)
          /\ v.index \in DOMAIN skills'[v.name]
      BY <1>2, <1>5, <2>3, <3>1
    <3>3. w.left = Window - 1 - (Len(seen) - skills[w.name][w.index].opened)
      BY <1>2, <2>5
    <3> QED
      BY <1>1, <2>2, <2>3, <2>4, <3>2, <3>3
  <2>6. CASE w = new
    <3>1. v.name = name /\ v.index = at /\ v.left = Window - 1
      BY <1>6, <2>3, <2>6
    <3>2. v.index \in DOMAIN skills'[v.name] /\ skills'[v.name][v.index].opened = Len(seen) + 1
      BY <1>1, <1>4, <1>6, <3>1
    <3> QED
      BY <1>1, <2>2, <2>3, <2>4, <3>1, <3>2
  <2> QED
    BY <2>5, <2>6
<1>9. ASSUME NEW n \in SkillName, NEW i \in DOMAIN skills'[n]
      PROVE  /\ skills'[n][i].opened \in 1..Len(seen')
             /\ Len(seen') - skills'[n][i].opened < Window - 1 => \E v \in openSkills' : v.name = n /\ v.index = i
  <2>1. CASE i \in DOMAIN skills[n]
    <3>1. skills[n][i].opened \in 1..Len(seen) /\ skills'[n][i].opened = skills[n][i].opened
      BY <1>2, <1>5, <2>1
    <3>2. ASSUME Len(seen') - skills'[n][i].opened < Window - 1
          PROVE  \E v \in openSkills' : v.name = n /\ v.index = i
      <4>1. Len(seen) - skills[n][i].opened < Window - 1
        BY <1>1, <3>1, <3>2
      <4>2. PICK w \in openSkills : w.name = n /\ w.index = i
        BY <1>2, <2>1, <4>1
      <4>3. w.left = Window - 1 - (Len(seen) - skills[n][i].opened)
            /\ w \in [name : SkillName, index : Nat, left : 1..Window]
        BY <1>2, <4>2
      <4>4. w.left > 1
        BY <1>1, <3>1, <3>2, <4>3
      <4>5. [w EXCEPT !.left = @ - 1] \in openSkills'
        BY <1>7, <4>4 DEF Bumped
      <4>6. [w EXCEPT !.left = @ - 1].name = n /\ [w EXCEPT !.left = @ - 1].index = i
        BY <4>2, <4>3
      <4> QED
        BY <4>5, <4>6
    <3>3. skills'[n][i].opened \in 1..Len(seen')
      BY <1>1, <3>1
    <3> QED
      BY <3>2, <3>3
  <2>2. CASE i \notin DOMAIN skills[n]
    <3>1. n = name /\ i = at
      <4>1. n = name
        BY <1>4, <2>2
      <4>2. old = skills[n]
        BY <4>1 DEF old
      <4> QED
        BY <1>4, <1>6, <2>2, <4>1, <4>2
    <3>2. skills'[n][i].opened = Len(seen) + 1
      BY <1>1, <1>4, <3>1
    <3>3. ASSUME 0 < Window - 1 PROVE \E v \in openSkills' : v.name = n /\ v.index = i
      <4>1. new.left > 1
        BY <1>1, <1>6, <3>3
      <4>2. [new EXCEPT !.left = @ - 1] \in openSkills'
        BY <1>7, <4>1 DEF Bumped
      <4>3. [new EXCEPT !.left = @ - 1].name = name /\ [new EXCEPT !.left = @ - 1].index = at
        BY <1>6
      <4> QED
        BY <3>1, <4>2, <4>3
    <3>4. skills'[n][i].opened \in 1..Len(seen') /\ Len(seen') - skills'[n][i].opened = 0
      BY <1>1, <3>2
    <3> QED
      BY <3>3, <3>4
  <2> QED
    BY <2>1, <2>2
<1> QED
  BY <1>8, <1>9 DEF WindowsOpen

(* A commit adds its call to the invocations whose window it falls into.   *)
LEMMA TriggeredMore ==
  ASSUME IInv, CInv, NEW new \in Ref, NEW e, Added(tools, tools', new, e), e.closed = Now,
         skills' = Triggered(new)
  PROVE  TriggeredOK' /\ SameSkills
<1>1. Now = Len(seen) + 1 /\ Len(seen) \in Nat /\ Window \in Nat \ {0}
      /\ skills \in [SkillName -> Seq(Skill)]
  BY ConstantsAssumption, LenProperties DEF Now, IInv, SeenOK, SkillsOK
<1>2. ASSUME NEW n \in SkillName, NEW i \in DOMAIN skills[n]
      PROVE  /\ skills'[n][i].opened = skills[n][i].opened
             /\ ToSet(skills'[n][i].triggered) = Within(tools', skills[n][i].opened)
  <2> DEFINE old == skills[n][i]
             open == \E w \in openSkills : w.name = n /\ w.index = i
  <2>1. skills[n] \in Seq(Skill) /\ i \in 1..Len(skills[n])
    BY <1>1, <1>2, LenProperties
  <2>2. old \in Skill
    BY <2>1, ElementOfSeq
  <2>3. old.triggered \in Seq(Ref)
    BY <2>2 DEF Skill
  <2>4. skills'[n][i] = IF open THEN [old EXCEPT !.triggered = Append(@, new)] ELSE old
    BY <1>2 DEF Triggered
  <2>5. /\ old.opened \in 1..Len(seen)
        /\ open <=> e.closed - old.opened \in 1..(Window - 1)
    <3>1. /\ old.opened \in 1..Len(seen)
          /\ Len(seen) - old.opened < Window - 1 => open
      BY <1>2 DEF CInv, WindowsOpen
    <3>2. ASSUME open PROVE Len(seen) - old.opened < Window - 1
      <4>1. PICK w \in openSkills : w.name = n /\ w.index = i
        BY <3>2
      <4>2. w.left \in 1..Window /\ w.left = Window - 1 - (Len(seen) - old.opened)
        BY <4>1 DEF CInv, WindowsOpen
      <4> QED
        BY <1>1, <3>1, <4>2
    <3> HIDE DEF open
    <3> QED
      BY <1>1, <3>1, <3>2
  <2>6. ToSet(old.triggered) = Within(tools, old.opened)
    BY <1>2 DEF CInv, TriggeredOK
  <2>7. Within(tools', old.opened) = IF e.closed - old.opened \in 1..(Window - 1)
                                     THEN Within(tools, old.opened) \cup {new} ELSE Within(tools, old.opened)
    BY DEF Added, Within
  <2>8. ToSet(Append(old.triggered, new)) = ToSet(old.triggered) \cup {new}
    BY <2>3, AppendedSet
  <2> HIDE DEF open
  <2>9. CASE open
    <3>1. skills'[n][i].opened = old.opened /\ skills'[n][i].triggered = Append(old.triggered, new)
      BY <2>2, <2>4, <2>9 DEF Skill
    <3> QED
      BY <2>5, <2>6, <2>7, <2>8, <2>9, <3>1
  <2>10. CASE ~open
    BY <2>4, <2>5, <2>6, <2>7, <2>10
  <2> QED
    BY <2>9, <2>10
<1>3. \A n \in SkillName : DOMAIN skills'[n] = DOMAIN skills[n]
  BY DEF Triggered
<1> QED
  BY <1>2, <1>3 DEF TriggeredOK, SameSkills

LEMMA TriggeredStay ==
  ASSUME CInv, UNCHANGED <<tools, skills>>
  PROVE  TriggeredOK' /\ SameSkills
  BY DEF CInv, TriggeredOK, SameSkills

(* No call has been committed after the invocation that comes last.        *)
LEMMA TriggeredInvoked ==
  ASSUME IInv, CInv, phase = "reading", UNCHANGED tools,
         NEW name \in SkillName, NEW s \in Skill, s.opened = Now, s.triggered = <<>>,
         skills' = [skills EXCEPT ![name] = Append(@, s)]
  PROVE  TriggeredOK'
<1>1. Now = Len(seen) + 1 /\ Len(seen) \in Nat /\ skills \in [SkillName -> Seq(Skill)]
      /\ tools \in [ToolNames -> Seq(ToolRecord)]
  BY LenProperties DEF Now, IInv, SeenOK, SkillsOK, ToolsOK
<1>2. ASSUME NEW r \in Refs(tools) PROVE At(tools, r).closed - Now \notin 1..(Window - 1)
  <2>0. At(tools, r) \in ToolRecord
    BY <1>1, RefTyped
  <2>1. At(tools, r).closed \in Nat
    BY <2>0 DEF ToolRecord, Forward
  <2>2. ~(At(tools, r).closed > Len(seen))
    BY <1>2 DEF CInv, LeftOpenOK, Late
  <2> QED
    BY <1>1, <2>1, <2>2
<1>3. Within(tools, Now) = {}
  BY <1>2 DEF Within
<1>4. ToSet(<<>>) = {}
  BY DEF ToSet
<1> SUFFICES ASSUME NEW n \in SkillName, NEW i \in DOMAIN skills'[n]
             PROVE  ToSet(skills'[n][i].triggered) = Within(tools, skills'[n][i].opened)
  BY DEF TriggeredOK
<1>5. CASE i \in DOMAIN skills[n] /\ skills'[n][i] = skills[n][i]
  BY <1>5 DEF CInv, TriggeredOK
<1>6. CASE skills'[n][i] = s
  BY <1>3, <1>4, <1>6
<1>7. CASE n # name
  BY <1>1, <1>5, <1>7
<1>8. CASE n = name
  <2>1. skills[n] \in Seq(Skill) /\ skills'[n] = Append(skills[n], s)
    BY <1>1, <1>8
  <2>2. \/ i \in DOMAIN skills[n] /\ skills'[n][i] = skills[n][i]
        \/ skills'[n][i] = s
    <3>1. /\ DOMAIN skills[n] = 1..Len(skills[n]) /\ Len(skills[n]) \in Nat
          /\ DOMAIN skills'[n] = 1..(Len(skills[n]) + 1)
          /\ \A j \in 1..Len(skills[n]) : skills'[n][j] = skills[n][j]
          /\ skills'[n][Len(skills[n]) + 1] = s
      BY <2>1, AppendProperties, LenProperties
    <3> QED
      BY <3>1
  <2> QED
    BY <1>5, <1>6, <2>2
<1> QED
  BY <1>7, <1>8

-----------------------------------------------------------------------------
(* The warnings after a step                                               *)

Bit(b) == IF b THEN 1 ELSE 0
WarningsTold == warnings["synthesized"] + Cardinality(Positions("TurnStart"))

(* What reading an event does to the warnings and to the turns it counts.  *)
LEMMA Warns ==
  ASSUME IInv, CInv, NEW kind, NEW ts, NEW warning \in {"none", "synthesized", "abort"},
         ObserveAll(kind, ts, warning), aborts' = aborts + Bit(warning = "abort")
  PROVE  /\ WarningsOK' /\ phase = "reading" /\ phase' = "reading"
         /\ warnings'["open"] = warnings["open"]
         /\ WarningsTold \in Nat
         /\ WarningsTold' = WarningsTold + Bit(warning = "synthesized") + Bit(kind = "TurnStart")
<1>1. /\ warnings \in [{"synthesized", "open", "abort", "order"} -> Nat]
      /\ aborts \in Nat /\ warnings["abort"] = aborts
  BY DEF CInv, WarningsOK
<1>2. /\ phase = "reading" /\ phase' = "reading"
      /\ warnings' = [k \in DOMAIN warnings |->
                        warnings[k] + (IF k = warning THEN 1 ELSE 0)
                          + (IF k = "order" /\ clock # None /\ ts < clock THEN 1 ELSE 0)]
  BY DEF ObserveAll
<1>3. /\ warnings' \in [{"synthesized", "open", "abort", "order"} -> Nat]
      /\ warnings'["synthesized"] = warnings["synthesized"] + Bit(warning = "synthesized")
      /\ warnings'["abort"] = warnings["abort"] + Bit(warning = "abort")
      /\ warnings'["open"] = warnings["open"]
  BY <1>1, <1>2 DEF Bit
<1>4. aborts' \in Nat
  BY <1>1 DEF Bit
<1>5. WarningsOK'
  BY <1>1, <1>2, <1>3, <1>4 DEF WarningsOK
<1> DEFINE P == Positions("TurnStart")
<1>6. IsFiniteSet(P) /\ Cardinality(P) \in Nat /\ Now \notin P
  <2>1. P \subseteq 1..Len(seen) /\ IsFiniteSet(P) /\ Cardinality(P) \in Nat
    BY PositionsFinite
  <2>2. Now = Len(seen) + 1 /\ Len(seen) \in Nat
    BY Reads
  <2> QED
    BY <2>1, <2>2
<1>7. P' = IF kind = "TurnStart" THEN P \cup {Now} ELSE P
  BY Reads
<1> HIDE DEF P
<1>8. Cardinality(P') = Cardinality(P) + Bit(kind = "TurnStart")
  <2>1. CASE kind = "TurnStart"
    BY <1>6, <1>7, <2>1, OneMore DEF Bit
  <2>2. CASE kind # "TurnStart"
    BY <1>6, <1>7, <2>2 DEF Bit
  <2> QED
    BY <2>1, <2>2
<1>9. WarningsTold = warnings["synthesized"] + Cardinality(P)
      /\ WarningsTold' = warnings'["synthesized"] + Cardinality(P')
  BY DEF WarningsTold, P
<1> DEFINE w == warnings["synthesized"]
           x == warnings'["synthesized"]
           c == Cardinality(P)
           d == Cardinality(P')
           a == Bit(warning = "synthesized")
           b == Bit(kind = "TurnStart")
<1>10. w \in Nat /\ c \in Nat /\ a \in Nat /\ b \in Nat /\ x = w + a /\ d = c + b
       /\ WarningsTold = w + c /\ WarningsTold' = x + d
  BY <1>1, <1>3, <1>6, <1>8, <1>9 DEF Bit
<1> HIDE DEF w, x, c, d, a, b
<1>11. WarningsTold \in Nat /\ WarningsTold' = WarningsTold + a + b
  BY <1>10
<1> QED
  BY <1>2, <1>3, <1>5, <1>11 DEF a, b

(* What was made up before and after a step.                               *)
MadeUpCount == Cardinality(Orphans(tools)) + Cardinality(MadeUp(hooks))

LEMMA MadeUpTyped ==
  ASSUME IInv, CInv
  PROVE  /\ IsFiniteSet(Orphans(tools)) /\ IsFiniteSet(MadeUp(hooks))
         /\ Cardinality(Orphans(tools)) \in Nat /\ Cardinality(MadeUp(hooks)) \in Nat
         /\ Len(turns) \in Nat /\ WarningsTold = MadeUpCount + Len(turns)
  BY FS_CardinalityType, LenProperties DEF CInv, MadeUpOK, WarningsTold, MadeUpCount, IInv, TurnsOK

(* Nothing is committed: every new turn was started or is warned about.    *)
LEMMA MadeUpIdle ==
  ASSUME IInv, CInv, UNCHANGED <<tools, hooks>>, WarningsTold' = WarningsTold + (Len(turns') - Len(turns)),
         Len(turns') \in Nat
  PROVE  MadeUpOK'
<1> DEFINE n == Len(turns)
           m == Len(turns')
           k == MadeUpCount
<1>1. n \in Nat /\ m \in Nat /\ k \in Nat /\ WarningsTold = k + n /\ WarningsTold' = WarningsTold + (m - n)
  BY MadeUpTyped DEF MadeUpCount
<1>2. k' = k
  BY DEF MadeUpCount
<1> HIDE DEF n, m, k
<1>3. WarningsTold' = k' + m
  BY <1>1, <1>2
<1> QED
  BY <1>3, MadeUpTyped DEF MadeUpOK, WarningsTold, k, m, MadeUpCount

(* A commit of a call that is or is not made up.                           *)
LEMMA MadeUpTool ==
  ASSUME IInv, CInv, UNCHANGED hooks, NEW new, NEW e, Added(tools, tools', new, e),
         Len(turns') = Len(turns), WarningsTold' = WarningsTold + Bit(e.status = "orphan")
  PROVE  MadeUpOK'
<1> DEFINE S == Orphans(tools)
           T == MadeUp(hooks)
           n == Len(turns)
<1>1. /\ IsFiniteSet(S) /\ IsFiniteSet(T) /\ Cardinality(S) \in Nat /\ Cardinality(T) \in Nat
      /\ n \in Nat /\ WarningsTold = Cardinality(S) + Cardinality(T) + n
  BY MadeUpTyped DEF MadeUpCount
<1>2. S' = IF e.status = "orphan" THEN S \cup {new} ELSE S
  BY AddedTools
<1>3. new \notin S /\ T' = T /\ n' = n
  BY DEF Added, Orphans
<1>5. MadeUpOK' <=> /\ IsFiniteSet(S') /\ IsFiniteSet(T')
                    /\ WarningsTold' = Cardinality(S') + Cardinality(T') + n'
  BY DEF MadeUpOK, WarningsTold
<1> HIDE DEF S, T, n
<1>4. IsFiniteSet(S') /\ Cardinality(S') = Cardinality(S) + Bit(e.status = "orphan")
  BY <1>1, <1>2, <1>3, OneMore DEF Bit
<1>6. Bit(e.status = "orphan") \in Nat
  BY DEF Bit
<1>7. WarningsTold' = Cardinality(S') + Cardinality(T) + n
  BY <1>1, <1>4, <1>6
<1> QED
  BY <1>1, <1>3, <1>4, <1>5, <1>7

LEMMA MadeUpHook ==
  ASSUME IInv, CInv, UNCHANGED tools, NEW new, NEW e, Added(hooks, hooks', new, e),
         Len(turns') = Len(turns), WarningsTold' = WarningsTold + Bit(e.synthesized)
  PROVE  MadeUpOK'
<1> DEFINE S == Orphans(tools)
           T == MadeUp(hooks)
           n == Len(turns)
<1>1. /\ IsFiniteSet(S) /\ IsFiniteSet(T) /\ Cardinality(S) \in Nat /\ Cardinality(T) \in Nat
      /\ n \in Nat /\ WarningsTold = Cardinality(S) + Cardinality(T) + n
  BY MadeUpTyped DEF MadeUpCount
<1>2. T' = IF e.synthesized THEN T \cup {new} ELSE T
  BY AddedHooks
<1>3. new \notin T /\ S' = S /\ n' = n
  BY DEF Added, MadeUp
<1>5. MadeUpOK' <=> /\ IsFiniteSet(S') /\ IsFiniteSet(T')
                    /\ WarningsTold' = Cardinality(S') + Cardinality(T') + n'
  BY DEF MadeUpOK, WarningsTold
<1> HIDE DEF S, T, n
<1>4. IsFiniteSet(T') /\ Cardinality(T') = Cardinality(T) + Bit(e.synthesized)
  BY <1>1, <1>2, <1>3, OneMore DEF Bit
<1>6. Bit(e.synthesized) \in Nat
  BY DEF Bit
<1>7. WarningsTold' = Cardinality(S) + Cardinality(T') + n
  BY <1>1, <1>4, <1>6
<1> QED
  BY <1>1, <1>3, <1>4, <1>5, <1>7

(* A call that was not there ends by the event that is read.               *)
Fresh ==
  /\ \A r \in Refs(tools') :
       \/ r \in Refs(tools) /\ At(tools', r) = At(tools, r)
       \/ At(tools', r).closed = Now /\ At(tools', r).status # "open"
  /\ \A r \in Refs(hooks') :
       \/ r \in Refs(hooks) /\ At(hooks', r) = At(hooks, r)
       \/ At(hooks', r).closed = Now

(* While events are read no call is left open, and none ends after them.   *)
LEMMA LeftOpenRead ==
  ASSUME IInv, CInv, NEW kind, NEW ts, NEW warning, ObserveAll(kind, ts, warning),
         warnings'["open"] = warnings["open"],
         Fresh, tools' \in [ToolNames -> Seq(ToolRecord)], hooks' \in [HookName -> Seq(HookRecord)]
  PROVE  LeftOpenOK'
<1> DEFINE n == Len(seen)
           m == Len(seen')
<1>1. n \in Nat /\ Now = n + 1 /\ m = n + 1
  BY Reads
<1>2. phase = "reading"
  BY DEF ObserveAll
<1>3. LeftOpen(tools) = {} /\ Late(tools, n) = {} /\ Late(hooks, n) = {}
  BY <1>2 DEF CInv, LeftOpenOK
<1>4. ASSUME NEW r \in Refs(tools') PROVE At(tools', r).status # "open" /\ ~(At(tools', r).closed > m)
  <2>1. At(tools', r) \in ToolRecord
    BY RefTyped
  <2>2. At(tools', r).closed \in Nat
    BY <2>1 DEF ToolRecord, Forward
  <2>3. CASE At(tools', r).closed = Now /\ At(tools', r).status # "open"
    BY <1>1, <2>3
  <2>4. CASE r \in Refs(tools) /\ At(tools', r) = At(tools, r)
    <3>1. At(tools, r).status # "open" /\ ~(At(tools, r).closed > n)
      BY <1>3, <2>4 DEF LeftOpen, Late
    <3> QED
      BY <1>1, <2>2, <2>4, <3>1
  <2> QED
    BY <2>3, <2>4 DEF Fresh
<1>5. ASSUME NEW r \in Refs(hooks') PROVE ~(At(hooks', r).closed > m)
  <2>1. At(hooks', r) \in HookRecord
    BY RefTyped
  <2>2. At(hooks', r).closed \in Nat
    BY <2>1 DEF HookRecord, Forward
  <2>3. CASE At(hooks', r).closed = Now
    BY <1>1, <2>3
  <2>4. CASE r \in Refs(hooks) /\ At(hooks', r) = At(hooks, r)
    <3>1. ~(At(hooks, r).closed > n)
      BY <1>3, <2>4 DEF Late
    <3> QED
      BY <1>1, <2>2, <2>4, <3>1
  <2> QED
    BY <2>3, <2>4 DEF Fresh
<1>6. LeftOpen(tools') = {} /\ Late(tools', m) = {} /\ Late(hooks', m) = {}
  BY <1>4, <1>5 DEF LeftOpen, Late
<1>7. warnings["open"] = Cardinality({}) + Cardinality({})
  BY <1>3 DEF CInv, LeftOpenOK
<1>8. IsFiniteSet({})
  BY FS_EmptySet
<1>9. LeftOpenOK' <=>
        /\ IsFiniteSet(LeftOpen(tools')) /\ IsFiniteSet(Late(hooks', m))
        /\ warnings'["open"] = Cardinality(LeftOpen(tools')) + Cardinality(Late(hooks', m))
        /\ phase' = "reading" => LeftOpen(tools') \cup Late(tools', m) = {}
        /\ phase' = "reading" => Late(hooks', m) = {}
  BY DEF LeftOpenOK
<1> HIDE DEF n, m
<1> QED
  BY <1>6, <1>7, <1>8, <1>9

-----------------------------------------------------------------------------
(* Events that do not end a call                                           *)

LEMMA BoundsRead ==
  ASSUME CInv, NEW kind, NEW ts, NEW warning, ObserveAll(kind, ts, warning),
         IInv, requested' \subseteq CallId
  PROVE  BoundsOK'
<1>1. Len(seen') = Len(seen) + 1 /\ Len(seen) \in Nat
  BY Reads
<1>2. Len(seen) < MaxEvents /\ phase' = "reading" /\ declared' = declared /\ declared \subseteq CallId
  BY DEF ObserveAll, CInv, BoundsOK
<1>3. MaxEvents \in Nat
  BY ConstantsAssumption
<1> QED
  BY <1>1, <1>2, <1>3 DEF BoundsOK

(* Nothing is committed, so a new turn is one that was started or made up. *)
LEMMA IdleWarned ==
  ASSUME IInv, CInv, TurnsOK', NEW kind, NEW ts, NEW warning \in {"none", "synthesized", "abort"},
         ObserveAll(kind, ts, warning), aborts' = aborts + Bit(warning = "abort"),
         UNCHANGED <<tools, hooks>>,
         Len(turns') - Len(turns) = Bit(warning = "synthesized") + Bit(kind = "TurnStart")
  PROVE  MadeUpOK' /\ LeftOpenOK' /\ WarningsOK'
<1>1. /\ WarningsOK' /\ warnings'["open"] = warnings["open"] /\ WarningsTold \in Nat
      /\ WarningsTold' = WarningsTold + Bit(warning = "synthesized") + Bit(kind = "TurnStart")
  BY Warns
<1>2. Len(turns') \in Nat /\ Len(turns) \in Nat
  BY LenProperties DEF IInv, TurnsOK
<1> DEFINE a == Bit(warning = "synthesized")
           b == Bit(kind = "TurnStart")
           n == Len(turns)
           m == Len(turns')
<1>3. a \in Nat /\ b \in Nat
  BY DEF Bit
<1>4. n \in Nat /\ m \in Nat /\ m - n = a + b /\ WarningsTold' = WarningsTold + a + b
  BY <1>1, <1>2
<1> HIDE DEF a, b, n, m
<1>5. WarningsTold' = WarningsTold + (m - n)
  BY <1>1, <1>3, <1>4
<1>6. MadeUpOK'
  BY <1>2, <1>5, MadeUpIdle DEF n, m
<1>7. tools' = tools /\ hooks' = hooks /\ tools \in [ToolNames -> Seq(ToolRecord)]
      /\ hooks \in [HookName -> Seq(HookRecord)]
  BY DEF IInv, ToolsOK, HooksOK
<1>8. Fresh
  BY <1>7 DEF Fresh
<1>9. LeftOpenOK'
  BY <1>1, <1>7, <1>8, LeftOpenRead
<1> QED
  BY <1>1, <1>6, <1>9

(* What is open stays open, in a turn there is.                            *)
LEMMA OpenStaysBegan ==
  ASSUME IInv, CInv, UNCHANGED <<openTools, openHooks>>, Len(turns') \in {Len(turns), Len(turns) + 1}
  PROVE  OpenBegan
<1> DEFINE n == Len(turns)
           m == Len(turns')
<1>1. n \in Nat /\ m \in {n, n + 1}
  BY LenProperties DEF IInv, TurnsOK
<1> HIDE DEF n, m
<1>2. \A i \in 0..n : i \in 0..m
  BY <1>1
<1>3. \A i \in 0..Len(turns) : i \in 0..Len(turns')
  BY <1>2 DEF n, m
<1> QED
  BY <1>3 DEF CInv, ListedOK, Began, OpenBegan

(* An event that leaves the calls and what is open alone.                  *)
LEMMA QuietKeeps ==
  ASSUME IInv, CInv, TurnsOK', NEW kind, NEW ts, NEW warning \in {"none", "synthesized", "abort"},
         ObserveAll(kind, ts, warning), aborts' = aborts + Bit(warning = "abort"),
         kind \notin {"ToolStart", "ToolComplete", "HookStart", "HookEnd"},
         UNCHANGED calls, ListsStay, WindowsOpen', TriggeredOK',
         Len(turns') - Len(turns) = Bit(warning = "synthesized") + Bit(kind = "TurnStart")
  PROVE  CInv'
<1>1. UNCHANGED <<openTools, openHooks, tools, hooks, requested>>
  BY DEF calls
<1>2. MadeUpOK' /\ LeftOpenOK' /\ WarningsOK'
  BY <1>1, IdleWarned
<1>3. ToolsIdle /\ HooksIdle
  BY <1>1 DEF ToolsIdle, HooksIdle, CInv, ToolsCounted, Counted
<1>4. ToolsCounted' /\ HooksCounted'
  BY <1>3, ToolsIdleCount, HooksIdleCount
<1>5. OpenBegan
  BY <1>1, OpenStaysBegan DEF ListsStay
<1>6. ListedOK'
  BY <1>5, ListsStayListed
<1>7. NoMarkerMissesItsCall'
  BY <1>1 DEF CInv, NoMarkerMissesItsCall
<1>8. BoundsOK'
  BY <1>1, BoundsRead DEF CInv, BoundsOK
<1> QED
  BY <1>2, <1>4, <1>6, <1>7, <1>8 DEF CInv

(* The lists of the turns when the turns, or all of a turn but its lists,  *)
(* stay, and when a turn is added.                                         *)
LEMMA TurnsKeepLists ==
  ASSUME IInv, UNCHANGED <<turns, tools, hooks>>
  PROVE  ListsStay /\ Len(turns') - Len(turns) = 0
<1>1. turns \in Seq(Turn) /\ Len(turns) \in Nat /\ turns' = turns
  BY LenProperties DEF IInv, TurnsOK
<1>2. Len(turns) # Len(turns) + 1
  BY <1>1
<1> QED
  BY <1>1, <1>2 DEF ListsStay

LEMMA NewTurnLists ==
  ASSUME IInv, UNCHANGED <<tools, hooks>>, NEW status \in {"open", "completed"}, NEW ts \in Stamp,
         turns' = Append(turns, NewTurn(status, ts))
  PROVE  ListsStay /\ Len(turns') - Len(turns) = 1
<1> DEFINE new == NewTurn(status, ts)
<1>1. turns \in Seq(Turn) /\ mode \in Mode /\ Len(turns) \in Nat
  BY LenProperties DEF IInv, TurnsOK, SegmentsOK
<1>2. new \in Turn /\ new.tool_calls = <<>> /\ new.hook_calls = <<>>
  BY <1>1, ConstantsAssumption DEF NewTurn, Turn
<1> HIDE DEF new
<1>3. /\ Len(turns') = Len(turns) + 1
      /\ \A t \in 1..Len(turns) : turns'[t] = turns[t]
      /\ turns'[Len(turns) + 1] = new
  BY <1>1, <1>2, AppendProperties DEF new
<1>4. ListsStay
  BY <1>2, <1>3 DEF ListsStay
<1> QED
  BY <1>1, <1>3, <1>4

LEMMA OpenTurnKeepsLists ==
  ASSUME IInv, UNCHANGED <<tools, hooks>>, openTurn # NoTurn, NEW new \in Turn,
         new.tool_calls = turns[openTurn].tool_calls, new.hook_calls = turns[openTurn].hook_calls,
         turns' = [turns EXCEPT ![openTurn] = new]
  PROVE  ListsStay /\ Len(turns') - Len(turns) = 0
<1>1. turns \in Seq(Turn) /\ openTurn \in 1..Len(turns) /\ Len(turns) \in Nat
  BY LenProperties DEF IInv, TurnsOK, NoTurn
<1>2. /\ Len(turns') = Len(turns)
      /\ \A t \in 1..Len(turns) : turns'[t] = IF t = openTurn THEN new ELSE turns[t]
  BY <1>1, ExceptSeq
<1>3. Len(turns) # Len(turns) + 1
  BY <1>1
<1>4. ListsStay
  BY <1>1, <1>2, <1>3 DEF ListsStay
<1> QED
  BY <1>1, <1>2, <1>4

(* The windows after an event that invokes and commits nothing.            *)
LEMMA NothingTriggered ==
  ASSUME IInv, CInv, NEW kind, NEW ts, NEW warning, ObserveAll(kind, ts, warning),
         openSkills' = Bumped(openSkills), UNCHANGED <<tools, skills>>
  PROVE  WindowsOpen' /\ TriggeredOK'
  BY WindowsBump, TriggeredStay

LEMMA TurnEventKeeps ==
  ASSUME IInv, CInv, TurnsOK', NEW kind, NEW ts, NEW warning \in {"none", "synthesized", "abort"},
         ObserveAll(kind, ts, warning), aborts' = aborts + Bit(warning = "abort"),
         kind \notin {"ToolStart", "ToolComplete", "HookStart", "HookEnd"},
         UNCHANGED calls, UNCHANGED skills, openSkills' = Bumped(openSkills), ListsStay,
         Len(turns') - Len(turns) = Bit(warning = "synthesized") + Bit(kind = "TurnStart")
  PROVE  CInv'
<1>1. UNCHANGED tools
  BY DEF calls
<1>2. WindowsOpen' /\ TriggeredOK'
  BY <1>1, NothingTriggered
<1> QED
  BY <1>2, QuietKeeps

LEMMA TurnStartKeeps == ASSUME IInv, CInv, Moves, NEW ts \in Stamp, TurnStart(ts) PROVE CInv'
<1>1. /\ ObserveAll("TurnStart", ts, "none") /\ turns' = Append(turns, NewTurn("open", ts))
      /\ openSkills' = Bumped(openSkills) /\ UNCHANGED calls /\ UNCHANGED skills /\ aborts' = aborts
      /\ aborts \in Nat /\ TurnsOK'
  BY DEF TurnStart, Observe, CInv, WarningsOK, Moves, TurnsMove
<1>2. ListsStay /\ Len(turns') - Len(turns) = 1
  BY <1>1, NewTurnLists DEF calls
<1>3. aborts' = aborts + Bit("none" = "abort")
      /\ Len(turns') - Len(turns) = Bit("none" = "synthesized") + Bit("TurnStart" = "TurnStart")
  BY <1>1, <1>2 DEF Bit
<1> QED
  BY <1>1, <1>2, <1>3, TurnEventKeeps

LEMMA TurnEndKeeps == ASSUME IInv, CInv, Moves, NEW ts \in Stamp, TurnEnd(ts) PROVE CInv'
<1>1. /\ openSkills' = Bumped(openSkills) /\ UNCHANGED calls /\ UNCHANGED skills /\ aborts' = aborts
      /\ aborts \in Nat /\ TurnsOK'
  BY DEF TurnEnd, Observe, CInv, WarningsOK, Moves, TurnsMove
<1>2. CASE openTurn # NoTurn
  <2> DEFINE new == [turns[openTurn] EXCEPT !.status = "completed", !.to = ts]
  <2>1. turns[openTurn] \in Turn
    BY <1>2, ElementOfSeq DEF IInv, TurnsOK, NoTurn
  <2>2. new \in Turn /\ new.tool_calls = turns[openTurn].tool_calls
        /\ new.hook_calls = turns[openTurn].hook_calls
    BY <2>1 DEF Turn
  <2>3. turns' = [turns EXCEPT ![openTurn] = new] /\ ObserveAll("TurnEnd", ts, "none")
    BY <1>2 DEF TurnEnd, Observe
  <2> HIDE DEF new
  <2>4. ListsStay /\ Len(turns') - Len(turns) = 0
    BY <1>1, <1>2, <2>2, <2>3, OpenTurnKeepsLists DEF calls
  <2>5. aborts' = aborts + Bit("none" = "abort")
        /\ Len(turns') - Len(turns) = Bit("none" = "synthesized") + Bit("TurnEnd" = "TurnStart")
    BY <1>1, <2>4 DEF Bit
  <2> QED
    BY <1>1, <2>3, <2>4, <2>5, TurnEventKeeps
<1>3. CASE openTurn = NoTurn
  <2>1. turns' = Append(turns, NewTurn("completed", ts)) /\ ObserveAll("TurnEnd", ts, "synthesized")
    BY <1>3 DEF TurnEnd, Observe
  <2>2. ListsStay /\ Len(turns') - Len(turns) = 1
    BY <1>1, <2>1, NewTurnLists DEF calls
  <2>3. aborts' = aborts + Bit("synthesized" = "abort")
        /\ Len(turns') - Len(turns) = Bit("synthesized" = "synthesized") + Bit("TurnEnd" = "TurnStart")
    BY <1>1, <2>2 DEF Bit
  <2> QED
    BY <1>1, <2>1, <2>2, <2>3, TurnEventKeeps
<1> QED
  BY <1>2, <1>3

LEMMA AbortTurnKeeps == ASSUME IInv, CInv, Moves, NEW ts \in Stamp, AbortTurn(ts) PROVE CInv'
<1>1. /\ ObserveAll("Abort", ts, "none") /\ openTurn # NoTurn
      /\ openSkills' = Bumped(openSkills) /\ UNCHANGED calls /\ UNCHANGED skills /\ aborts' = aborts
      /\ aborts \in Nat /\ TurnsOK'
  BY DEF AbortTurn, Observe, CInv, WarningsOK, Moves, TurnsMove
<1> DEFINE new == [turns[openTurn] EXCEPT !.status = "aborted", !.to = ts]
<1>2. turns[openTurn] \in Turn
  BY <1>1, ElementOfSeq DEF IInv, TurnsOK, NoTurn
<1>3. new \in Turn /\ new.tool_calls = turns[openTurn].tool_calls
      /\ new.hook_calls = turns[openTurn].hook_calls
  BY <1>2 DEF Turn
<1>4. turns' = [turns EXCEPT ![openTurn] = new]
  BY DEF AbortTurn
<1> HIDE DEF new
<1>5. ListsStay /\ Len(turns') - Len(turns) = 0
  BY <1>1, <1>3, <1>4, OpenTurnKeepsLists DEF calls
<1>6. aborts' = aborts + Bit("none" = "abort")
      /\ Len(turns') - Len(turns) = Bit("none" = "synthesized") + Bit("Abort" = "TurnStart")
  BY <1>1, <1>5 DEF Bit
<1> QED
  BY <1>1, <1>5, <1>6, TurnEventKeeps

LEMMA AssistantMessageKeeps ==
  ASSUME IInv, CInv, Moves, NEW ts \in Stamp, NEW model \in Model, NEW tokens \in Tokens,
         AssistantMessage(ts, model, tokens)
  PROVE  CInv'
<1>1. /\ ObserveAll("AssistantMessage", ts, "none")
      /\ openSkills' = Bumped(openSkills) /\ UNCHANGED calls /\ UNCHANGED skills /\ aborts' = aborts
      /\ aborts \in Nat /\ TurnsOK'
  BY DEF AssistantMessage, Observe, CInv, WarningsOK, Moves, TurnsMove
<1>2. ListsStay /\ Len(turns') - Len(turns) = 0
  <2>1. CASE openTurn = NoTurn
    BY <1>1, <2>1, TurnsKeepLists DEF AssistantMessage, calls
  <2>2. CASE openTurn # NoTurn
    <3> DEFINE new == [turns[openTurn] EXCEPT !.model = model, !.tokens = @ + tokens]
    <3>1. turns[openTurn] \in Turn
      BY <2>2, ElementOfSeq DEF IInv, TurnsOK, NoTurn
    <3>2. new \in Turn /\ new.tool_calls = turns[openTurn].tool_calls
          /\ new.hook_calls = turns[openTurn].hook_calls
      <4>1. turns[openTurn].tokens \in Nat /\ tokens \in Nat
        BY <3>1, ConstantsAssumption DEF Turn
      <4>2. turns[openTurn].tokens + tokens \in Nat
        BY <4>1
      <4> QED
        BY <3>1, <4>2 DEF Turn
    <3>3. turns' = [turns EXCEPT ![openTurn] = new]
      BY <2>2 DEF AssistantMessage
    <3> HIDE DEF new
    <3> QED
      BY <1>1, <2>2, <3>2, <3>3, OpenTurnKeepsLists DEF calls
  <2> QED
    BY <2>1, <2>2
<1>3. aborts' = aborts + Bit("none" = "abort")
      /\ Len(turns') - Len(turns) = Bit("none" = "synthesized") + Bit("AssistantMessage" = "TurnStart")
  BY <1>1, <1>2 DEF Bit
<1> QED
  BY <1>1, <1>2, <1>3, TurnEventKeeps

(* Events that leave the turns alone too.                                  *)
LEMMA OtherKeeps ==
  ASSUME IInv, CInv, Moves, NEW ts \in Stamp,
         \/ \E m \in Mode : ModeChanged(ts, m)
         \/ ModelChange(ts) \/ AbortNothing(ts)
         \/ \E u \in Usage : Shutdown(ts, u)
         \/ \E announced \in SUBSET McpTool : OtherEvent(ts, announced)
  PROVE  CInv'
<1>1. aborts \in Nat /\ TurnsOK'
  BY DEF CInv, WarningsOK, Moves, TurnsMove
<1>2. openSkills' = Bumped(openSkills) /\ UNCHANGED <<calls, skills, turns>>
  BY DEF ModeChanged, ModelChange, AbortNothing, Shutdown, OtherEvent
<1>3. ListsStay /\ Len(turns') - Len(turns) = 0
  BY <1>2, TurnsKeepLists DEF calls
<1>4. CASE AbortNothing(ts)
  <2>1. ObserveAll("Abort", ts, "abort") /\ aborts' = aborts + 1
    BY <1>4 DEF AbortNothing, Observe
  <2>2. aborts' = aborts + Bit("abort" = "abort")
        /\ Len(turns') - Len(turns) = Bit("abort" = "synthesized") + Bit("Abort" = "TurnStart")
    BY <1>3, <2>1 DEF Bit
  <2> QED
    BY <1>1, <1>2, <1>3, <2>1, <2>2, TurnEventKeeps
<1>5. CASE ~AbortNothing(ts)
  <2>1. PICK kind \in {"ModeChanged", "ModelChange", "Shutdown", "Other"} :
          ObserveAll(kind, ts, "none") /\ aborts' = aborts
    BY <1>5 DEF ModeChanged, ModelChange, Shutdown, OtherEvent, Observe
  <2>2. aborts' = aborts + Bit("none" = "abort")
        /\ Len(turns') - Len(turns) = Bit("none" = "synthesized") + Bit(kind = "TurnStart")
    BY <1>1, <1>3, <2>1 DEF Bit
  <2> QED
    BY <1>1, <1>2, <1>3, <2>1, <2>2, TurnEventKeeps
<1> QED
  BY <1>4, <1>5

-----------------------------------------------------------------------------
(* Invocations and starts                                                  *)

LEMMA SkillInvokedKeeps ==
  ASSUME IInv, CInv, Moves, NEW ts \in Stamp, NEW name \in SkillName, SkillInvoked(ts, name)
  PROVE  CInv'
<1> DEFINE s == [at |-> ts, triggered |-> <<>>, opened |-> Now]
           new == [name |-> name, index |-> Len(skills[name]) + 1, left |-> Window]
           ref == NextRef(skills, name)
<1>1. /\ ObserveAll("SkillInvoked", ts, "none") /\ UNCHANGED calls /\ aborts' = aborts
      /\ skills' = [skills EXCEPT ![name] = Append(@, s)]
      /\ openSkills' = Bumped(openSkills \cup {new})
      /\ turns' = Referenced(openTurn, "skill_calls", ref)
  BY DEF SkillInvoked, Observe
<1>2. aborts \in Nat /\ TurnsOK' /\ phase = "reading" /\ Now \in Nat
  <2>1. aborts \in Nat /\ TurnsOK'
    BY DEF CInv, WarningsOK, Moves, TurnsMove
  <2>2. phase = "reading"
    BY <1>1 DEF ObserveAll
  <2>3. Now \in Nat
    BY LenProperties DEF Now, IInv, SeenOK
  <2> QED
    BY <2>1, <2>2, <2>3
<1>3. s \in Skill /\ s.opened = Now /\ s.triggered = <<>>
  BY <1>2 DEF Skill
<1>4. openTurn \in 0..Len(turns) /\ Len(turns) \in Nat /\ "skill_calls" \in Lists
      /\ "tool_calls" \in Lists /\ "hook_calls" \in Lists
  BY LenProperties DEF IInv, TurnsOK, Lists
<1>5. ref \in Ref
  BY LenProperties DEF NextRef, Ref, IInv, SkillsOK
<1> HIDE DEF s, new, ref
<1>6. Len(turns') = Len(turns)
  BY <1>1, <1>4, <1>5, ReferencedTurns
<1>7. \A t \in 1..Len(turns) : /\ turns'[t]["tool_calls"] = turns[t]["tool_calls"]
                               /\ turns'[t]["hook_calls"] = turns[t]["hook_calls"]
  BY <1>1, <1>4, ReferencedLists
<1>8. Len(turns) # Len(turns) + 1 /\ Len(turns') - Len(turns) = 0
  BY <1>4, <1>6
<1>9. ListsStay
  BY <1>1, <1>6, <1>7, <1>8 DEF ListsStay, calls
<1>10. WindowsOpen'
  BY <1>1, <1>3, WindowsInvoked DEF new
<1>11. TriggeredOK'
  BY <1>1, <1>2, <1>3, TriggeredInvoked DEF calls
<1>12. aborts' = aborts + Bit("none" = "abort")
       /\ Len(turns') - Len(turns) = Bit("none" = "synthesized") + Bit("SkillInvoked" = "TurnStart")
  BY <1>1, <1>2, <1>8 DEF Bit
<1> QED
  BY <1>1, <1>2, <1>9, <1>10, <1>11, <1>12, QuietKeeps

(* What a start adds is open in the current turn.                          *)
LEMMA StartBegan ==
  ASSUME NEW S, NEW s \in Seq(S), NEW o \in S, NEW n, o.turn \in 0..n,
         \A k \in DOMAIN s : s[k].turn \in 0..n
  PROVE  \A k \in DOMAIN Append(s, o) : Append(s, o)[k].turn \in 0..n
<1> DEFINE a == Append(s, o)
<1>1. /\ \A i \in 1..Len(s) : a[i] = s[i]
      /\ a[Len(s) + 1] = o
      /\ Len(s) \in Nat /\ DOMAIN s = 1..Len(s) /\ DOMAIN a = 1..(Len(s) + 1)
  BY AppendProperties, LenProperties
<1> HIDE DEF a
<1>2. \A k \in DOMAIN a : a[k].turn \in 0..n
  BY <1>1
<1> QED
  BY <1>2 DEF a

LEMMA ToolStartKeeps ==
  ASSUME IInv, CInv, Moves, NEW ts \in Stamp, NEW name \in ToolName, NEW id \in CallId \cup {None},
         ToolStart(ts, name, id)
  PROVE  CInv'
<1> DEFINE o == [name |-> name, at |-> ts, turn |-> openTurn, id |-> id,
                 requested |-> id \in requested, opened |-> Now]
<1>1. /\ ObserveAll("ToolStart", ts, "none") /\ openTools' = Append(openTools, o)
      /\ requested' = requested \ {id} /\ openSkills' = Bumped(openSkills)
      /\ UNCHANGED <<turns, openHooks, tools, hooks, skills, aborts>>
  BY DEF ToolStart, Observe
<1>2. aborts \in Nat /\ TurnsOK' /\ Now \in Nat /\ requested \subseteq CallId
  BY <1>1, Reads DEF CInv, WarningsOK, BoundsOK, Moves, TurnsMove
<1>3. openTurn \in 0..Len(turns) /\ openTurn \in Nat /\ openTools \in Seq(OpenTool)
  BY LenProperties DEF IInv, TurnsOK, OpenOK
<1>4. o \in OpenTool /\ o.opened = Now /\ o.turn = openTurn /\ o.id = id
  BY <1>2, <1>3 DEF OpenTool
<1> HIDE DEF o
<1>5. ListsStay /\ Len(turns') - Len(turns) = 0
  BY <1>1, TurnsKeepLists
<1>6. aborts' = aborts + Bit("none" = "abort")
      /\ Len(turns') - Len(turns) = Bit("none" = "synthesized") + Bit("ToolStart" = "TurnStart")
  BY <1>1, <1>2, <1>5 DEF Bit
<1>7. MadeUpOK' /\ LeftOpenOK' /\ WarningsOK'
  BY <1>1, <1>2, <1>6, IdleWarned
<1>8. ToolsCounted'
  BY <1>1, <1>4, ToolStartCount
<1>9. HooksCounted'
  BY <1>1, HooksIdleCount DEF HooksIdle
<1>10. OpenBegan
  <2>1. \A k \in DOMAIN openTools : openTools[k].turn \in 0..Len(turns)
    BY DEF CInv, ListedOK, Began
  <2>2. \A k \in DOMAIN openTools' : openTools'[k].turn \in 0..Len(turns)
    BY <1>1, <1>3, <1>4, <2>1, StartBegan
  <2> QED
    BY <1>1, <2>2 DEF CInv, ListedOK, Began, OpenBegan
<1>11. ListedOK'
  BY <1>2, <1>5, <1>10, ListsStayListed
<1>12. NoMarkerMissesItsCall'
  <2>1. /\ \A k \in 1..Len(openTools) : openTools'[k] = openTools[k]
        /\ openTools'[Len(openTools) + 1] = o
        /\ Len(openTools) \in Nat /\ DOMAIN openTools = 1..Len(openTools)
        /\ DOMAIN openTools' = 1..(Len(openTools) + 1)
    BY <1>1, <1>3, <1>4, AppendProperties, LenProperties
  <2>2. ASSUME NEW k \in DOMAIN openTools' PROVE openTools'[k].id \notin requested'
    <3>1. CASE k \in DOMAIN openTools
      BY <1>1, <2>1, <3>1 DEF CInv, NoMarkerMissesItsCall
    <3>2. CASE k = Len(openTools) + 1
      BY <1>1, <1>4, <2>1, <3>2
    <3> QED
      BY <2>1, <3>1, <3>2
  <2> QED
    BY <2>2 DEF NoMarkerMissesItsCall
<1>13. WindowsOpen' /\ TriggeredOK'
  BY <1>1, NothingTriggered
<1>14. BoundsOK'
  BY <1>1, <1>2, BoundsRead
<1> QED
  BY <1>7, <1>8, <1>9, <1>11, <1>12, <1>13, <1>14 DEF CInv

LEMMA HookStartKeeps ==
  ASSUME IInv, CInv, Moves, NEW ts \in Stamp, NEW name \in HookName, HookStart(ts, name)
  PROVE  CInv'
<1> DEFINE o == [name |-> name, at |-> ts, turn |-> openTurn, opened |-> Now]
<1>1. /\ ObserveAll("HookStart", ts, "none") /\ openHooks' = Append(openHooks, o)
      /\ openSkills' = Bumped(openSkills)
      /\ UNCHANGED <<turns, openTools, tools, hooks, requested, skills, aborts>>
  BY DEF HookStart, Observe
<1>2. aborts \in Nat /\ TurnsOK' /\ Now \in Nat /\ requested \subseteq CallId
  BY <1>1, Reads DEF CInv, WarningsOK, BoundsOK, Moves, TurnsMove
<1>3. openTurn \in 0..Len(turns) /\ openTurn \in Nat /\ openHooks \in Seq(OpenHook)
  BY LenProperties DEF IInv, TurnsOK, OpenOK
<1>4. o \in OpenHook /\ o.opened = Now /\ o.turn = openTurn
  BY <1>2, <1>3 DEF OpenHook
<1> HIDE DEF o
<1>5. ListsStay /\ Len(turns') - Len(turns) = 0
  BY <1>1, TurnsKeepLists
<1>6. aborts' = aborts + Bit("none" = "abort")
      /\ Len(turns') - Len(turns) = Bit("none" = "synthesized") + Bit("HookStart" = "TurnStart")
  BY <1>1, <1>2, <1>5 DEF Bit
<1>7. MadeUpOK' /\ LeftOpenOK' /\ WarningsOK'
  BY <1>1, <1>2, <1>6, IdleWarned
<1>8. HooksCounted'
  BY <1>1, <1>4, HookStartCount
<1>9. ToolsCounted'
  <2>1. ToolsIdle
    BY <1>1 DEF ToolsIdle, CInv, ToolsCounted, Counted
  <2> QED
    BY <1>1, <2>1, ToolsIdleCount
<1>10. OpenBegan
  <2>1. \A k \in DOMAIN openHooks : openHooks[k].turn \in 0..Len(turns)
    BY DEF CInv, ListedOK, Began
  <2>2. \A k \in DOMAIN openHooks' : openHooks'[k].turn \in 0..Len(turns)
    BY <1>1, <1>3, <1>4, <2>1, StartBegan
  <2> QED
    BY <1>1, <2>2 DEF CInv, ListedOK, Began, OpenBegan
<1>11. ListedOK'
  BY <1>2, <1>5, <1>10, ListsStayListed
<1>12. NoMarkerMissesItsCall'
  BY <1>1 DEF CInv, NoMarkerMissesItsCall
<1>13. WindowsOpen' /\ TriggeredOK'
  BY <1>1, NothingTriggered
<1>14. BoundsOK'
  BY <1>1, <1>2, BoundsRead
<1> QED
  BY <1>7, <1>8, <1>9, <1>11, <1>12, <1>13, <1>14 DEF CInv

(* A marker changes an open call or waits for none that is open.           *)
LEMMA UserRequestedKeeps ==
  ASSUME IInv, CInv, Moves, NEW ts \in Stamp, NEW id \in CallId \cup {None}, UserRequested(ts, id)
  PROVE  CInv'
<1> DEFINE matching == {k \in DOMAIN openTools : id = None \/ openTools[k].id = id}
           newest == CHOOSE k \in matching : \A j \in matching : j <= k
<1>1. /\ ObserveAll("UserRequested", ts, "none") /\ openSkills' = Bumped(openSkills)
      /\ UNCHANGED <<turns, openHooks, tools, hooks, skills, aborts>>
      /\ \/ matching # {} /\ openTools' = [openTools EXCEPT ![newest].requested = TRUE]
            /\ requested' = requested
         \/ matching = {} /\ requested' = requested \cup ({id} \ {None}) /\ openTools' = openTools
  BY DEF UserRequested, Observe
<1>2. aborts \in Nat /\ TurnsOK' /\ requested \subseteq CallId
  BY DEF CInv, WarningsOK, BoundsOK, Moves, TurnsMove
<1>3. openTools \in Seq(OpenTool) /\ DOMAIN openTools = 1..Len(openTools)
  BY LenProperties DEF IInv, OpenOK
<1> HIDE DEF newest
<1>4. /\ DOMAIN openTools' = DOMAIN openTools
      /\ \A k \in DOMAIN openTools : /\ openTools'[k].opened = openTools[k].opened
                                     /\ openTools'[k].turn = openTools[k].turn
                                     /\ openTools'[k].id = openTools[k].id
  <2>1. \A k \in DOMAIN openTools : openTools[k] \in OpenTool
    BY <1>3, ElementOfSeq
  <2>2. CASE openTools' = [openTools EXCEPT ![newest].requested = TRUE]
    <3>1. DOMAIN openTools' = DOMAIN openTools
      BY <2>2
    <3>2. ASSUME NEW k \in DOMAIN openTools
          PROVE  /\ openTools'[k].opened = openTools[k].opened
                 /\ openTools'[k].turn = openTools[k].turn
                 /\ openTools'[k].id = openTools[k].id
      <4>1. openTools'[k] = IF k = newest THEN [openTools[k] EXCEPT !.requested = TRUE] ELSE openTools[k]
        BY <2>2
      <4> QED
        BY <2>1, <4>1 DEF OpenTool
    <3> QED
      BY <3>1, <3>2
  <2>3. CASE openTools' = openTools
    BY <2>3
  <2> QED
    BY <1>1, <2>2, <2>3
<1>5. ListsStay /\ Len(turns') - Len(turns) = 0
  BY <1>1, TurnsKeepLists
<1>6. aborts' = aborts + Bit("none" = "abort")
      /\ Len(turns') - Len(turns) = Bit("none" = "synthesized") + Bit("UserRequested" = "TurnStart")
  BY <1>1, <1>2, <1>5 DEF Bit
<1>7. MadeUpOK' /\ LeftOpenOK' /\ WarningsOK'
  BY <1>1, <1>2, <1>6, IdleWarned
<1>8. ToolsCounted' /\ HooksCounted'
  <2>1. Distinct(openTools)
    BY DEF CInv, ToolsCounted, Counted
  <2>2. OpenedBy(openTools') = OpenedBy(openTools)
    BY <1>4 DEF OpenedBy
  <2>3. Distinct(openTools')
    BY <1>4, <2>1 DEF Distinct
  <2>4. ToolsIdle /\ HooksIdle
    BY <1>1, <2>2, <2>3 DEF ToolsIdle, HooksIdle
  <2> QED
    BY <1>1, <2>4, ToolsIdleCount, HooksIdleCount
<1>9. OpenBegan
  BY <1>1, <1>4 DEF CInv, ListedOK, Began, OpenBegan
<1>10. ListedOK'
  BY <1>2, <1>5, <1>9, ListsStayListed
<1>11. NoMarkerMissesItsCall'
  <2>1. \A k \in DOMAIN openTools : openTools[k].id \notin requested
    BY DEF CInv, NoMarkerMissesItsCall
  <2>2. \A k \in DOMAIN openTools : openTools[k].id \notin requested'
    BY <1>1, <2>1
  <2> QED
    BY <1>4, <2>2 DEF NoMarkerMissesItsCall
<1>12. WindowsOpen' /\ TriggeredOK'
  BY <1>1, NothingTriggered
<1>13. requested' \subseteq CallId
  BY <1>1, <1>2
<1>14. BoundsOK'
  BY <1>1, <1>13, BoundsRead
<1> QED
  BY <1>7, <1>8, <1>10, <1>11, <1>12, <1>14 DEF CInv

-----------------------------------------------------------------------------
(* Events that end a call                                                  *)

(* What is open without an entry that was open.                            *)
Removes(open, rest, o) == /\ \E k \in DOMAIN open : o = open[k]
                          /\ \A k \in DOMAIN rest : \E j \in DOMAIN open : rest[k] = open[j]

LEMMA FrontRemoves == ASSUME NEW S, NEW s \in Seq(S), s # <<>> PROVE Removes(s, Front(s), Last(s))
<1>1. Len(s) \in Nat \ {0} /\ DOMAIN s = 1..Len(s)
  BY EmptySeq, LenProperties
<1>2. \A i \in 1..(Len(s) - 1) : s[i] \in S
  BY <1>1, ElementOfSeq
<1>3. Front(s) \in Seq(S) /\ Len(Front(s)) = Len(s) - 1
      /\ \A i \in 1..(Len(s) - 1) : Front(s)[i] = s[i]
  BY <1>1, <1>2, SubSeqProperties DEF Front
<1> DEFINE f == Front(s)
<1>4. DOMAIN f = 1..(Len(s) - 1) /\ \A i \in 1..(Len(s) - 1) : f[i] = s[i]
  BY <1>3, LenProperties
<1>5. Last(s) = s[Len(s)]
  BY DEF Last
<1> HIDE DEF f
<1>6. \A k \in DOMAIN f : \E j \in DOMAIN s : f[k] = s[j]
  BY <1>1, <1>4
<1>7. \E k \in DOMAIN s : Last(s) = s[k]
  BY <1>1, <1>5
<1> QED
  BY <1>6, <1>7 DEF f, Removes

LEMMA TailRemoves == ASSUME NEW S, NEW s \in Seq(S), s # <<>> PROVE Removes(s, Tail(s), Head(s))
<1>1. Len(s) \in Nat \ {0} /\ DOMAIN s = 1..Len(s) /\ Head(s) = s[1]
  BY EmptySeq, LenProperties
<1>2. Tail(s) \in Seq(S) /\ Len(Tail(s)) = Len(s) - 1
      /\ \A i \in 1..(Len(s) - 1) : Tail(s)[i] = s[i + 1]
  BY HeadTailProperties
<1> DEFINE f == Tail(s)
<1>3. DOMAIN f = 1..(Len(s) - 1) /\ \A i \in 1..(Len(s) - 1) : f[i] = s[i + 1]
  BY <1>2, LenProperties
<1> HIDE DEF f
<1>4. ASSUME NEW k \in DOMAIN f PROVE \E j \in DOMAIN s : f[k] = s[j]
  <2>1. k + 1 \in DOMAIN s /\ f[k] = s[k + 1]
    BY <1>1, <1>3
  <2> QED
    BY <2>1
<1>5. \E k \in DOMAIN s : Head(s) = s[k]
  BY <1>1
<1> QED
  BY <1>4, <1>5 DEF f, Removes

(* The rest began in turns there are, and so did the entry.                *)
LEMMA RestBegan ==
  ASSUME CInv, UNCHANGED openHooks, Len(turns') = Len(turns),
         NEW o, Removes(openTools, openTools', o)
  PROVE  OpenBegan /\ o.turn \in 0..Len(turns)
  BY DEF CInv, ListedOK, Began, OpenBegan, Removes

LEMMA RestBeganHooks ==
  ASSUME CInv, UNCHANGED openTools, Len(turns') = Len(turns),
         NEW o, Removes(openHooks, openHooks', o)
  PROVE  OpenBegan /\ o.turn \in 0..Len(turns)
  BY DEF CInv, ListedOK, Began, OpenBegan, Removes

(* The call an entry becomes.                                              *)
LEMMA ToolCallParts ==
  ASSUME NEW o, NEW ts, NEW status, NEW id
  PROVE  LET e == ToolCall(o, ts, status, id) IN
           e.opened = o.opened /\ e.closed = Now /\ e.status = status /\ e.turn = o.turn
  BY DEF ToolCall

(* The parts of the invariant a commit during reading changes in one way,  *)
(* whether its call was started or is made up.                             *)
LEMMA ToolCommits ==
  ASSUME IInv, CInv, Moves, NEW kind, kind \notin {"TurnStart", "HookStart", "HookEnd"}, NEW ts,
         NEW warning \in {"none", "synthesized"}, ObserveAll(kind, ts, warning),
         NEW name \in ToolNames, NEW e \in ToolRecord, CommitTool(name, e),
         e.closed = Now, e.status # "open", Bit(warning = "synthesized") = Bit(e.status = "orphan"),
         e.turn \in 0..Len(turns), OpenBegan,
         UNCHANGED <<openHooks, hooks, requested, aborts>>, openSkills' = Bumped(openSkills),
         ToolsCounted', NoMarkerMissesItsCall'
  PROVE  CInv'
<1> DEFINE new == NextRef(tools, name)
<1>1. /\ Added(tools, tools', new, e) /\ new \in Ref /\ skills' = Triggered(new)
      /\ turns' = Referenced(e.turn, "tool_calls", new)
  BY ToolCommitted
<1> HIDE DEF new
<1>2. TurnsOK' /\ ToolsOK' /\ HooksOK'
  BY DEF Moves, TurnsMove, ToolsMove, HooksMove
<1>3. aborts \in Nat /\ requested' \subseteq CallId
  BY DEF CInv, WarningsOK, BoundsOK
<1>4. aborts' = aborts + Bit(warning = "abort")
  BY <1>3 DEF Bit
<1>5. /\ WarningsOK' /\ warnings'["open"] = warnings["open"] /\ WarningsTold \in Nat
      /\ WarningsTold' = WarningsTold + Bit(warning = "synthesized") + Bit(kind = "TurnStart")
  BY <1>4, Warns
<1>6. Len(turns') = Len(turns)
  BY <1>1, ReferencedTurns DEF Lists
<1>7. WarningsTold' = WarningsTold + Bit(e.status = "orphan")
  <2>1. Bit(kind = "TurnStart") = 0 /\ Bit(e.status = "orphan") \in Nat
    BY DEF Bit
  <2> QED
    BY <1>5, <2>1
<1>8. MadeUpOK'
  BY <1>1, <1>6, <1>7, MadeUpTool
<1>9. Fresh
  BY <1>1 DEF Fresh, Added
<1>10. LeftOpenOK'
  BY <1>2, <1>5, <1>9, LeftOpenRead DEF ToolsOK, HooksOK
<1>11. HooksCounted'
  BY HooksIdleCount DEF HooksIdle
<1>12. ListedOK'
  BY <1>1, <1>2, ToolListed
<1>13. TriggeredOK' /\ SameSkills
  BY <1>1, TriggeredMore
<1>14. WindowsOpen'
  BY <1>13, WindowsBump
<1>15. BoundsOK'
  BY <1>3, BoundsRead
<1> QED
  BY <1>5, <1>8, <1>10, <1>11, <1>12, <1>13, <1>14, <1>15 DEF CInv

LEMMA HookCommits ==
  ASSUME IInv, CInv, Moves, NEW kind, kind \notin {"TurnStart", "ToolStart", "ToolComplete"}, NEW ts,
         NEW warning \in {"none", "synthesized"}, ObserveAll(kind, ts, warning),
         NEW name \in HookName, NEW e \in HookRecord, CommitHook(name, e),
         e.closed = Now, Bit(warning = "synthesized") = Bit(e.synthesized),
         e.turn \in 0..Len(turns), OpenBegan,
         UNCHANGED <<openTools, tools, requested, skills, aborts>>, openSkills' = Bumped(openSkills),
         HooksCounted'
  PROVE  CInv'
<1> DEFINE new == NextRef(hooks, name)
<1>1. /\ Added(hooks, hooks', new, e) /\ new \in Ref
      /\ turns' = Referenced(e.turn, "hook_calls", new)
  BY HookCommitted
<1> HIDE DEF new
<1>2. TurnsOK' /\ ToolsOK' /\ HooksOK'
  BY DEF Moves, TurnsMove, ToolsMove, HooksMove
<1>3. aborts \in Nat /\ requested' \subseteq CallId
  BY DEF CInv, WarningsOK, BoundsOK
<1>4. aborts' = aborts + Bit(warning = "abort")
  BY <1>3 DEF Bit
<1>5. /\ WarningsOK' /\ warnings'["open"] = warnings["open"] /\ WarningsTold \in Nat
      /\ WarningsTold' = WarningsTold + Bit(warning = "synthesized") + Bit(kind = "TurnStart")
  BY <1>4, Warns
<1>6. Len(turns') = Len(turns)
  BY <1>1, ReferencedTurns DEF Lists
<1>7. WarningsTold' = WarningsTold + Bit(e.synthesized)
  <2>1. Bit(kind = "TurnStart") = 0 /\ Bit(e.synthesized) \in Nat
    BY DEF Bit
  <2> QED
    BY <1>5, <2>1
<1>8. MadeUpOK'
  BY <1>1, <1>6, <1>7, MadeUpHook
<1>9. Fresh
  BY <1>1 DEF Fresh, Added
<1>10. LeftOpenOK'
  BY <1>2, <1>5, <1>9, LeftOpenRead DEF ToolsOK, HooksOK
<1>11. ToolsCounted'
  <2>1. ToolsIdle
    BY DEF ToolsIdle, CInv, ToolsCounted, Counted
  <2> QED
    BY <2>1, ToolsIdleCount
<1>12. ListedOK'
  BY <1>1, <1>2, HookListed
<1>13. WindowsOpen' /\ TriggeredOK'
  BY NothingTriggered
<1>14. NoMarkerMissesItsCall'
  BY DEF CInv, NoMarkerMissesItsCall
<1>15. BoundsOK'
  BY <1>3, BoundsRead
<1> QED
  BY <1>5, <1>8, <1>10, <1>11, <1>12, <1>13, <1>14, <1>15 DEF CInv

(* An open call is ended: by its completion or by an abort.                *)
LEMMA ToolEnds ==
  ASSUME IInv, CInv, Moves, NEW kind \in {"ToolComplete", "Abort"}, NEW ts \in Stamp,
         ObserveAll(kind, ts, "none"), openTools # <<>>, openTools' = Front(openTools),
         NEW status \in Status \ {"orphan", "open"}, NEW id \in CallId \cup {None},
         CommitTool(Last(openTools).name, ToolCall(Last(openTools), ts, status, id)),
         UNCHANGED <<openHooks, hooks, requested, aborts>>, openSkills' = Bumped(openSkills)
  PROVE  CInv'
<1> DEFINE o == Last(openTools)
           e == ToolCall(o, ts, status, id)
           new == NextRef(tools, o.name)
<1>1. openTools \in Seq(OpenTool) /\ Distinct(openTools)
  BY DEF IInv, OpenOK, CInv, ToolsCounted, Counted
<1>2. o \in OpenTool
  BY <1>1, EntryEnds
<1>3. o.name \in ToolNames /\ o.at \in Stamp /\ o.turn \in Nat /\ o.requested \in BOOLEAN /\ o.opened \in Nat
  BY <1>2 DEF OpenTool, ToolNames
<1>4. e \in ToolRecord
  BY <1>3, ToolCallTyped
<1>5. e.opened = o.opened /\ e.closed = Now /\ e.status = status /\ e.turn = o.turn
  BY ToolCallParts
<1>6. CommitTool(o.name, e)
  OBVIOUS
<1>7. Takes(openTools, openTools', o) /\ Removes(openTools, openTools', o)
  BY <1>1, FrontTakes, FrontRemoves
<1> HIDE DEF o, e
<1>8. Added(tools, tools', new, e) /\ turns' = Referenced(e.turn, "tool_calls", new) /\ new \in Ref
  BY <1>3, <1>4, <1>6, ToolCommitted
<1> HIDE DEF new
<1>9. Len(turns') = Len(turns)
  BY <1>8, ReferencedTurns DEF Lists
<1>10. OpenBegan /\ o.turn \in 0..Len(turns)
  BY <1>7, <1>9, RestBegan
<1>11. EndsOf("ToolStart", "ToolComplete", e)
  BY <1>5, EndsRead
<1>12. ToolsCounted'
  BY <1>5, <1>7, <1>8, <1>11, ToolEndCount
<1>13. NoMarkerMissesItsCall'
  BY <1>7 DEF CInv, NoMarkerMissesItsCall, Removes
<1>14. Bit("none" = "synthesized") = Bit(e.status = "orphan") /\ e.status # "open"
  BY <1>5 DEF Bit
<1>15. e.closed = Now /\ e.turn \in 0..Len(turns)
  BY <1>5, <1>10
<1> QED
  BY <1>3, <1>4, <1>6, <1>10, <1>12, <1>13, <1>14, <1>15, ToolCommits

LEMMA HookEnds ==
  ASSUME IInv, CInv, Moves, NEW kind \in {"HookEnd", "Abort"}, NEW ts \in Stamp,
         ObserveAll(kind, ts, "none"), openHooks # <<>>, openHooks' = Front(openHooks),
         CommitHook(Last(openHooks).name, HookCall(Last(openHooks), ts, FALSE)),
         UNCHANGED <<openTools, tools, requested, skills, aborts>>, openSkills' = Bumped(openSkills)
  PROVE  CInv'
<1> DEFINE o == Last(openHooks)
           e == HookCall(o, ts, FALSE)
           new == NextRef(hooks, o.name)
<1>1. openHooks \in Seq(OpenHook) /\ Distinct(openHooks)
  BY DEF IInv, OpenOK, CInv, HooksCounted, Counted
<1>2. o \in OpenHook
  BY <1>1, EntryEnds
<1>3. o.name \in HookName /\ o.at \in Stamp /\ o.turn \in Nat /\ o.opened \in Nat
  BY <1>2 DEF OpenHook
<1>4. e \in HookRecord
  BY <1>3, HookCallTyped
<1>5. e.opened = o.opened /\ e.closed = Now /\ e.synthesized = FALSE /\ e.turn = o.turn
  BY DEF HookCall
<1>6. CommitHook(o.name, e)
  OBVIOUS
<1>7. Takes(openHooks, openHooks', o) /\ Removes(openHooks, openHooks', o)
  BY <1>1, FrontTakes, FrontRemoves
<1> HIDE DEF o, e
<1>8. Added(hooks, hooks', new, e) /\ turns' = Referenced(e.turn, "hook_calls", new) /\ new \in Ref
  BY <1>3, <1>4, <1>6, HookCommitted
<1> HIDE DEF new
<1>9. Len(turns') = Len(turns)
  BY <1>8, ReferencedTurns DEF Lists
<1>10. OpenBegan /\ o.turn \in 0..Len(turns)
  BY <1>7, <1>9, RestBeganHooks
<1>11. EndsOf("HookStart", "HookEnd", e)
  BY <1>5, EndsRead
<1>12. HooksCounted'
  BY <1>5, <1>7, <1>8, <1>11, HookEndCount
<1>13. Bit("none" = "synthesized") = Bit(e.synthesized)
  BY <1>5 DEF Bit
<1>14. e.closed = Now /\ e.turn \in 0..Len(turns)
  BY <1>5, <1>10
<1> QED
  BY <1>3, <1>4, <1>6, <1>10, <1>12, <1>13, <1>14, HookCommits

LEMMA ToolCompleteKeeps ==
  ASSUME IInv, CInv, Moves, NEW ts \in Stamp, NEW id \in CallId \cup {None}, NEW outcome \in Outcomes,
         ToolComplete(ts, id, outcome)
  PROVE  CInv'
<1>1. /\ UNCHANGED <<openTurn, openHooks, hooks, requested, aborts>>
      /\ openSkills' = Bumped(openSkills)
  BY DEF ToolComplete
<1>2. CASE openTools # <<>>
  <2> DEFINE o == Last(openTools)
             its == IF id # None THEN id ELSE o.id
  <2>1. o \in OpenTool
    BY <1>2, EntryEnds DEF IInv, OpenOK
  <2>2. its \in CallId \cup {None}
    BY <2>1 DEF OpenTool
  <2>3. /\ CommitTool(o.name, ToolCall(o, ts, outcome, its))
        /\ openTools' = Front(openTools) /\ ObserveAll("ToolComplete", ts, "none")
    BY <1>2 DEF ToolComplete, Observe
  <2>4. outcome \in Status \ {"orphan", "open"}
    BY ConstantsAssumption DEF Status
  <2> HIDE DEF its
  <2> QED
    BY <1>1, <1>2, <2>2, <2>3, <2>4, ToolEnds
<1>3. CASE openTools = <<>>
  <2> DEFINE o == [at |-> ts, turn |-> openTurn, id |-> None, requested |-> FALSE, opened |-> Now]
             e == ToolCall(o, ts, "orphan", id)
             new == NextRef(tools, OrphanName)
  <2>1. CommitTool(OrphanName, e) /\ openTools' = openTools /\ ObserveAll("ToolComplete", ts, "synthesized")
    BY <1>3 DEF ToolComplete, Observe
  <2>2. openTurn \in 0..Len(turns) /\ openTurn \in Nat /\ Now \in Nat
    BY LenProperties DEF IInv, TurnsOK, SeenOK, Now
  <2>3. o.at \in Stamp /\ o.turn \in Nat /\ o.requested \in BOOLEAN /\ o.opened \in Nat
        /\ o.opened = Now /\ o.turn = openTurn
    BY <2>2
  <2> HIDE DEF o
  <2>4. e \in ToolRecord
    BY <2>3, ToolCallTyped DEF Status
  <2>5. e.opened = o.opened /\ e.closed = Now /\ e.status = "orphan" /\ e.turn = o.turn
    BY ToolCallParts
  <2> HIDE DEF e
  <2>6. Added(tools, tools', new, e) /\ turns' = Referenced(e.turn, "tool_calls", new) /\ new \in Ref
    BY <2>1, <2>4, ToolCommitted DEF ToolNames
  <2> HIDE DEF new
  <2>7. Len(turns') = Len(turns)
    BY <2>6, ReferencedTurns DEF Lists
  <2>8. OpenBegan
    BY <1>1, <2>1, <2>7, OpenStaysBegan
  <2>9. ToolsCounted'
    BY <2>1, <2>3, <2>5, <2>6, ToolOrphanCount
  <2>10. NoMarkerMissesItsCall'
    BY <1>1, <2>1 DEF CInv, NoMarkerMissesItsCall
  <2>11. Bit("synthesized" = "synthesized") = Bit(e.status = "orphan") /\ e.status # "open"
    BY <2>5 DEF Bit
  <2>12. e.turn \in 0..Len(turns) /\ OrphanName \in ToolNames
    BY <2>2, <2>3, <2>5 DEF ToolNames
  <2> QED
    BY <1>1, <2>1, <2>4, <2>5, <2>8, <2>9, <2>10, <2>11, <2>12, ToolCommits
<1> QED
  BY <1>2, <1>3

LEMMA HookEndKeeps ==
  ASSUME IInv, CInv, Moves, NEW ts \in Stamp, NEW name \in HookName, HookEnd(ts, name)
  PROVE  CInv'
<1>1. /\ UNCHANGED <<openTurn, openTools, tools, requested, skills, aborts>>
      /\ openSkills' = Bumped(openSkills)
  BY DEF HookEnd
<1>2. CASE openHooks # <<>>
  <2>1. /\ CommitHook(Last(openHooks).name, HookCall(Last(openHooks), ts, FALSE))
        /\ openHooks' = Front(openHooks) /\ ObserveAll("HookEnd", ts, "none")
    BY <1>2 DEF HookEnd, Observe
  <2> QED
    BY <1>1, <1>2, <2>1, HookEnds
<1>3. CASE openHooks = <<>>
  <2> DEFINE o == [at |-> ts, turn |-> openTurn, opened |-> Now]
             e == HookCall(o, ts, TRUE)
             new == NextRef(hooks, name)
  <2>1. CommitHook(name, e) /\ openHooks' = openHooks /\ ObserveAll("HookEnd", ts, "synthesized")
    BY <1>3 DEF HookEnd, Observe
  <2>2. openTurn \in 0..Len(turns) /\ openTurn \in Nat /\ Now \in Nat
    BY LenProperties DEF IInv, TurnsOK, SeenOK, Now
  <2>3. o.at \in Stamp /\ o.turn \in Nat /\ o.opened \in Nat /\ o.opened = Now /\ o.turn = openTurn
    BY <2>2
  <2> HIDE DEF o
  <2>4. e \in HookRecord
    BY <2>3, HookCallTyped
  <2>5. e.opened = o.opened /\ e.closed = Now /\ e.synthesized = TRUE /\ e.turn = o.turn
    BY DEF HookCall
  <2> HIDE DEF e
  <2>6. Added(hooks, hooks', new, e) /\ turns' = Referenced(e.turn, "hook_calls", new) /\ new \in Ref
    BY <2>1, <2>4, HookCommitted
  <2> HIDE DEF new
  <2>7. Len(turns') = Len(turns)
    BY <2>6, ReferencedTurns DEF Lists
  <2>8. OpenBegan
    BY <1>1, <2>1, <2>7, OpenStaysBegan
  <2>9. HooksCounted'
    BY <2>1, <2>3, <2>5, <2>6, HookOrphanCount
  <2>10. Bit("synthesized" = "synthesized") = Bit(e.synthesized)
    BY <2>5 DEF Bit
  <2>11. e.turn \in 0..Len(turns)
    BY <2>2, <2>3, <2>5
  <2> QED
    BY <1>1, <2>1, <2>4, <2>5, <2>8, <2>9, <2>10, <2>11, HookCommits
<1> QED
  BY <1>2, <1>3

LEMMA AbortCallKeeps ==
  ASSUME IInv, CInv, Moves, NEW ts \in Stamp, AbortTool(ts) \/ AbortHook(ts) PROVE CInv'
<1>1. CASE AbortTool(ts)
  <2>1. /\ openTools # <<>> /\ openTools' = Front(openTools) /\ ObserveAll("Abort", ts, "none")
        /\ CommitTool(Last(openTools).name, ToolCall(Last(openTools), ts, "aborted", Last(openTools).id))
        /\ UNCHANGED <<openHooks, hooks, requested, aborts>> /\ openSkills' = Bumped(openSkills)
    BY <1>1 DEF AbortTool, Observe
  <2>2. Last(openTools) \in OpenTool
    BY <2>1, EntryEnds DEF IInv, OpenOK
  <2>3. Last(openTools).id \in CallId \cup {None} /\ "aborted" \in Status \ {"orphan", "open"}
    BY <2>2 DEF OpenTool, Status
  <2> QED
    BY <2>1, <2>3, ToolEnds
<1>2. CASE AbortHook(ts)
  <2>1. /\ openHooks # <<>> /\ openHooks' = Front(openHooks) /\ ObserveAll("Abort", ts, "none")
        /\ CommitHook(Last(openHooks).name, HookCall(Last(openHooks), ts, FALSE))
        /\ UNCHANGED <<openTools, tools, requested, skills, aborts>> /\ openSkills' = Bumped(openSkills)
    BY <1>2 DEF AbortHook, Observe
  <2> QED
    BY <2>1, HookEnds
<1> QED
  BY <1>1, <1>2

-----------------------------------------------------------------------------
(* finalize                                                                *)

(* Closing what is left open adds one to the warnings of that kind only.   *)
LEMMA OneMoreWarns ==
  ASSUME IInv, CInv, OneMoreOpen, UNCHANGED <<seen, aborts, phase>>, phase = "finalizing"
  PROVE  /\ WarningsOK' /\ WarningsTold \in Nat /\ WarningsTold' = WarningsTold
         /\ warnings["open"] \in Nat /\ warnings'["open"] = warnings["open"] + 1
<1>1. /\ warnings \in [{"synthesized", "open", "abort", "order"} -> Nat]
      /\ aborts \in Nat /\ warnings["abort"] = aborts
  BY DEF CInv, WarningsOK
<1>2. /\ warnings' = [warnings EXCEPT !["open"] = warnings["open"] + 1]
      /\ warnings["open"] + 1 \in Nat
  BY <1>1 DEF OneMoreOpen
<1>3. /\ warnings' \in [{"synthesized", "open", "abort", "order"} -> Nat]
      /\ warnings'["synthesized"] = warnings["synthesized"] /\ warnings'["abort"] = warnings["abort"]
      /\ warnings'["open"] = warnings["open"] + 1
  BY <1>1, <1>2
<1>4. WarningsOK'
  BY <1>1, <1>3 DEF WarningsOK
<1>5. Positions("TurnStart")' = Positions("TurnStart")
  BY DEF Positions
<1>6. WarningsTold' = WarningsTold
  BY <1>3, <1>5 DEF WarningsTold
<1>7. WarningsTold \in Nat
  <2>1. Cardinality(Positions("TurnStart")) \in Nat /\ warnings["synthesized"] \in Nat
    BY <1>1, PositionsFinite
  <2> QED
    BY <2>1 DEF WarningsTold
<1> QED
  BY <1>1, <1>3, <1>4, <1>6, <1>7

LEMMA CloseOpenToolKeeps == ASSUME IInv, CInv, Moves, CloseOpenTool PROVE CInv'
<1> DEFINE o == Head(openTools)
           e == ToolCall(o, clock, "open", o.id)
           new == NextRef(tools, o.name)
<1>1. /\ phase = "finalizing" /\ openTools # <<>> /\ openTools' = Tail(openTools) /\ OneMoreOpen
      /\ CommitTool(o.name, e)
      /\ UNCHANGED <<seen, openHooks, hooks, requested, openSkills, aborts, declared, phase>>
  BY DEF CloseOpenTool
<1>2. /\ openTools \in Seq(OpenTool) /\ Distinct(openTools) /\ clock \in Stamp
      /\ TurnsOK' /\ ToolsOK' /\ HooksOK'
  BY <1>1 DEF IInv, OpenOK, SeenOK, CInv, ToolsCounted, Counted, Moves, TurnsMove, ToolsMove, HooksMove
<1>3. o \in OpenTool
  BY <1>1, <1>2, EntryEnds
<1>4. o.name \in ToolNames /\ o.at \in Stamp /\ o.turn \in Nat /\ o.requested \in BOOLEAN
      /\ o.opened \in Nat /\ o.id \in CallId \cup {None}
  BY <1>3 DEF OpenTool, ToolNames
<1>5. e \in ToolRecord
  BY <1>2, <1>4, ToolCallTyped DEF Status
<1>6. e.opened = o.opened /\ e.closed = Now /\ e.status = "open" /\ e.turn = o.turn
  BY ToolCallParts
<1>7. Takes(openTools, openTools', o) /\ Removes(openTools, openTools', o)
  BY <1>1, <1>2, TailTakes, TailRemoves
<1> HIDE DEF o, e
<1>8. /\ Added(tools, tools', new, e) /\ turns' = Referenced(e.turn, "tool_calls", new)
      /\ new \in Ref /\ skills' = Triggered(new)
  BY <1>1, <1>4, <1>5, ToolCommitted
<1> HIDE DEF new
<1>9. Len(turns') = Len(turns)
  BY <1>8, ReferencedTurns DEF Lists
<1>10. OpenBegan /\ e.turn \in 0..Len(turns)
  BY <1>1, <1>6, <1>7, <1>9, RestBegan
<1>11. ToolsCounted'
  <2>1. EndsOf("ToolStart", "ToolComplete", e)
    BY <1>1, EndsFinal
  <2> QED
    BY <1>6, <1>7, <1>8, <2>1, ToolEndCount
<1>12. HooksCounted'
  BY <1>1 DEF CInv, HooksCounted, Positions
<1>13. ListedOK'
  BY <1>1, <1>2, <1>8, <1>10, ToolListed
<1>14. NoMarkerMissesItsCall'
  BY <1>1, <1>7 DEF CInv, NoMarkerMissesItsCall, Removes
<1>15. /\ WarningsOK' /\ WarningsTold \in Nat /\ WarningsTold' = WarningsTold
       /\ warnings["open"] \in Nat /\ warnings'["open"] = warnings["open"] + 1
  BY <1>1, OneMoreWarns
<1>16. MadeUpOK'
  <2>1. WarningsTold' = WarningsTold + Bit(e.status = "orphan")
    BY <1>6, <1>15 DEF Bit
  <2> QED
    BY <1>1, <1>8, <1>9, <2>1, MadeUpTool
<1>17. LeftOpenOK'
  <2> DEFINE S == LeftOpen(tools)
             T == Late(hooks, Len(seen))
  <2>1. /\ IsFiniteSet(S) /\ IsFiniteSet(T)
        /\ warnings["open"] = Cardinality(S) + Cardinality(T)
    BY DEF CInv, LeftOpenOK
  <2>2. S' = S \cup {new}
    BY <1>6, <1>8, AddedTools
  <2>3. new \notin S /\ T' = T
    BY <1>1, <1>8 DEF Added, LeftOpen
  <2>4. LeftOpenOK' <=> /\ IsFiniteSet(S') /\ IsFiniteSet(T')
                        /\ warnings'["open"] = Cardinality(S') + Cardinality(T')
    BY <1>1 DEF LeftOpenOK
  <2>5. Cardinality(S) \in Nat /\ Cardinality(T) \in Nat
    BY <2>1, FS_CardinalityType
  <2> HIDE DEF S, T
  <2>6. IsFiniteSet(S') /\ Cardinality(S') = Cardinality(S) + 1
    BY <2>1, <2>2, <2>3, OneMore
  <2>7. warnings'["open"] = Cardinality(S') + Cardinality(T)
    BY <1>15, <2>1, <2>5, <2>6
  <2> QED
    BY <2>1, <2>3, <2>4, <2>6, <2>7
<1>18. TriggeredOK' /\ SameSkills
  BY <1>6, <1>8, TriggeredMore
<1>19. WindowsOpen'
  BY <1>1, <1>18, WindowsStay
<1>20. BoundsOK'
  BY <1>1 DEF CInv, BoundsOK
<1> QED
  BY <1>11, <1>12, <1>13, <1>14, <1>15, <1>16, <1>17, <1>18, <1>19, <1>20 DEF CInv

(* A hook that is closed at the end is closed after every event.           *)
LEMMA CloseOpenHookKeeps == ASSUME IInv, CInv, Moves, CloseOpenHook PROVE CInv'
<1> DEFINE o == Head(openHooks)
           e == HookCall(o, clock, FALSE)
           new == NextRef(hooks, o.name)
<1>1. /\ phase = "finalizing" /\ openHooks # <<>> /\ openHooks' = Tail(openHooks) /\ OneMoreOpen
      /\ CommitHook(o.name, e)
      /\ UNCHANGED <<seen, openTools, tools, requested, openSkills, skills, aborts, declared, phase>>
  BY DEF CloseOpenHook
<1>2. /\ openHooks \in Seq(OpenHook) /\ Distinct(openHooks) /\ clock \in Stamp
      /\ TurnsOK' /\ ToolsOK' /\ HooksOK'
  BY <1>1 DEF IInv, OpenOK, SeenOK, CInv, HooksCounted, Counted, Moves, TurnsMove, ToolsMove, HooksMove
<1>3. o \in OpenHook
  BY <1>1, <1>2, EntryEnds
<1>4. o.name \in HookName /\ o.at \in Stamp /\ o.turn \in Nat /\ o.opened \in Nat
  BY <1>3 DEF OpenHook
<1>5. e \in HookRecord
  BY <1>2, <1>4, HookCallTyped
<1>6. e.opened = o.opened /\ e.closed = Now /\ e.synthesized = FALSE /\ e.turn = o.turn
  BY DEF HookCall
<1>7. Takes(openHooks, openHooks', o) /\ Removes(openHooks, openHooks', o)
  BY <1>1, <1>2, TailTakes, TailRemoves
<1> HIDE DEF o, e
<1>8. /\ Added(hooks, hooks', new, e) /\ turns' = Referenced(e.turn, "hook_calls", new)
      /\ new \in Ref
  BY <1>1, <1>4, <1>5, HookCommitted
<1> HIDE DEF new
<1>9. Len(turns') = Len(turns)
  BY <1>8, ReferencedTurns DEF Lists
<1>10. OpenBegan /\ e.turn \in 0..Len(turns)
  BY <1>1, <1>6, <1>7, <1>9, RestBeganHooks
<1>11. HooksCounted'
  <2>1. EndsOf("HookStart", "HookEnd", e)
    BY <1>1, EndsFinal
  <2> QED
    BY <1>6, <1>7, <1>8, <2>1, HookEndCount
<1>12. ToolsCounted'
  BY <1>1 DEF CInv, ToolsCounted, Positions
<1>13. ListedOK'
  BY <1>1, <1>2, <1>8, <1>10, HookListed
<1>14. NoMarkerMissesItsCall'
  BY <1>1 DEF CInv, NoMarkerMissesItsCall
<1>15. /\ WarningsOK' /\ WarningsTold \in Nat /\ WarningsTold' = WarningsTold
       /\ warnings["open"] \in Nat /\ warnings'["open"] = warnings["open"] + 1
  BY <1>1, OneMoreWarns
<1>16. MadeUpOK'
  <2>1. WarningsTold' = WarningsTold + Bit(e.synthesized)
    BY <1>6, <1>15 DEF Bit
  <2> QED
    BY <1>1, <1>8, <1>9, <2>1, MadeUpHook
<1>17. LeftOpenOK'
  <2> DEFINE S == LeftOpen(tools)
             T == Late(hooks, Len(seen))
  <2>1. /\ IsFiniteSet(S) /\ IsFiniteSet(T)
        /\ warnings["open"] = Cardinality(S) + Cardinality(T)
    BY DEF CInv, LeftOpenOK
  <2>2. Now > Len(seen)
    BY LenProperties DEF Now, IInv, SeenOK
  <2>3. T' = T \cup {new}
    BY <1>1, <1>6, <1>8, <2>2, AddedHooks
  <2>4. new \notin T /\ S' = S
    BY <1>1, <1>8 DEF Added, Late
  <2>5. LeftOpenOK' <=> /\ IsFiniteSet(S') /\ IsFiniteSet(T')
                        /\ warnings'["open"] = Cardinality(S') + Cardinality(T')
    BY <1>1 DEF LeftOpenOK
  <2>6. Cardinality(S) \in Nat /\ Cardinality(T) \in Nat
    BY <2>1, FS_CardinalityType
  <2> HIDE DEF S, T
  <2>7. IsFiniteSet(T') /\ Cardinality(T') = Cardinality(T) + 1
    BY <2>1, <2>3, <2>4, OneMore
  <2>8. warnings'["open"] = Cardinality(S) + Cardinality(T')
    BY <1>15, <2>1, <2>6, <2>7
  <2> QED
    BY <2>1, <2>4, <2>5, <2>7, <2>8
<1>18. TriggeredOK' /\ SameSkills
  BY <1>1, TriggeredStay
<1>19. WindowsOpen'
  BY <1>1, <1>18, WindowsStay
<1>20. BoundsOK'
  BY <1>1 DEF CInv, BoundsOK
<1> QED
  BY <1>11, <1>12, <1>13, <1>14, <1>15, <1>16, <1>17, <1>18, <1>19, <1>20 DEF CInv

(* Nothing but the phase changes, the turn that was open, or nothing.      *)
LEMMA PhaseKeeps ==
  ASSUME IInv, CInv, UNCHANGED <<seen, turns, calls, openSkills, skills, aborts, warnings, declared>>,
         \/ phase = "reading" /\ phase' = "finalizing"
         \/ phase' = "done" /\ openTools = <<>> /\ openHooks = <<>> /\ phase # "reading"
         \/ phase' = phase
  PROVE  CInv'
<1>1. UNCHANGED <<openTools, openHooks, tools, hooks, requested>>
  BY DEF calls
<1>2. ToolsCounted' /\ HooksCounted'
  BY <1>1 DEF CInv, ToolsCounted, HooksCounted, Positions
<1>3. ListedOK' /\ NoMarkerMissesItsCall'
  BY <1>1 DEF CInv, ListedOK, NoMarkerMissesItsCall
<1>4. MadeUpOK'
  BY <1>1 DEF CInv, MadeUpOK, Positions
<1>5. LeftOpenOK'
  BY <1>1 DEF CInv, LeftOpenOK
<1>6. WarningsOK'
  BY <1>1 DEF CInv, WarningsOK
<1>7. WindowsOpen' /\ TriggeredOK'
  BY <1>1 DEF CInv, WindowsOpen, TriggeredOK
<1>8. BoundsOK'
  BY <1>1 DEF CInv, BoundsOK
<1> QED
  BY <1>2, <1>3, <1>4, <1>5, <1>6, <1>7, <1>8 DEF CInv

-----------------------------------------------------------------------------
(* Nothing has been read, committed or warned about.                       *)
LEMMA InitCounts == Init => CInv
<1> SUFFICES ASSUME Init PROVE CInv
  OBVIOUS
<1>1. /\ seen = <<>> /\ turns = <<>> /\ openTools = <<>> /\ openHooks = <<>> /\ openSkills = {}
      /\ tools = [n \in ToolNames |-> <<>>] /\ hooks = [n \in HookName |-> <<>>]
      /\ skills = [n \in SkillName |-> <<>>] /\ aborts = 0 /\ requested = {}
      /\ warnings = [k \in {"synthesized", "open", "abort", "order"} |-> 0]
      /\ declared \subseteq CallId /\ phase = "reading"
  BY DEF Init, ToolNames
<1>2. Refs(tools) = {} /\ Refs(hooks) = {}
  BY <1>1 DEF Refs
<1>3. \A k : Positions(k) = {}
  BY <1>1 DEF Positions
<1>4. OpenedBy(<<>>) = {} /\ Distinct(<<>>) /\ Len(seen) = 0 /\ Len(turns) = 0
  BY <1>1 DEF OpenedBy, Distinct
<1>5. Real(tools) = {} /\ Orphans(tools) = {} /\ LeftOpen(tools) = {}
  BY <1>2 DEF Real, Orphans, LeftOpen
<1>6. RealHooks(hooks) = {} /\ MadeUp(hooks) = {}
  BY <1>2 DEF RealHooks, MadeUp
<1>7. Late(tools, Len(seen)) = {} /\ Late(hooks, Len(seen)) = {}
  BY <1>2 DEF Late
<1>8. ToolsCounted /\ HooksCounted
  BY <1>1, <1>2, <1>3, <1>4, <1>5, <1>6 DEF ToolsCounted, HooksCounted, Counted
<1>9. ListedOK
  BY <1>1, <1>2 DEF ListedOK, Began
<1>10. NoMarkerMissesItsCall
  BY <1>1 DEF NoMarkerMissesItsCall
<1>11. IsFiniteSet({}) /\ Cardinality({}) = 0
  BY FS_EmptySet
<1>12. warnings["synthesized"] = 0 /\ warnings["open"] = 0
  BY <1>1
<1>13. /\ IsFiniteSet(Orphans(tools)) /\ Cardinality(Orphans(tools)) = 0
       /\ IsFiniteSet(MadeUp(hooks)) /\ Cardinality(MadeUp(hooks)) = 0
       /\ Cardinality(Positions("TurnStart")) = 0
  BY <1>3, <1>5, <1>6, <1>11
<1>14. /\ IsFiniteSet(LeftOpen(tools)) /\ Cardinality(LeftOpen(tools)) = 0
       /\ IsFiniteSet(Late(hooks, Len(seen))) /\ Cardinality(Late(hooks, Len(seen))) = 0
  BY <1>5, <1>7, <1>11
<1>15. MadeUpOK
  BY <1>4, <1>12, <1>13 DEF MadeUpOK
<1>16. LeftOpenOK
  BY <1>5, <1>7, <1>12, <1>14 DEF LeftOpenOK
<1>17. WarningsOK
  BY <1>1 DEF WarningsOK
<1>18. WindowsOpen /\ TriggeredOK
  BY <1>1 DEF WindowsOpen, TriggeredOK
<1>19. BoundsOK
  BY <1>1, <1>4, ConstantsAssumption DEF BoundsOK
<1> QED
  BY <1>8, <1>9, <1>10, <1>15, <1>16, <1>17, <1>18, <1>19 DEF CInv

LEMMA StepCounts == ASSUME IInv, CInv, [Next]_vars PROVE CInv'
<1>0. Moves
  BY StepMoves
<1>1. ASSUME NEW ts \in Stamp, HandleEvent(ts) PROVE CInv'
  <2>1. CASE TurnStart(ts) \/ TurnEnd(ts) \/ AbortTurn(ts)
    BY <1>0, <2>1, TurnStartKeeps, TurnEndKeeps, AbortTurnKeeps
  <2>2. ASSUME NEW n \in ToolName, NEW id \in CallId \cup {None}, ToolStart(ts, n, id) PROVE CInv'
    BY <1>0, <2>2, ToolStartKeeps
  <2>3. ASSUME NEW id \in CallId \cup {None}, NEW outcome \in Outcomes, ToolComplete(ts, id, outcome)
        PROVE  CInv'
    BY <1>0, <2>3, ToolCompleteKeeps
  <2>4. ASSUME NEW id \in CallId \cup {None}, UserRequested(ts, id) PROVE CInv'
    BY <1>0, <2>4, UserRequestedKeeps
  <2>5. ASSUME NEW n \in HookName, HookStart(ts, n) \/ HookEnd(ts, n) PROVE CInv'
    BY <1>0, <2>5, HookStartKeeps, HookEndKeeps
  <2>6. ASSUME NEW n \in SkillName, SkillInvoked(ts, n) PROVE CInv'
    BY <1>0, <2>6, SkillInvokedKeeps
  <2>7. CASE AbortTool(ts) \/ AbortHook(ts)
    BY <1>0, <2>7, AbortCallKeeps
  <2>8. ASSUME NEW m \in Model, NEW n \in Tokens, AssistantMessage(ts, m, n) PROVE CInv'
    BY <1>0, <2>8, AssistantMessageKeeps
  <2>9. CASE \/ \E m \in Mode : ModeChanged(ts, m)
             \/ ModelChange(ts) \/ AbortNothing(ts)
             \/ \E u \in Usage : Shutdown(ts, u)
             \/ \E announced \in SUBSET McpTool : OtherEvent(ts, announced)
    BY <1>0, <2>9, OtherKeeps
  <2> QED
    BY <1>1, <2>1, <2>2, <2>3, <2>4, <2>5, <2>6, <2>7, <2>8, <2>9 DEF HandleEvent
<1>2. CASE CloseOpenTool \/ CloseOpenHook
  BY <1>0, <1>2, CloseOpenToolKeeps, CloseOpenHookKeeps
<1>3. CASE EndOfEvents
  BY <1>3, PhaseKeeps DEF EndOfEvents
<1>4. CASE Finish
  BY <1>4, PhaseKeeps DEF Finish
<1>5. CASE Done \/ UNCHANGED vars
  BY <1>5, PhaseKeeps DEF Done, vars
<1> QED
  BY <1>1, <1>2, <1>3, <1>4, <1>5 DEF Next, Finalize

LEMMA Counting == Spec => [](IInv /\ CInv)
<1>1. IInv /\ CInv /\ [Next]_vars => CInv'
  BY StepCounts
<1> QED
  BY Invariance, InitCounts, <1>1, PTL DEF Spec

-----------------------------------------------------------------------------
(* What the invariant says of the model's own references.                  *)
LEMMA SameRefs == /\ ToolRefs = Refs(tools) /\ HookRefs = Refs(hooks)
                  /\ \A r : ToolAt(r) = At(tools, r) /\ HookAt(r) = At(hooks, r)
  BY DEF ToolRefs, HookRefs, Refs, ToolAt, HookAt, At

LEMMA TypesHold == ASSUME IInv, CInv PROVE TypeOK
<1>1. /\ seen \in Seq(Kinds) /\ Len(seen) <= MaxEvents /\ clock \in Stamp \cup {None}
      /\ openTurn \in 0..Len(turns) /\ segments # <<>> /\ mode \in Mode
      /\ requested \subseteq CallId /\ declared \subseteq CallId
      /\ phase \in {"reading", "finalizing", "done"}
  BY DEF IInv, SeenOK, TurnsOK, SegmentsOK, CInv, BoundsOK
<1>2. ASSUME NEW k \in DOMAIN turns
      PROVE  turns[k].status \in {"open", "completed", "aborted"} /\ turns[k].mode \in Mode \cup {None}
  <2>1. turns[k] \in Turn
    BY LenProperties, ElementOfSeq DEF IInv, TurnsOK
  <2> QED
    BY <2>1 DEF Turn
<1>3. ASSUME NEW k \in DOMAIN openTools
      PROVE  /\ openTools[k].name \in ToolName /\ openTools[k].id \in CallId \cup {None}
             /\ openTools[k].at \in Stamp /\ openTools[k].turn \in 0..Len(turns)
  <2>1. openTools[k] \in OpenTool
    BY LenProperties, ElementOfSeq DEF IInv, OpenOK
  <2>2. openTools[k].turn \in 0..Len(turns)
    BY DEF CInv, ListedOK, Began
  <2> QED
    BY <2>1, <2>2 DEF OpenTool
<1>4. ASSUME NEW k \in DOMAIN openHooks PROVE openHooks[k].name \in HookName
  <2>1. openHooks[k] \in OpenHook
    BY LenProperties, ElementOfSeq DEF IInv, OpenOK
  <2> QED
    BY <2>1 DEF OpenHook
<1>5. \A w \in openSkills : w.index \in DOMAIN skills[w.name] /\ w.left \in 1..Window
  BY DEF CInv, WindowsOpen
<1> QED
  BY <1>1, <1>2, <1>3, <1>4, <1>5 DEF TypeOK

LEMMA NoneUncounted == ASSUME CInv PROVE NoEventUncounted
<1>1. \A r \in Refs(tools) : At(tools, r).status # "orphan" <=> r \in Real(tools)
  BY DEF Real
<1>2. \A r \in Refs(hooks) : ~At(hooks, r).synthesized <=> r \in RealHooks(hooks)
  BY DEF RealHooks
<1> DEFINE open == {openTools[k].opened : k \in DOMAIN openTools}
           started == {ToolAt(r).opened : r \in {q \in ToolRefs : ToolAt(q).status # "orphan"}}
           openH == {openHooks[k].opened : k \in DOMAIN openHooks}
           startedH == {HookAt(r).opened : r \in {q \in HookRefs : ~HookAt(q).synthesized}}
<1>3. open = OpenedBy(openTools) /\ openH = OpenedBy(openHooks)
  BY DEF OpenedBy
<1>4. started = {At(tools, r).opened : r \in Real(tools)}
  BY SameRefs DEF Real
<1>5. startedH = {At(hooks, r).opened : r \in RealHooks(hooks)}
  BY SameRefs DEF RealHooks
<1> HIDE DEF open, started, openH, startedH
<1>6. /\ Positions("ToolStart") = open \cup started /\ open \cap started = {}
      /\ \A r, q \in Refs(tools) : At(tools, r).opened = At(tools, q).opened => r = q
      /\ \A i \in Positions("ToolComplete") : \E r \in Refs(tools) : At(tools, r).closed = i
  BY <1>3, <1>4 DEF CInv, ToolsCounted, Counted
<1>7. /\ Positions("HookStart") = openH \cup startedH /\ openH \cap startedH = {}
      /\ \A r, q \in Refs(hooks) : At(hooks, r).opened = At(hooks, q).opened => r = q
      /\ \A i \in Positions("HookEnd") : \E r \in Refs(hooks) : At(hooks, r).closed = i
  BY <1>3, <1>5 DEF CInv, HooksCounted, Counted
<1>8. /\ \A r, q \in ToolRefs : ToolAt(r).opened = ToolAt(q).opened => r = q
      /\ \A i \in Positions("ToolComplete") : \E r \in ToolRefs : ToolAt(r).closed = i
  BY <1>6, SameRefs
<1>9. /\ \A r, q \in HookRefs : HookAt(r).opened = HookAt(q).opened => r = q
      /\ \A i \in Positions("HookEnd") : \E r \in HookRefs : HookAt(r).closed = i
  BY <1>7, SameRefs
<1> QED
  BY <1>6, <1>7, <1>8, <1>9 DEF NoEventUncounted, open, started, openH, startedH

LEMMA AllListed == ASSUME CInv PROVE ListedByItsTurn
<1> SUFFICES ASSUME NEW t \in DOMAIN turns
             PROVE  /\ ToSet(turns[t].tool_calls) = {r \in ToolRefs : ToolAt(r).turn = t}
                    /\ ToSet(turns[t].hook_calls) = {r \in HookRefs : HookAt(r).turn = t}
                    /\ Len(turns[t].tool_calls) = Cardinality(ToSet(turns[t].tool_calls))
                    /\ Len(turns[t].hook_calls) = Cardinality(ToSet(turns[t].hook_calls))
  BY DEF ListedByItsTurn
<1>1. Listed(turns[t].tool_calls, OfTurn(tools, t)) /\ Listed(turns[t].hook_calls, OfTurn(hooks, t))
  BY DEF CInv, ListedOK
<1>2. OfTurn(tools, t) = {r \in ToolRefs : ToolAt(r).turn = t}
  BY SameRefs DEF OfTurn
<1>3. OfTurn(hooks, t) = {r \in HookRefs : HookAt(r).turn = t}
  BY SameRefs DEF OfTurn
<1> QED
  BY <1>1, <1>2, <1>3 DEF Listed

LEMMA AllWarned == ASSUME IInv, CInv PROVE AnomaliesAreWarned
<1> DEFINE orphans == {r \in ToolRefs : ToolAt(r).status = "orphan"}
           made == {r \in HookRefs : HookAt(r).synthesized}
           left == {r \in ToolRefs : ToolAt(r).status = "open"}
           late == {r \in HookRefs : HookAt(r).closed > Len(seen)}
<1>1. orphans = Orphans(tools)
  BY SameRefs DEF Orphans
<1>2. made = MadeUp(hooks)
  BY SameRefs DEF MadeUp
<1>3. left = LeftOpen(tools)
  BY SameRefs DEF LeftOpen
<1>4. late = Late(hooks, Len(seen))
  BY SameRefs DEF Late
<1> HIDE DEF orphans, made, left, late
<1>5. /\ Cardinality(orphans) \in Nat /\ Cardinality(made) \in Nat
      /\ warnings["synthesized"] + Cardinality(Positions("TurnStart")) =
           Cardinality(orphans) + Cardinality(made) + Len(turns)
  BY <1>1, <1>2, FS_CardinalityType DEF CInv, MadeUpOK
<1>6. Cardinality(Positions("TurnStart")) \in Nat /\ Len(turns) \in Nat /\ warnings["synthesized"] \in Nat
  BY PositionsFinite, LenProperties DEF IInv, TurnsOK, CInv, WarningsOK
<1>7. warnings["synthesized"] =
        Cardinality(orphans) + Cardinality(made) + (Len(turns) - Cardinality(Positions("TurnStart")))
  BY <1>5, <1>6
<1>8. warnings["open"] = Cardinality(left) + Cardinality(late)
  BY <1>3, <1>4 DEF CInv, LeftOpenOK
<1>9. /\ warnings["abort"] = aborts
      /\ phase = "done" => openTools = <<>> /\ openHooks = <<>>
  BY DEF CInv, WarningsOK
<1> QED
  BY <1>7, <1>8, <1>9 DEF AnomaliesAreWarned, orphans, made, left, late

(* Whatever starts, ends, markers and aborts a stream has, in any order    *)
(* and number: every start is open or became one call, every end closed    *)
(* one, a call is listed once and by the turn it began in, no marker waits *)
(* for a call that is open, and what was made up, lost or left open is     *)
(* warned about exactly as often as it happened.                           *)
THEOREM EventsStayCounted == Spec => []EventsAreCounted
<1>1. IInv /\ CInv => EventsAreCounted
  <2> SUFFICES ASSUME IInv, CInv PROVE EventsAreCounted
    OBVIOUS
  <2>1. NoMarkerMissesItsCall
    BY DEF CInv
  <2> QED
    BY <2>1, TypesHold, NoneUncounted, AllListed, AllWarned DEF EventsAreCounted
<1> QED
  BY Counting, <1>1, PTL

(* A skill invocation triggered the calls that were committed while the    *)
(* next Window - 1 events were handled, those closed by finalize included, *)
(* and no others.                                                          *)
THEOREM WindowsStayExact == Spec => []WindowIsExact
<1>1. IInv /\ CInv => WindowIsExact
  <2> SUFFICES ASSUME CInv, NEW n \in SkillName, NEW i \in DOMAIN skills[n]
               PROVE  ToSet(skills[n][i].triggered) =
                        {r \in ToolRefs : ToolAt(r).closed - skills[n][i].opened \in 1..(Window - 1)}
    BY DEF WindowIsExact
  <2>1. ToSet(skills[n][i].triggered) = Within(tools, skills[n][i].opened)
    BY DEF CInv, TriggeredOK
  <2>2. Within(tools, skills[n][i].opened) =
          {r \in ToolRefs : ToolAt(r).closed - skills[n][i].opened \in 1..(Window - 1)}
    BY SameRefs DEF Within
  <2> QED
    BY <2>1, <2>2
<1> QED
  BY Counting, <1>1, PTL

-----------------------------------------------------------------------------
(* The names of a set of calls that were called, and a name's references.  *)
Called(c) == {n \in DOMAIN c : c[n] # <<>>}
Under(c, n) == {[name |-> n, index |-> i] : i \in DOMAIN c[n]}

(* A reference points to a call of its name.                               *)
LEMMA RefIs ==
  ASSUME NEW c, NEW r
  PROVE  r \in Refs(c) <=> \E n \in DOMAIN c : r \in Under(c, n)
<1>1. Refs(c) = UNION {Under(c, n) : n \in DOMAIN c}
  BY DEF Refs, Under
<1> QED BY <1>1

(* Calls that were opened by events of their own are finitely many.        *)
LEMMA RefsFinite ==
  ASSUME NEW c, NEW n \in Nat,
         \A r \in Refs(c) : At(c, r).opened \in 1..n,
         \A r, q \in Refs(c) : At(c, r).opened = At(c, q).opened => r = q
  PROVE  IsFiniteSet(Refs(c))
<1> DEFINE f == [r \in Refs(c) |-> At(c, r).opened]
<1>1. f \in [Refs(c) -> 1..n] /\ \A r, q \in Refs(c) : f[r] = f[q] => r = q
  OBVIOUS
<1> HIDE DEF f
<1>2. f \in Injection(Refs(c), 1..n)
  BY <1>1 DEF Injection, IsInjective
<1>3. IsFiniteSet(1..n)
  BY FS_Interval
<1> QED BY <1>2, <1>3, FS_Injection

(* The names of finitely many calls are finitely many.                     *)
LEMMA CalledFinite ==
  ASSUME NEW c, IsFiniteSet(Refs(c)), \A n \in DOMAIN c : DOMAIN c[n] = 1..Len(c[n]) /\ Len(c[n]) \in Nat
                                                          /\ (c[n] # <<>> => Len(c[n]) # 0)
  PROVE  IsFiniteSet(Called(c))
<1>1. ASSUME NEW n \in Called(c) PROVE n \in {r.name : r \in Refs(c)}
  <2>1. n \in DOMAIN c /\ 1 \in DOMAIN c[n]
    BY <1>1 DEF Called
  <2>2. [name |-> n, index |-> 1] \in Under(c, n)
    BY <2>1 DEF Under
  <2>3. [name |-> n, index |-> 1] \in Refs(c)
    BY <2>1, <2>2, RefIs
  <2> QED BY <2>3
<1>2. Called(c) \subseteq {r.name : r \in Refs(c)}
  BY <1>1
<1>3. IsFiniteSet({r.name : r \in Refs(c)})
  <2> DEFINE T == {r.name : r \in Refs(c)}
             f == [r \in Refs(c) |-> r.name]
  <2>1. f \in Surjection(Refs(c), T)
    BY DEF Surjection
  <2> HIDE DEF T, f
  <2>2. IsFiniteSet(T)
    BY <2>1, FS_Surjection
  <2> QED BY <2>2 DEF T
<1> QED BY <1>2, <1>3, FS_Subset

(* A name has as many references as calls, and shares none.                *)
LEMMA UnderIs ==
  ASSUME NEW c, NEW n, NEW m \in Nat, DOMAIN c[n] = 1..m
  PROVE  IsFiniteSet(Under(c, n)) /\ Cardinality(Under(c, n)) = m
<1> DEFINE f == [i \in 1..m |-> [name |-> n, index |-> i]]
<1>1. f \in [1..m -> Under(c, n)]
  BY DEF Under
<1>2. \A i, j \in 1..m : f[i] = f[j] => i = j
  <2>1. \A i \in 1..m : f[i].index = i
    OBVIOUS
  <2> QED BY <2>1
<1>3. \A r \in Under(c, n) : \E i \in 1..m : f[i] = r
  BY DEF Under
<1> HIDE DEF f
<1>4. f \in Bijection(1..m, Under(c, n))
  BY <1>1, <1>2, <1>3 DEF Bijection, Injection, IsInjective, Surjection
<1>5. IsFiniteSet(1..m) /\ Cardinality(1..m) = m
  BY FS_Interval
<1>6. ExistsBijection(1..m, Under(c, n))
  BY <1>4 DEF ExistsBijection
<1> QED BY <1>5, <1>6, FS_Bijection

(* A ranking that has a row for every name counts every call once.         *)
LEMMA RowsCount ==
  ASSUME NEW c, IsFiniteSet(Refs(c)),
         \A n \in DOMAIN c : Len(c[n]) \in Nat /\ DOMAIN c[n] = 1..Len(c[n]),
         \A n \in DOMAIN c : c[n] = <<>> => Len(c[n]) = 0,
         NEW rank, NEW row, Ranks(rank, Called(c), row),
         \A n \in Called(c) : row[n].call_count = Len(c[n])
  PROVE  Total([i \in DOMAIN rank |-> rank[i].call_count]) = Cardinality(Refs(c))
<1>1. PICK names :
        /\ rank \in Seq({row[n] : n \in Called(c)}) /\ names \in [1..Len(rank) -> Called(c)]
        /\ \A k \in 1..Len(rank) : rank[k] = row[names[k]]
        /\ \A j, k \in 1..Len(rank) : names[j] = names[k] => j = k
        /\ \A n \in Called(c) : \E k \in 1..Len(rank) : names[k] = n
  BY DEF Ranks
<1> DEFINE s == [i \in DOMAIN rank |-> rank[i].call_count]
           F == [k \in 1..Len(rank) |-> Under(c, names[k])]
<1>2. Len(rank) \in Nat /\ DOMAIN rank = 1..Len(rank)
  <2> DEFINE all == {row[n] : n \in Called(c)}
  <2>1. rank \in Seq(all)
    BY <1>1
  <2> HIDE DEF all
  <2> QED BY <2>1
<1>3. Len(s) = Len(rank)
  BY <1>2
<1>4. ASSUME NEW k \in 1..Len(rank)
      PROVE  IsFiniteSet(F[k]) /\ s[k] = Cardinality(F[k]) /\ names[k] \in DOMAIN c /\ F[k] = Under(c, names[k])
  <2>1. names[k] \in Called(c) /\ names[k] \in DOMAIN c
    BY <1>1 DEF Called
  <2>2. s[k] = Len(c[names[k]])
    BY <1>1, <1>2, <2>1
  <2>3. F[k] = Under(c, names[k])
    OBVIOUS
  <2>4. Len(c[names[k]]) \in Nat /\ DOMAIN c[names[k]] = 1..Len(c[names[k]])
    BY <2>1
  <2> QED BY <2>1, <2>2, <2>3, <2>4, UnderIs
<1>5. ASSUME NEW j \in 1..Len(rank), NEW k \in 1..Len(rank), j # k PROVE F[j] \cap F[k] = {}
  <2>1. names[j] # names[k]
    BY <1>1, <1>5
  <2>2. \A r \in F[j] : r.name = names[j]
    BY DEF Under
  <2>3. \A r \in F[k] : r.name = names[k]
    BY DEF Under
  <2> QED BY <2>1, <2>2, <2>3
<1>6. UNION {F[k] : k \in 1..Len(rank)} = Refs(c)
  <2>1. ASSUME NEW r \in Refs(c) PROVE \E k \in 1..Len(rank) : r \in F[k]
    <3>1. PICK n \in DOMAIN c : r \in Under(c, n)
      BY RefIs
    <3>2. n \in Called(c)
      <4>1. PICK i \in DOMAIN c[n] : TRUE
        BY <3>1 DEF Under
      <4> QED BY <4>1 DEF Called
    <3>3. PICK k \in 1..Len(rank) : names[k] = n
      BY <1>1, <3>2
    <3> QED BY <3>1, <3>3
  <2>2. ASSUME NEW k \in 1..Len(rank) PROVE F[k] \subseteq Refs(c)
    BY <1>4, RefIs
  <2> HIDE DEF F
  <2> QED BY <2>1, <2>2
<1> HIDE DEF s, F
<1>7. Total(s) = Cardinality(AllOf(F, Len(s)))
  <2>1. Len(s) \in Nat
    BY <1>2, <1>3
  <2>2. \A k \in 1..Len(s) : IsFiniteSet(F[k]) /\ s[k] = Cardinality(F[k])
    BY <1>3, <1>4
  <2>3. \A j, k \in 1..Len(s) : j # k => F[j] \cap F[k] = {}
    BY <1>3, <1>5
  <2> QED BY ONLY <2>1, <2>2, <2>3, TotalOfSizes
<1>8. AllOf(F, Len(s)) = Refs(c)
  BY <1>3, <1>6 DEF AllOf
<1> QED BY <1>7, <1>8 DEF s

(* What the turns list and what belongs to none is all.                    *)
LEMMA TurnsCount ==
  ASSUME NEW c, IsFiniteSet(Refs(c)), NEW m \in Nat, NEW s, Len(s) = m,
         \A r \in Refs(c) : At(c, r).turn \in 0..m,
         \A t \in 1..m : s[t] = Cardinality(OfTurn(c, t))
  PROVE  Cardinality(Refs(c)) = Cardinality(OfTurn(c, 0)) + Total(s)
<1> DEFINE F == [t \in 1..m |-> OfTurn(c, t)]
           all == UNION {F[t] : t \in 1..m}
<1>1. \A t : OfTurn(c, t) \subseteq Refs(c) /\ IsFiniteSet(OfTurn(c, t))
  <2>1. \A t : OfTurn(c, t) \subseteq Refs(c)
    BY DEF OfTurn
  <2> QED BY <2>1, FS_Subset
<1>2. \A t \in 1..m : F[t] = OfTurn(c, t)
  OBVIOUS
<1>3. \A j, k \in 1..m : j # k => F[j] \cap F[k] = {}
  BY DEF OfTurn
<1>4. all \cap OfTurn(c, 0) = {} /\ all \cup OfTurn(c, 0) = Refs(c)
  <2>1. ASSUME NEW r \in Refs(c), r \notin OfTurn(c, 0) PROVE \E t \in 1..m : r \in F[t]
    <3>1. At(c, r).turn \in 1..m
      BY <2>1 DEF OfTurn
    <3> QED BY <3>1 DEF OfTurn
  <2>2. \A t \in 1..m : F[t] \cap OfTurn(c, 0) = {}
    BY DEF OfTurn
  <2>3. \A t \in 1..m : F[t] \subseteq Refs(c)
    BY <1>1, <1>2
  <2> HIDE DEF F
  <2> QED BY <1>1, <2>1, <2>2, <2>3
<1> HIDE DEF F
<1>5. IsFiniteSet(all) /\ Total(s) = Cardinality(all)
  <2>1. Len(s) \in Nat /\ all = AllOf(F, Len(s))
    BY DEF AllOf
  <2>2. \A k \in 1..Len(s) : IsFiniteSet(F[k]) /\ s[k] = Cardinality(F[k])
    BY <1>1, <1>2
  <2>3. \A j, k \in 1..Len(s) : j # k => F[j] \cap F[k] = {}
    BY <1>3
  <2> HIDE DEF all
  <2> QED BY ONLY <2>1, <2>2, <2>3, TotalOfSizes
<1> HIDE DEF all
<1>6. Cardinality(all \cup OfTurn(c, 0)) = Cardinality(all) + Cardinality(OfTurn(c, 0)) - Cardinality(all \cap OfTurn(c, 0))
  BY <1>1, <1>5, FS_Union
<1>7. Cardinality(all \cap OfTurn(c, 0)) = 0
  BY <1>4, FS_EmptySet
<1>8. Cardinality(all) \in Nat /\ Cardinality(OfTurn(c, 0)) \in Nat
  BY <1>1, <1>5, FS_CardinalityType
<1>9. Cardinality(Refs(c)) = Cardinality(all \cup OfTurn(c, 0))
  BY <1>4
<1> QED BY ONLY <1>5, <1>6, <1>7, <1>8, <1>9

(* Calls as a session has them: finitely many, none of which runs back.    *)
CallsOf(c) == /\ IsFiniteSet(Refs(c)) /\ NamesOrdered(Called(c))
              /\ \A n \in DOMAIN c : /\ Len(c[n]) \in Nat /\ DOMAIN c[n] = 1..Len(c[n])
                                     /\ c[n] = <<>> <=> Len(c[n]) = 0
                                     /\ \A i \in DOMAIN c[n] : Duration(c[n][i]) \in Nat

(* What a called name has are calls.                                       *)
LEMMA CallsCalled ==
  ASSUME NEW c, CallsOf(c)
  PROVE  /\ IsFiniteSet(Called(c)) /\ NamesOrdered(Called(c))
         /\ \A n \in Called(c) : /\ n \in DOMAIN c /\ Len(c[n]) \in Nat /\ Len(c[n]) # 0
                                 /\ DOMAIN c[n] = 1..Len(c[n])
                                 /\ \A i \in 1..Len(c[n]) : Duration(c[n][i]) \in Nat
<1>1. IsFiniteSet(Called(c))
  BY CalledFinite DEF CallsOf
<1> QED BY <1>1 DEF CallsOf, Called

(* The tool ranking: every row is its tool's, every call is in one row.    *)
LEMMA ToolRanking ==
  ASSUME NEW e, CallsOf(e.tools), NEW rank, rank = ToolRank(e),
         \A n \in DOMAIN e.tools : \A i \in DOMAIN e.tools[n] :
           e.tools[n][i].status \in {"success", "failure", "orphan", "aborted", "open"}
  PROVE  /\ Total([i \in DOMAIN rank |-> rank[i].call_count]) = Cardinality(Refs(e.tools))
         /\ \A i \in DOMAIN rank : rank[i].call_count =
              rank[i].success_count + rank[i].failure_count + rank[i].orphan_count
         /\ PercentilesAreOrdered(e, rank)
<1> DEFINE c == e.tools
           S == Called(c)
           row == [n \in S |-> ToolRankRow(e, n)]
<1>1. /\ IsFiniteSet(S) /\ NamesOrdered(S)
      /\ \A n \in S : /\ n \in DOMAIN c /\ Len(c[n]) \in Nat /\ Len(c[n]) # 0
                      /\ DOMAIN c[n] = 1..Len(c[n])
                      /\ \A i \in 1..Len(c[n]) : Duration(c[n][i]) \in Nat
  <2> HIDE DEF c
  <2>1. CallsOf(c)
    BY DEF c
  <2> QED BY <2>1, CallsCalled
<1>2. \A n \in S : \A i \in 1..Len(c[n]) : c[n][i].status \in {"success", "failure", "orphan", "aborted", "open"}
  <2> HIDE DEF S
  <2> QED BY <1>1
<1>3. ASSUME NEW n \in S PROVE RowIs(row[n], n, c[n]) /\ row[n].total_duration \in Nat /\ row[n].call_count = Len(c[n])
  <2> DEFINE m == Len(c[n])
  <2>1. m \in Nat /\ m # 0 /\ DOMAIN c[n] = 1..m
    BY <1>1
  <2>2. \A i \in 1..m : /\ Duration(c[n][i]) \in Nat
                        /\ c[n][i].status \in {"success", "failure", "orphan", "aborted", "open"}
    BY <1>1, <1>2
  <2>3. c[n] = e.tools[n] /\ Len(c[n]) = m
    OBVIOUS
  <2>4. row[n] = ToolRankRow(e, n)
    OBVIOUS
  <2> HIDE DEF c, m, row, S
  <2>5. RowIs(ToolRankRow(e, n), n, c[n])
    BY <2>1, <2>2, <2>3, ToolRowIs
  <2> QED BY <2>3, <2>4, <2>5 DEF RowIs, m
<1>4. rank = LargestFirst([k \in DOMAIN ByName(S) |-> row[ByName(S)[k]]], "total_duration")
  <2> DEFINE names == ByName(S)
  <2>1. rank = LargestFirst([k \in DOMAIN names |-> ToolRankRow(e, names[k])], "total_duration")
    BY DEF ToolRank, Called
  <2>2. names \in [1..Cardinality(S) -> S]
    <3> HIDE DEF names, S
    <3>1. names = ByName(S)
      BY DEF names
    <3> QED BY <1>1, <3>1, ByNameIs
  <2>3. [k \in DOMAIN names |-> ToolRankRow(e, names[k])] = [k \in DOMAIN names |-> row[names[k]]]
    <3> HIDE DEF names, S
    <3> QED BY <2>2
  <2> HIDE DEF row
  <2> QED BY <2>1, <2>3
<1> HIDE DEF row
<1>5. Ranks(rank, S, row)
  <2> HIDE DEF S
  <2>1. \A n \in S : row[n].total_duration \in Nat
    BY <1>3
  <2> QED BY <1>1, <1>4, <2>1, RowsRank
<1>6. Total([i \in DOMAIN rank |-> rank[i].call_count]) = Cardinality(Refs(c))
  <2>1. \A n \in Called(c) : row[n].call_count = Len(c[n])
    BY <1>3
  <2>2. Ranks(rank, Called(c), row)
    BY <1>5
  <2>3. CallsOf(c)
    OBVIOUS
  <2> HIDE DEF c
  <2> QED BY <2>1, <2>2, <2>3, RowsCount DEF CallsOf
<1> HIDE DEF S
<1>7. PICK names :
        /\ rank \in Seq({row[n] : n \in S}) /\ names \in [1..Len(rank) -> S]
        /\ \A k \in 1..Len(rank) : rank[k] = row[names[k]]
        /\ \A j, k \in 1..Len(rank) : j < k => rank[j].total_duration >= rank[k].total_duration
  BY <1>5 DEF Ranks
<1>8. Len(rank) \in Nat /\ DOMAIN rank = 1..Len(rank)
  <2> DEFINE all == {row[n] : n \in S}
  <2>1. rank \in Seq(all)
    BY <1>7
  <2> HIDE DEF all
  <2> QED BY <2>1
<1>9. ASSUME NEW i \in DOMAIN rank PROVE RowIs(rank[i], rank[i].name, c[rank[i].name])
  <2>1. names[i] \in S /\ rank[i] = row[names[i]]
    BY <1>7, <1>8
  <2>2. RowIs(rank[i], names[i], c[names[i]])
    BY <1>3, <2>1
  <2>3. rank[i].name = names[i]
    BY <2>2 DEF RowIs
  <2> QED BY <2>2, <2>3
<1>10. PercentilesAreOrdered(e, rank)
  <2>1. \A i \in 1..(Len(rank) - 1) : i \in 1..Len(rank) /\ i + 1 \in 1..Len(rank) /\ i < i + 1
    BY <1>8
  <2>2. \A i \in 1..(Len(rank) - 1) : rank[i].total_duration >= rank[i + 1].total_duration
    BY <1>7, <2>1
  <2> QED BY <1>9, <2>2 DEF PercentilesAreOrdered, RowIs
<1>11. \A i \in DOMAIN rank : rank[i].call_count =
         rank[i].success_count + rank[i].failure_count + rank[i].orphan_count
  BY <1>9 DEF RowIs
<1> QED BY <1>6, <1>10, <1>11 DEF c

(* The hook ranking, likewise.                                             *)
LEMMA HookRanking ==
  ASSUME NEW e, CallsOf(e.hooks), NEW rank, rank = HookRank(e)
  PROVE  Total([i \in DOMAIN rank |-> rank[i].call_count]) = Cardinality(Refs(e.hooks))
<1> DEFINE c == e.hooks
           S == Called(c)
           row == [n \in S |-> HookRankRow(e, n)]
<1>1. /\ IsFiniteSet(S) /\ NamesOrdered(S)
      /\ \A n \in S : /\ n \in DOMAIN c /\ Len(c[n]) \in Nat /\ Len(c[n]) # 0
                      /\ DOMAIN c[n] = 1..Len(c[n])
                      /\ \A i \in 1..Len(c[n]) : Duration(c[n][i]) \in Nat
  <2> HIDE DEF c
  <2>1. CallsOf(c)
    BY DEF c
  <2> QED BY <2>1, CallsCalled
<1>3. ASSUME NEW n \in S PROVE row[n].total_duration \in Nat /\ row[n].call_count = Len(c[n])
  <2> DEFINE m == Len(c[n])
  <2>1. m \in Nat /\ DOMAIN c[n] = 1..m
    BY <1>1
  <2>2. \A i \in 1..m : Duration(c[n][i]) \in Nat
    BY <1>1
  <2>3. c[n] = e.hooks[n] /\ Len(c[n]) = m
    OBVIOUS
  <2>4. row[n] = HookRankRow(e, n)
    OBVIOUS
  <2> HIDE DEF c, m, row, S
  <2>5. HookRankRow(e, n).call_count = m /\ HookRankRow(e, n).total_duration \in Nat
    BY <2>1, <2>2, <2>3, HookRowIs
  <2> QED BY <2>4, <2>5 DEF m
<1>4. rank = LargestFirst([k \in DOMAIN ByName(S) |-> row[ByName(S)[k]]], "total_duration")
  <2> DEFINE names == ByName(S)
  <2>1. rank = LargestFirst([k \in DOMAIN names |-> HookRankRow(e, names[k])], "total_duration")
    BY DEF HookRank, Called
  <2>2. names \in [1..Cardinality(S) -> S]
    <3> HIDE DEF names, S
    <3>1. names = ByName(S)
      BY DEF names
    <3> QED BY <1>1, <3>1, ByNameIs
  <2>3. [k \in DOMAIN names |-> HookRankRow(e, names[k])] = [k \in DOMAIN names |-> row[names[k]]]
    <3> HIDE DEF names, S
    <3> QED BY <2>2
  <2> HIDE DEF row
  <2> QED BY <2>1, <2>3
<1> HIDE DEF row
<1>5. Ranks(rank, S, row)
  <2> HIDE DEF S
  <2>1. \A n \in S : row[n].total_duration \in Nat
    BY <1>3
  <2> QED BY <1>1, <1>4, <2>1, RowsRank
<1>6. Total([i \in DOMAIN rank |-> rank[i].call_count]) = Cardinality(Refs(c))
  <2>1. \A n \in Called(c) : row[n].call_count = Len(c[n])
    BY <1>3
  <2>2. Ranks(rank, Called(c), row)
    BY <1>5
  <2>3. CallsOf(c)
    OBVIOUS
  <2> HIDE DEF c
  <2> QED BY <2>1, <2>2, <2>3, RowsCount DEF CallsOf
<1> QED BY <1>6 DEF c

-----------------------------------------------------------------------------
(* The order of pending calls is a weak order, whatever order names have.  *)
LEMMA PendingOrdered ==
  ASSUME NEW S, NamesOrdered(S), NEW x, NEW y, NEW z,
         x.name \in S, y.name \in S, z.name \in S,
         x.call.from \in Nat, y.call.from \in Nat, z.call.from \in Nat
  PROVE  /\ ~PendingFirst(x, x)
         /\ PendingFirst(x, y) => ~PendingFirst(y, x)
         /\ PendingFirst(x, y) => PendingFirst(x, z) \/ PendingFirst(z, y)
<1> DEFINE u == x.name  v == y.name  w == z.name
           f == x.call.from  g == y.call.from  h == z.call.from
           B == UserBlocking
<1>1. u \in S /\ v \in S /\ w \in S /\ f \in Nat /\ g \in Nat /\ h \in Nat
  OBVIOUS
<1>2. /\ PendingFirst(x, x) <=> \/ u \in B /\ u \notin B
                                \/ Before(u, u)
                                \/ f < f
      /\ PendingFirst(x, y) <=> \/ u \in B /\ v \notin B
                                \/ (u \in B <=> v \in B) /\ Before(u, v)
                                \/ u = v /\ f < g
      /\ PendingFirst(y, x) <=> \/ v \in B /\ u \notin B
                                \/ (u \in B <=> v \in B) /\ Before(v, u)
                                \/ u = v /\ g < f
      /\ PendingFirst(x, z) <=> \/ u \in B /\ w \notin B
                                \/ (u \in B <=> w \in B) /\ Before(u, w)
                                \/ u = w /\ f < h
      /\ PendingFirst(z, y) <=> \/ w \in B /\ v \notin B
                                \/ (w \in B <=> v \in B) /\ Before(w, v)
                                \/ w = v /\ h < g
  BY DEF PendingFirst
<1>3. /\ ~Before(u, u) /\ ~Before(v, v) /\ ~Before(w, w)
      /\ ~(Before(u, v) /\ Before(v, u))
      /\ u = w \/ Before(u, w) \/ Before(w, u)
      /\ Before(w, u) /\ Before(u, v) => Before(w, v)
  BY <1>1 DEF NamesOrdered
<1> HIDE DEF u, v, w, f, g, h
<1>4. ~PendingFirst(x, x)
  BY <1>1, <1>2, <1>3
<1>5. PendingFirst(x, y) => ~PendingFirst(y, x)
  BY <1>1, <1>2, <1>3
<1>6. PendingFirst(x, y) => PendingFirst(x, z) \/ PendingFirst(z, y)
  BY <1>1, <1>2, <1>3
<1> QED BY <1>4, <1>5, <1>6

(* What is sorted into the list of pending calls was there before.         *)
PendingInOrder(s) == StablySorted(s, PendingFirst)
Waits(S, p) == p.name \in S /\ p.call.from \in Nat

(* PendingFirst sorts any list of calls that wait: nothing is made up.     *)
LEMMA PendingSorted ==
  ASSUME NEW n \in Nat, NEW s, DOMAIN s = 1..n, NEW S, NamesOrdered(S),
         \A i \in 1..n : Waits(S, s[i]),
         NEW t, t = PendingInOrder(s)
  PROVE  DOMAIN t = 1..n /\ \A k \in 1..n : \E i \in 1..n : t[k] = s[i]
<1> DEFINE less(j, i) == PendingFirst(s[j], s[i]) \/ (~PendingFirst(s[i], s[j]) /\ j < i)
           R == {q \in (1..n) \X (1..n) : less(q[1], q[2])}
           place(i) == 1 + Cardinality({j \in 1..n : less(j, i)})
           p == [k \in 1..n |-> CHOOSE i \in 1..n : place(i) = k]
<1>1. t = [k \in 1..n |-> s[p[k]]]
  <2>1. t = [k \in 1..n |-> s[CHOOSE i \in 1..n : place(i) = k]]
    BY DEF PendingInOrder, StablySorted
  <2> HIDE DEF place
  <2> QED BY <2>1
<1>2. \A i, j \in 1..n : <<j, i>> \in R <=> less(j, i)
  OBVIOUS
<1> HIDE DEF R
<1>3. StrictOrder(R, 1..n)
  <2>1. ASSUME NEW x \in 1..n, NEW y \in 1..n, NEW z \in 1..n
        PROVE  /\ ~PendingFirst(s[x], s[x])
               /\ PendingFirst(s[x], s[y]) => ~PendingFirst(s[y], s[x])
               /\ PendingFirst(s[x], s[y]) => PendingFirst(s[x], s[z]) \/ PendingFirst(s[z], s[y])
    <3>1. Waits(S, s[x]) /\ Waits(S, s[y]) /\ Waits(S, s[z])
      OBVIOUS
    <3> QED BY <3>1, PendingOrdered DEF Waits
  <2>2. ASSUME NEW x \in 1..n, NEW y \in 1..n, NEW z \in 1..n, <<x, y>> \in R, <<y, z>> \in R
        PROVE  <<x, z>> \in R
    <3>1. less(x, y) /\ less(y, z)
      BY <1>2, <2>2
    <3>2. less(x, z)
      BY <2>1, <3>1
    <3> QED BY <1>2, <3>2
  <2>3. \A x \in 1..n : <<x, x>> \notin R
    BY <1>2, <2>1
  <2>4. \A x, y \in 1..n : x # y => <<x, y>> \in R \/ <<y, x>> \in R
    BY <1>2
  <2> QED BY <2>2, <2>3, <2>4 DEF StrictOrder
<1> HIDE DEF less
<1>4. \A i \in 1..n : place(i) = Place(R, n, i)
  BY <1>2 DEF Below, Place
<1> HIDE DEF place
<1>5. ASSUME NEW k \in 1..n PROVE p[k] \in 1..n
  <2>1. \E i \in 1..n : place(i) = k
    BY <1>3, <1>4, PlacesFound
  <2> QED BY <2>1
<1> HIDE DEF p
<1> QED BY <1>1, <1>5

(* What is pending under a name is a call of that name.                    *)
LEMMA PendingOf ==
  ASSUME NEW e, NEW n, NEW now, NEW m \in Nat, DOMAIN e.tools[n] = 1..m
  PROVE  /\ Len(PendingUnder(e, n, now)) \in Nat
         /\ DOMAIN PendingUnder(e, n, now) = 1..Len(PendingUnder(e, n, now))
         /\ \A k \in DOMAIN PendingUnder(e, n, now) : \E i \in 1..m :
              /\ PendingUnder(e, n, now)[k] = [name |-> n, call |-> e.tools[n][i]]
              /\ IsPending(e.tools[n][i], n, now)
<1> DEFINE S == {i \in DOMAIN e.tools[n] : IsPending(e.tools[n][i], n, now)}
           at == Ascending(S)
           C == Cardinality(S)
<1>1. PendingUnder(e, n, now) = [k \in DOMAIN at |-> [name |-> n, call |-> e.tools[n][at[k]]]]
  BY DEF PendingUnder
<1>2. S \subseteq Nat /\ S \subseteq 1..m /\ \A i \in S : IsPending(e.tools[n][i], n, now)
  OBVIOUS
<1> HIDE DEF S
<1>3. IsFiniteSet(S) /\ C \in Nat
  <2>1. IsFiniteSet(1..m)
    BY ONLY m \in Nat, 0 \in Nat, FS_Interval
  <2> QED BY <1>2, <2>1, FS_Subset, FS_CardinalityType
<1>4. DOMAIN at = 1..C
  BY DEF Ascending
<1>5. \A k \in 1..C : at[k] \in S
  BY <1>2, <1>3, AscendingIs
<1> HIDE DEF at, C
<1>6. Len(PendingUnder(e, n, now)) = C
  BY <1>1, <1>3, <1>4
<1> QED BY <1>1, <1>2, <1>3, <1>4, <1>5, <1>6

(* The pending calls of the first n names, one name after the other.       *)
Joined(s, e, n, now) == s \o PendingUnder(e, n, now)
JoinsUpTo(e, names, now, n, f) ==
  f = [k \in 0..n |-> IF k = 0 THEN <<>> ELSE Joined(f[k - 1], e, names[k], now)]
Joins(f, e, names, now, n) ==
  f[0] = <<>> /\ \A k \in 1..n : f[k] = Joined(f[k - 1], e, names[k], now)

(* The same as equations, one for each name.                               *)
LEMMA JoinsAre ==
  ASSUME NEW e, NEW names, NEW now, NEW n \in Nat, NEW f, JoinsUpTo(e, names, now, n, f)
  PROVE  Joins(f, e, names, now, n)
<1> DEFINE g == [k \in 0..n |-> IF k = 0 THEN <<>> ELSE Joined(f[k - 1], e, names[k], now)]
<1>1. f = g
  BY DEF JoinsUpTo
<1>2. g[0] = <<>> /\ \A k \in 1..n : g[k] = Joined(f[k - 1], e, names[k], now)
  OBVIOUS
<1> HIDE DEF g
<1> QED BY <1>1, <1>2 DEF Joins

(* There is a function that obeys them.                                    *)
LEMMA JoinsExist ==
  ASSUME NEW e, NEW names, NEW now, NEW n \in Nat PROVE \E f : JoinsUpTo(e, names, now, n, f)
<1> DEFINE S == {m \in Nat : \E f : JoinsUpTo(e, names, now, m, f)}
<1>1. 0 \in S
  <2>1. JoinsUpTo(e, names, now, 0, [k \in 0..0 |-> <<>>])
    BY DEF JoinsUpTo
  <2> QED BY <2>1
<1>2. ASSUME NEW m \in Nat, m \in S PROVE m + 1 \in S
  <2>1. PICK f : JoinsUpTo(e, names, now, m, f)
    BY <1>2
  <2> DEFINE all == Joined(f[m], e, names[m + 1], now)
             g == [k \in 0..(m + 1) |-> IF k = m + 1 THEN all ELSE f[k]]
  <2>2. \A j \in 0..(m + 1) : g[j] = IF j = m + 1 THEN all ELSE f[j]
    OBVIOUS
  <2>3. g = [k \in 0..(m + 1) |-> g[k]]
    OBVIOUS
  <2> HIDE DEF g, all
  <2>4. ASSUME NEW j \in 0..(m + 1)
        PROVE  g[j] = IF j = 0 THEN <<>> ELSE Joined(g[j - 1], e, names[j], now)
    <3>1. CASE j = 0
      <4>1. f[0] = <<>>
        BY <2>1, JoinsAre DEF Joins
      <4>2. g[0] = f[0]
        BY <2>2
      <4> QED BY <3>1, <4>1, <4>2
    <3>2. CASE j = m + 1
      <4>1. g[j] = all /\ g[m] = f[m] /\ j - 1 = m /\ j # 0
        BY <2>2, <3>2
      <4> QED BY <3>2, <4>1 DEF all
    <3>3. CASE j \in 1..m
      <4>1. f[j] = Joined(f[j - 1], e, names[j], now)
        BY <2>1, <3>3, JoinsAre DEF Joins
      <4>2. j - 1 \in 0..(m + 1) /\ j - 1 # m + 1 /\ j # m + 1 /\ j # 0
        BY <3>3
      <4>3. g[j] = f[j] /\ g[j - 1] = f[j - 1]
        BY <2>2, <4>2
      <4> QED BY <4>1, <4>2, <4>3
    <3> QED BY <3>1, <3>2, <3>3
  <2>5. JoinsUpTo(e, names, now, m + 1, g)
    BY <2>3, <2>4 DEF JoinsUpTo
  <2> QED BY <2>5
<1> HIDE DEF S
<1>3. n \in S
  BY <1>1, <1>2, AllNumbers
<1> QED BY <1>3 DEF S

(* What the report calls pending is a call of the session that is pending. *)
IsPendingIn(e, now, p) ==
  \E n \in Called(e.tools) : \E i \in DOMAIN e.tools[n] :
    p = [name |-> n, call |-> e.tools[n][i]] /\ IsPending(e.tools[n][i], n, now)

(* So it is for the list that pending_calls returns.                       *)
LEMMA PendingIn ==
  ASSUME NEW e, CallsOf(e.tools), NEW now,
         \A n \in DOMAIN e.tools : \A i \in DOMAIN e.tools[n] : e.tools[n][i].from \in Nat
  PROVE  \A p \in ToSet(PendingCalls(e, now)) : IsPendingIn(e, now, p)
<1> DEFINE S == Called(e.tools)
           names == ByName(S)
           C == Cardinality(S)
<1>1. /\ IsFiniteSet(S) /\ NamesOrdered(S)
      /\ \A n \in S : /\ n \in DOMAIN e.tools /\ Len(e.tools[n]) \in Nat
                      /\ DOMAIN e.tools[n] = 1..Len(e.tools[n])
  BY CallsCalled
<1>2. C \in Nat /\ names \in [1..C -> S]
  <2> HIDE DEF names, S
  <2>1. names = ByName(S)
    BY DEF names
  <2> QED BY <1>1, <2>1, ByNameIs
<1>3. Len(names) = C
  BY <1>2
<1>4. PICK f : /\ PendingCalls(e, now) = PendingInOrder(f[C])
               /\ f[0] = <<>>
               /\ \A k \in 1..C : f[k] = Joined(f[k - 1], e, names[k], now)
  <2> DEFINE upTo == CHOOSE f : JoinsUpTo(e, names, now, Len(names), f)
  <2>1. PendingCalls(e, now) = PendingInOrder(upTo[Len(names)])
    BY DEF PendingCalls, JoinsUpTo, Joined, PendingInOrder, Called
  <2>2. JoinsUpTo(e, names, now, C, upTo)
    <3> HIDE DEF names, S, C
    <3>1. \E g : JoinsUpTo(e, names, now, C, g)
      BY <1>2, JoinsExist
    <3> QED BY <1>3, <3>1
  <2> HIDE DEF upTo, names, S, C
  <2>3. Joins(upTo, e, names, now, C)
    BY <1>2, <2>2, JoinsAre
  <2> QED BY <1>3, <2>1, <2>3 DEF Joins
<1> DEFINE Good(s) == /\ Len(s) \in Nat /\ DOMAIN s = 1..Len(s)
                      /\ \A k \in 1..Len(s) : IsPendingIn(e, now, s[k])
           N == {m \in Nat : m <= C => Good(f[m])}
<1>5. ASSUME NEW k \in 1..C PROVE Good(PendingUnder(e, names[k], now))
  <2> DEFINE n == names[k]
  <2>1. n \in S
    BY <1>2
  <2>2. Len(e.tools[n]) \in Nat /\ DOMAIN e.tools[n] = 1..Len(e.tools[n])
    BY <1>1, <2>1
  <2> HIDE DEF n, names, C
  <2> DEFINE m == Len(e.tools[n])
             u == PendingUnder(e, n, now)
  <2>3. /\ Len(u) \in Nat /\ DOMAIN u = 1..Len(u)
        /\ \A j \in DOMAIN u : \E i \in 1..m :
             u[j] = [name |-> n, call |-> e.tools[n][i]] /\ IsPending(e.tools[n][i], n, now)
    BY <2>2, PendingOf
  <2> HIDE DEF u
  <2>4. \A j \in 1..Len(u) : IsPendingIn(e, now, u[j])
    BY <2>1, <2>2, <2>3 DEF IsPendingIn
  <2> QED BY <2>3, <2>4 DEF u, n
<1> HIDE DEF S, names, C
<1>6. 0 \in N
  BY <1>4
<1>7. ASSUME NEW m \in Nat, m \in N PROVE m + 1 \in N
  <2> SUFFICES ASSUME m + 1 <= C PROVE Good(f[m + 1])
    OBVIOUS
  <2>1. m + 1 \in 1..C /\ (m + 1) - 1 = m /\ Good(f[m])
    BY <1>2, <1>7
  <2> DEFINE u == PendingUnder(e, names[m + 1], now)
             v == f[m]
  <2>2. f[m + 1] = v \o u
    BY <1>4, <2>1 DEF Joined
  <2>3. Good(u) /\ Good(v)
    BY <1>5, <2>1
  <2> HIDE DEF u, v
  <2>4. Good(v \o u)
    <3>1. /\ DOMAIN (v \o u) = 1..(Len(v) + Len(u)) /\ Len(v \o u) = Len(v) + Len(u)
          /\ \A k \in 1..(Len(v) + Len(u)) : (v \o u)[k] = IF k <= Len(v) THEN v[k] ELSE u[k - Len(v)]
      BY <2>3
    <3>2. ASSUME NEW k \in 1..(Len(v) + Len(u)) PROVE IsPendingIn(e, now, (v \o u)[k])
      <4>1. CASE k <= Len(v)
        BY <2>3, <3>1, <4>1
      <4>2. CASE k > Len(v)
        <5>1. k - Len(v) \in 1..Len(u)
          BY <2>3, <4>2
        <5> QED BY <2>3, <3>1, <4>2, <5>1
      <4> QED BY <2>3, <4>1, <4>2
    <3> QED BY <2>3, <3>1, <3>2
  <2> QED BY <2>2, <2>4
<1> HIDE DEF Good, N
<1>8. C \in N
  BY <1>2, <1>6, <1>7, AllNumbers
<1> DEFINE s == f[C]
           t == PendingCalls(e, now)
<1>9. /\ Len(s) \in Nat /\ DOMAIN s = 1..Len(s)
      /\ \A k \in 1..Len(s) : IsPendingIn(e, now, s[k])
  BY <1>2, <1>8 DEF N, Good
<1>10. t = PendingInOrder(s)
  BY <1>4
<1> HIDE DEF s, t
<1>11. ASSUME NEW k \in 1..Len(s) PROVE Waits(S, s[k])
  <2>0. PICK n \in Called(e.tools) : \E i \in DOMAIN e.tools[n] : s[k] = [name |-> n, call |-> e.tools[n][i]]
    BY <1>9 DEF IsPendingIn
  <2>1. PICK i \in DOMAIN e.tools[n] : s[k] = [name |-> n, call |-> e.tools[n][i]]
    BY <2>0
  <2>2. n \in DOMAIN e.tools
    BY DEF Called
  <2>3. e.tools[n][i].from \in Nat
    BY <2>2
  <2> QED BY <2>1, <2>3 DEF Waits, S
<1>12. DOMAIN t = 1..Len(s) /\ \A k \in 1..Len(s) : \E i \in 1..Len(s) : t[k] = s[i]
  <2> DEFINE l == Len(s)
  <2>1. l \in Nat /\ DOMAIN s = 1..l /\ NamesOrdered(S) /\ \A i \in 1..l : Waits(S, s[i])
    BY <1>1, <1>9, <1>11
  <2> HIDE DEF l
  <2>2. DOMAIN t = 1..l /\ \A k \in 1..l : \E i \in 1..l : t[k] = s[i]
    BY ONLY <2>1, <1>10, PendingSorted
  <2> QED BY <2>2 DEF l
<1>13. \A p \in ToSet(t) : IsPendingIn(e, now, p)
  BY <1>9, <1>12 DEF ToSet
<1> QED BY <1>13 DEF t

-----------------------------------------------------------------------------
(* The report of a session                                                 *)

(* A call that was left open is closed after the last event.               *)
LateOK == \A r \in LeftOpen(tools) : At(tools, r).closed > Len(seen)

(* No event is handled after the last one.                                 *)
LEMMA EventsAreRead == ASSUME NEW ts \in Stamp, HandleEvent(ts) PROVE phase' = "reading"
<1>1. TurnStart(ts) \/ TurnEnd(ts) => phase' = "reading"
  BY DEF TurnStart, TurnEnd, Observe, ObserveAll
<1>2. \A n \in ToolName, id \in CallId \cup {None} : ToolStart(ts, n, id) => phase' = "reading"
  BY DEF ToolStart, Observe, ObserveAll
<1>3. \A id \in CallId \cup {None}, outcome \in Outcomes : ToolComplete(ts, id, outcome) => phase' = "reading"
  BY DEF ToolComplete, Observe, ObserveAll
<1>4. \A id \in CallId \cup {None} : UserRequested(ts, id) => phase' = "reading"
  BY DEF UserRequested, Observe, ObserveAll
<1>5. \A n \in HookName : HookStart(ts, n) \/ HookEnd(ts, n) => phase' = "reading"
  BY DEF HookStart, HookEnd, Observe, ObserveAll
<1>6. \A n \in SkillName : SkillInvoked(ts, n) => phase' = "reading"
  BY DEF SkillInvoked, Observe, ObserveAll
<1>7. (\E m \in Mode : ModeChanged(ts, m)) \/ ModelChange(ts) => phase' = "reading"
  BY DEF ModeChanged, ModelChange, Observe, ObserveAll
<1>8. AbortTool(ts) \/ AbortHook(ts) \/ AbortTurn(ts) \/ AbortNothing(ts) => phase' = "reading"
  BY DEF AbortTool, AbortHook, AbortTurn, AbortNothing, Observe, ObserveAll
<1>9. \A m \in Model, n \in Tokens : AssistantMessage(ts, m, n) => phase' = "reading"
  BY DEF AssistantMessage, Observe, ObserveAll
<1>10. (\E u \in Usage : Shutdown(ts, u)) \/ (\E announced \in SUBSET McpTool : OtherEvent(ts, announced))
         => phase' = "reading"
  BY DEF Shutdown, OtherEvent, ObserveAll
<1> QED
  BY <1>1, <1>2, <1>3, <1>4, <1>5, <1>6, <1>7, <1>8, <1>9, <1>10 DEF HandleEvent

(* Only finalize leaves a call open, and it counts as one more event.      *)
LEMMA LateKeeps == ASSUME IInv, CInv, LateOK, [Next]_vars PROVE LateOK'
<1>1. CASE phase' = "reading"
  <2>1. CInv'
    BY StepCounts
  <2>2. LeftOpen(tools)' = {}
    BY <1>1, <2>1 DEF CInv, LeftOpenOK
  <2> QED
    BY <2>2 DEF LateOK
<1>2. CASE UNCHANGED <<tools, seen>>
  BY <1>2 DEF LateOK, LeftOpen
<1>3. CASE CloseOpenTool
  <2> DEFINE o == Head(openTools)
             e == ToolCall(o, clock, "open", o.id)
             new == NextRef(tools, o.name)
  <2>1. openTools # <<>> /\ openTools \in Seq(OpenTool) /\ clock \in Stamp
    BY <1>3 DEF CloseOpenTool, IInv, OpenOK, SeenOK
  <2>2. o \in OpenTool
    BY <2>1, EntryEnds
  <2>3. o.name \in ToolNames /\ e \in ToolRecord
    BY <2>1, <2>2, ToolCallTyped DEF OpenTool, ToolNames, Status
  <2>4. e.closed = Len(seen) + 1 /\ seen' = seen /\ Len(seen) \in Nat /\ CommitTool(o.name, e)
    BY <1>3, ToolCallParts, LenProperties DEF CloseOpenTool, Now, IInv, SeenOK
  <2> HIDE DEF o, e
  <2>5. Added(tools, tools', new, e)
    BY <2>3, <2>4, ToolCommitted
  <2> HIDE DEF new
  <2>6. ASSUME NEW r \in LeftOpen(tools') PROVE At(tools', r).closed > Len(seen)
    <3>1. CASE r = new
      BY <2>4, <2>5, <3>1 DEF Added
    <3>2. CASE r # new
      <4>1. r \in LeftOpen(tools) /\ At(tools', r) = At(tools, r)
        BY <2>5, <3>2 DEF Added, LeftOpen
      <4> QED
        BY <4>1 DEF LateOK
    <3> QED
      BY <3>1, <3>2
  <2> QED
    BY <2>4, <2>6 DEF LateOK
<1>4. CASE CloseOpenHook \/ EndOfEvents \/ Finish \/ Done \/ UNCHANGED vars
  <2>1. UNCHANGED <<tools, seen>>
    BY <1>4 DEF CloseOpenHook, EndOfEvents, Finish, Done, vars, calls
  <2> QED
    BY <1>2, <2>1
<1> QED
  BY <1>1, <1>3, <1>4, EventsAreRead DEF Next, Finalize

(* LateOK holds throughout.                                                *)
LEMMA Lateness == Spec => [](IInv /\ CInv /\ LateOK)
<1>1. Init => LateOK
  <2> SUFFICES ASSUME Init PROVE LateOK
    OBVIOUS
  <2>1. Refs(tools) = {}
    BY DEF Init, Refs
  <2> QED
    BY <2>1 DEF LateOK, LeftOpen
<1>2. IInv /\ CInv /\ LateOK /\ [Next]_vars => LateOK'
  BY LateKeeps
<1> QED
  BY Counting, <1>1, <1>2, PTL DEF Spec

(* What a session has are calls.                                           *)
LEMMA SubsetOrdered == ASSUME NEW S, NEW T, T \subseteq S, NamesOrdered(S) PROVE NamesOrdered(T)
  BY DEF NamesOrdered

(* The tool calls of a session are calls.                                  *)
LEMMA ToolsAreCalls ==
  ASSUME IInv, CInv
  PROVE  /\ CallsOf(tools) /\ DOMAIN tools = ToolNames
         /\ \A n \in DOMAIN tools : \A i \in DOMAIN tools[n] :
              /\ tools[n][i].status \in {"success", "failure", "orphan", "aborted", "open"}
              /\ tools[n][i].from \in Nat
<1>1. tools \in [ToolNames -> Seq(ToolRecord)] /\ DOMAIN tools = ToolNames
  BY DEF IInv, ToolsOK
<1>2. ASSUME NEW c \in ToolRecord
      PROVE  /\ Duration(c) \in Nat /\ c.from \in Nat
             /\ c.status \in {"success", "failure", "orphan", "aborted", "open"}
  <2>1. c.from \in Stamp /\ c.to \in Stamp /\ c.status \in Status /\ c.from <= c.to
    BY DEF ToolRecord, Forward
  <2>2. c.from \in Nat /\ c.to \in Nat
    BY <2>1, ConstantsAssumption
  <2>3. Duration(c) \in Nat
    BY <2>1, <2>2 DEF Duration
  <2>4. c.status \in {"success", "failure", "orphan", "aborted", "open"}
    BY <2>1, ConstantsAssumption DEF Status
  <2> QED
    BY <2>2, <2>3, <2>4
<1>3. ASSUME NEW n \in ToolNames
      PROVE  /\ Len(tools[n]) \in Nat /\ DOMAIN tools[n] = 1..Len(tools[n])
             /\ tools[n] = <<>> <=> Len(tools[n]) = 0
             /\ \A i \in DOMAIN tools[n] : tools[n][i] \in ToolRecord
  <2>1. tools[n] \in Seq(ToolRecord)
    BY <1>1
  <2> QED
    BY <2>1, LenProperties, EmptySeq, ElementOfSeq
<1>4. IsFiniteSet(Refs(tools))
  <2>1. Len(seen) \in Nat
    BY LenProperties DEF IInv, SeenOK
  <2>2. /\ \A r \in Refs(tools) : At(tools, r).opened \in 1..Len(seen)
        /\ \A r, q \in Refs(tools) : At(tools, r).opened = At(tools, q).opened => r = q
    BY DEF CInv, ToolsCounted, Counted
  <2> QED
    BY <2>1, <2>2, RefsFinite
<1>5. NamesOrdered(Called(tools))
  BY <1>1, NamesAssumption, SubsetOrdered DEF Called, ToolNames
<1>6. CallsOf(tools)
  BY <1>1, <1>2, <1>3, <1>4, <1>5 DEF CallsOf
<1> QED
  BY <1>1, <1>2, <1>3, <1>6

(* So are its hook calls.                                                  *)
LEMMA HooksAreCalls == ASSUME IInv, CInv PROVE CallsOf(hooks)
<1>1. hooks \in [HookName -> Seq(HookRecord)] /\ DOMAIN hooks = HookName
  BY DEF IInv, HooksOK
<1>2. ASSUME NEW c \in HookRecord PROVE Duration(c) \in Nat
  <2>1. c.from \in Stamp /\ c.to \in Stamp /\ c.from <= c.to
    BY DEF HookRecord, Forward
  <2>2. c.from \in Nat /\ c.to \in Nat
    BY <2>1, ConstantsAssumption
  <2> QED
    BY <2>1, <2>2 DEF Duration
<1>3. ASSUME NEW n \in HookName
      PROVE  /\ Len(hooks[n]) \in Nat /\ DOMAIN hooks[n] = 1..Len(hooks[n])
             /\ hooks[n] = <<>> <=> Len(hooks[n]) = 0
             /\ \A i \in DOMAIN hooks[n] : hooks[n][i] \in HookRecord
  <2>1. hooks[n] \in Seq(HookRecord)
    BY <1>1
  <2> QED
    BY <2>1, LenProperties, EmptySeq, ElementOfSeq
<1>4. IsFiniteSet(Refs(hooks))
  <2>1. Len(seen) \in Nat
    BY LenProperties DEF IInv, SeenOK
  <2>2. /\ \A r \in Refs(hooks) : At(hooks, r).opened \in 1..Len(seen)
        /\ \A r, q \in Refs(hooks) : At(hooks, r).opened = At(hooks, q).opened => r = q
    BY DEF CInv, HooksCounted, Counted
  <2> QED
    BY <2>1, <2>2, RefsFinite
<1>5. NamesOrdered(Called(hooks))
  BY <1>1, NamesAssumption, SubsetOrdered DEF Called
<1> QED
  BY <1>1, <1>2, <1>3, <1>4, <1>5 DEF CallsOf

(* The summary of the turns lists every call that began in one.            *)
LEMMA SummaryCounts ==
  ASSUME IInv, CInv, NEW e, e.turns = turns
  PROVE  Cardinality(Refs(tools)) = Cardinality({r \in ToolRefs : ToolAt(r).turn = NoTurn})
           + Total([i \in DOMAIN TurnSummary(e) |-> TurnSummary(e)[i].tool_call_count])
<1> DEFINE s == [i \in DOMAIN TurnSummary(e) |-> TurnSummary(e)[i].tool_call_count]
           m == Len(turns)
<1>1. m \in Nat /\ DOMAIN turns = 1..m
  BY LenProperties DEF IInv, TurnsOK
<1>2. s = [i \in 1..m |-> Len(turns[i].tool_calls)]
  <2>1. DOMAIN TurnSummary(e) = 1..m /\ \A i \in 1..m : TurnSummary(e)[i].tool_call_count = Len(turns[i].tool_calls)
    BY <1>1 DEF TurnSummary
  <2> QED
    BY <2>1
<1>3. Len(s) = m /\ \A i \in 1..m : s[i] = Len(turns[i].tool_calls)
  BY <1>1, <1>2
<1> HIDE DEF s, m
<1>4. \A t \in 1..m : s[t] = Cardinality(OfTurn(tools, t))
  BY <1>1, <1>3 DEF CInv, ListedOK, Listed
<1>5. \A r \in Refs(tools) : At(tools, r).turn \in 0..m
  BY DEF CInv, ListedOK, Began, m
<1>6. IsFiniteSet(Refs(tools))
  BY ToolsAreCalls DEF CallsOf
<1>7. Cardinality(Refs(tools)) = Cardinality(OfTurn(tools, 0)) + Total(s)
  BY <1>1, <1>3, <1>4, <1>5, <1>6, TurnsCount
<1>8. OfTurn(tools, 0) = {r \in ToolRefs : ToolAt(r).turn = NoTurn}
  BY SameRefs DEF OfTurn, NoTurn
<1> QED
  BY <1>7, <1>8 DEF s

(* Both rankings and the summary count every call once.                    *)
LEMMA RankingsHold == ASSUME IInv, CInv PROVE RankingsAgree
<1> DEFINE e == Episodes
           rank == ToolRank(e)
           hookRank == HookRank(e)
<1>1. e.tools = tools /\ e.hooks = hooks /\ e.turns = turns
  BY DEF Episodes
<1> HIDE DEF e
<1>2. /\ Total([i \in DOMAIN rank |-> rank[i].call_count]) = Cardinality(Refs(tools))
      /\ \A i \in DOMAIN rank : rank[i].call_count =
           rank[i].success_count + rank[i].failure_count + rank[i].orphan_count
      /\ PercentilesAreOrdered(e, rank)
  <2>1. CallsOf(e.tools) /\ \A n \in DOMAIN e.tools : \A i \in DOMAIN e.tools[n] :
          e.tools[n][i].status \in {"success", "failure", "orphan", "aborted", "open"}
    BY <1>1, ToolsAreCalls
  <2> HIDE DEF rank
  <2>2. rank = ToolRank(e)
    BY DEF rank
  <2> QED
    BY <1>1, <2>1, <2>2, ToolRanking
<1>3. Total([i \in DOMAIN hookRank |-> hookRank[i].call_count]) = Cardinality(Refs(hooks))
  <2>1. CallsOf(e.hooks)
    BY <1>1, HooksAreCalls
  <2> HIDE DEF hookRank
  <2>2. hookRank = HookRank(e)
    BY DEF hookRank
  <2> QED
    BY <1>1, <2>1, <2>2, HookRanking
<1>4. Cardinality(Refs(tools)) = Cardinality({r \in ToolRefs : ToolAt(r).turn = NoTurn})
        + Total([i \in DOMAIN TurnSummary(e) |-> TurnSummary(e)[i].tool_call_count])
  BY <1>1, SummaryCounts
<1>5. CountsAgree(e, rank)
  BY <1>2, <1>3, <1>4, SameRefs DEF CountsAgree
<1> QED
  BY <1>2, <1>5 DEF RankingsAgree, Reported, e

(* Every call the report lists as pending was left open by the session.    *)
LEMMA PendingHolds == ASSUME IInv, CInv, LateOK PROVE PendingIsOpen
<1> DEFINE e == Episodes
<1>1. e.tools = tools
  BY DEF Episodes
<1> HIDE DEF e
<1>2. ASSUME NEW now \in Stamp, NEW p \in ToSet(PendingCalls(e, now))
      PROVE  p.call.closed > Len(seen) /\ now >= p.call.from + Threshold(p.name)
  <2>1. /\ CallsOf(e.tools)
        /\ \A n \in DOMAIN e.tools : \A i \in DOMAIN e.tools[n] : e.tools[n][i].from \in Nat
    BY <1>1, ToolsAreCalls
  <2>2. IsPendingIn(e, now, p)
    BY <2>1, PendingIn
  <2>3. PICK n \in Called(tools) : \E i \in DOMAIN tools[n] :
          p = [name |-> n, call |-> tools[n][i]] /\ IsPending(tools[n][i], n, now)
    BY <1>1, <2>2 DEF IsPendingIn
  <2>4. PICK i \in DOMAIN tools[n] :
          p = [name |-> n, call |-> tools[n][i]] /\ IsPending(tools[n][i], n, now)
    BY <2>3
  <2>5. n \in DOMAIN tools /\ p.name = n /\ p.call = tools[n][i]
    BY <2>4 DEF Called
  <2>6. tools[n][i].status = "open" /\ now - tools[n][i].from >= Threshold(n)
    BY <2>4 DEF IsPending
  <2> DEFINE r == [name |-> n, index |-> i]
  <2>7. r \in Refs(tools) /\ At(tools, r) = tools[n][i]
    BY <2>5 DEF Refs, At
  <2>8. r \in LeftOpen(tools)
    BY <2>6, <2>7 DEF LeftOpen
  <2>9. tools[n][i].closed > Len(seen)
    BY <2>7, <2>8 DEF LateOK
  <2>10. tools[n][i].from \in Nat /\ now \in Nat /\ Threshold(n) \in Nat
    BY <1>1, <2>1, <2>5, ConstantsAssumption, AnalyzerAssumption DEF Threshold
  <2> QED
    BY <2>5, <2>6, <2>9, <2>10
<1> QED
  BY <1>2 DEF PendingIsOpen, Reported, e

(* However starts, ends and aborts of a session's calls interleave: the    *)
(* ranking counts every call once, under one outcome, its percentiles are  *)
(* durations that occurred and in order, the turns and the ranking count   *)
(* the same calls, and what is reported as pending was never closed and is *)
(* as old as its threshold (tool_rank, hook_rank, turn_summary,            *)
(* pending_calls).                                                         *)
THEOREM ReportStaysSound == Spec => []ReportIsSound
<1>1. IInv /\ CInv /\ LateOK => ReportIsSound
  BY RankingsHold, PendingHolds DEF ReportIsSound
<1> QED
  BY Lateness, <1>1, PTL
=============================================================================
