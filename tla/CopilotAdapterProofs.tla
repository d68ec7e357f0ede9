------------------------ MODULE CopilotAdapterProofs ------------------------
(***************************************************************************)
(* Proofs about CopilotAdapter.  What a reader relies on after discovery   *)
(* is that a session's first line, once it has ended, never changes while  *)
(* its directory is there, and that the names an earlier discovery gave    *)
(* still fit it (Fits); the lines behind it only grow.                     *)
(***************************************************************************)
EXTENDS CopilotAdapter, FiniteSetTheorems, SequenceTheorems, WellFoundedInduction, TLAPS

-----------------------------------------------------------------------------
(* The inductive invariant.                                                *)

FileLine == [text : {"event", "blank", "malformed", "undecodable"}, open : BOOLEAN,
             type : {"SessionStart"} \cup {line.type : line \in Line},
             lacks : SUBSET STRING, announces : SUBSET STRING,
             at : 1..clock, session : Session \cup {None}]
Tails == [line : FileLine, cut : {"inside", "character", "newline"}]
Writers == {"none", "live", "closed", "crashed", "copied", "gone"}

FileStates == [lines : Seq(FileLine), tail : {None} \cup Tails, lock : BOOLEAN,
               mtime : Nat, writer : Writers, session : Session \cup {None}]

(* A line that names its session is the first of its file, and names one.  *)
NamesFirst(f) ==
  /\ \A n \in DOMAIN f.lines : f.lines[n].type = "SessionStart" => n = 1 /\ f.lines[n].session # None
  /\ f.tail # None /\ f.tail.line.type = "SessionStart"
       => f.lines = <<>> /\ f.tail.line.session # None
Ended(f) == f.writer = "closed" => ~f.lock /\ f.tail = None
GoodFile(f) == f \in FileStates /\ NamesFirst(f) /\ Ended(f)

FilesOK == files \in [Dir -> FileStates] /\ \A d \in Dir : GoodFile(files[d])

Found == [id : Session \cup Dir, dir : Dir, mtime : Nat, live : BOOLEAN, named : BOOLEAN]
Listed == [id : Session \cup Dir, dir : Dir, mtime : Nat, live : BOOLEAN, named : BOOLEAN,
           started : {None} \cup 1..clock]

(* A ref whose session had named itself still has its id, and its start.   *)
Fits(ref) ==
  /\ files[ref.dir].writer # "none"
  /\ ref.named /\ There(ref.dir) =>
       /\ files[ref.dir].lines # <<>>
       /\ ref.id = SessionRef(ref.dir).id
       /\ "started" \in DOMAIN ref => ref.started = FirstTime(ref.dir)

NewestFirst(found) ==
  \A i, j \in DOMAIN found : i < j => found[i].mtime >= found[j].mtime

ScanOK ==
  /\ scan \in [on : BOOLEAN, found : Seq(Found), left : SUBSET Dir]
  /\ NewestFirst(scan.found)
  /\ \A n \in DOMAIN scan.found : scan.found[n].dir \notin scan.left /\ Fits(scan.found[n])
RefsOK == refs \in Seq(Listed) /\ \A n \in DOMAIN refs : Fits(refs[n])
LoadOK ==
  /\ load.state \in {Idle, "found", "done"}
  /\ load.state = "done" => load.outcome \in {"Ok", "Io", "NotFound", "MissingSessionStart"}
  /\ load.state = "found" => /\ load.ref \in Found \cup Listed
                             /\ load.asked = load.ref.id
                             /\ Fits(load.ref)

IInv ==
  /\ clock \in Nat \ {0}
  /\ FilesOK
  /\ ScanOK /\ RefsOK /\ LoadOK

-----------------------------------------------------------------------------
(* Numbers: a set of numbers with 0 and every successor has them all, and a *)
(* set of numbers that is not empty has a least one.                       *)
LEMMA LeastIn ==
  ASSUME NEW S, S \subseteq Nat, S # {}
  PROVE  \E m \in S : \A n \in S : m <= n
<1> DEFINE R == {ss \in Nat \X Nat : ss[1] < ss[2]}
<1>1. IsWellFoundedOn(R, Nat)
  BY NatLessThanWellFounded DEF OpToRel
<1>2. PICK m \in S : \A y \in S : ~(<<y, m>> \in R)
  <2>1. IsWellFoundedOn(R, S)
    BY <1>1, IsWellFoundedOnSubset
  <2> QED BY <2>1, WFMin
<1>3. ASSUME NEW n \in S PROVE m <= n
  <2>1. <<n, m>> \in Nat \X Nat /\ <<n, m>>[1] = n /\ <<n, m>>[2] = m
    OBVIOUS
  <2> QED BY <1>2, <2>1
<1> QED BY <1>3

LEMMA AllNumbers ==
  ASSUME NEW S, 0 \in S, \A n \in Nat : n \in S => n + 1 \in S
  PROVE  \A n \in Nat : n \in S
<1> SUFFICES ASSUME Nat \ S # {} PROVE FALSE
  OBVIOUS
<1>1. PICK m \in Nat \ S : \A n \in Nat \ S : m <= n
  BY LeastIn
<1>2. m - 1 \in Nat /\ ~(m <= m - 1) /\ (m - 1) + 1 = m
  BY <1>1
<1> QED BY <1>1, <1>2

(* Picked obeys the equations that define it.                              *)
PicksUpTo(s, places, p) ==
  p = [n \in 0..Len(s) |-> IF n = 0 THEN <<>>
                           ELSE IF n \in places THEN Append(p[n - 1], s[n]) ELSE p[n - 1]]
LEMMA PicksExist ==
  ASSUME NEW s, Len(s) \in Nat, NEW places PROVE \E p : PicksUpTo(s, places, p)
<1> DEFINE Up(p, k) == p = [n \in 0..k |-> IF n = 0 THEN <<>>
                              ELSE IF n \in places THEN Append(p[n - 1], s[n]) ELSE p[n - 1]]
           Some(k) == \E p : Up(p, k)
<1>1. Some(0)
  <2> DEFINE p == [n \in 0..0 |-> <<>>]
  <2>1. Up(p, 0)
    OBVIOUS
  <2> QED BY <2>1
<1>2. ASSUME NEW k \in Nat, Some(k) PROVE Some(k + 1)
  <2>1. PICK p : Up(p, k)
    BY <1>2
  <2> DEFINE q == [n \in 0..(k + 1) |->
                     IF n <= k THEN p[n]
                     ELSE IF n \in places THEN Append(p[n - 1], s[n]) ELSE p[n - 1]]
             r == [n \in 0..(k + 1) |-> IF n = 0 THEN <<>>
                     ELSE IF n \in places THEN Append(q[n - 1], s[n]) ELSE q[n - 1]]
  <2>2. ASSUME NEW n \in 0..(k + 1) PROVE q[n] = r[n]
    <3>1. CASE n = 0
      BY <2>1, <3>1
    <3>2. CASE n \in 1..k
      <4>1. n - 1 \in 0..k /\ n \in 0..k /\ q[n - 1] = p[n - 1] /\ q[n] = p[n]
        BY <3>2
      <4> QED BY <2>1, <3>2, <4>1
    <3>3. CASE n = k + 1
      <4>1. n - 1 \in 0..k /\ q[n - 1] = p[n - 1] /\ ~(n <= k) /\ n # 0 /\ n - 1 <= k
        BY <3>3
      <4> QED BY <3>3, <4>1
    <3> QED BY <3>1, <3>2, <3>3
  <2>3. q = r
    BY <2>2
  <2> HIDE DEF q
  <2> QED BY <2>3
<1> HIDE DEF Some
<1>3. \A k \in Nat : Some(k)
  <2> DEFINE S == {k \in Nat : Some(k)}
  <2>1. 0 \in S /\ \A n \in Nat : n \in S => n + 1 \in S
    BY <1>1, <1>2
  <2> HIDE DEF S
  <2>2. \A n \in Nat : n \in S
    BY <2>1, AllNumbers
  <2> QED BY <2>2 DEF S
<1> QED BY <1>3 DEF Some, PicksUpTo

LEMMA PickedIs ==
  ASSUME NEW s, Len(s) \in Nat, NEW places
  PROVE  \E p : PicksUpTo(s, places, p) /\ Picked(s, places) = p[Len(s)]
<1> DEFINE p == CHOOSE q : PicksUpTo(s, places, q)
<1>1. PicksUpTo(s, places, p)
  BY PicksExist
<1>2. Picked(s, places) = p[Len(s)]
  BY DEF Picked, PicksUpTo
<1> HIDE DEF p
<1> QED BY <1>1, <1>2

(* What is picked is of the places, and as much as they are.               *)
LEMMA PickedSeq ==
  ASSUME NEW T, NEW s \in Seq(T), NEW places, places \subseteq 1..Len(s)
  PROVE  /\ Picked(s, places) \in Seq({s[n] : n \in places})
         /\ Len(Picked(s, places)) = Cardinality(places)
<1>1. Len(s) \in Nat
  OBVIOUS
<1>2. PICK p : PicksUpTo(s, places, p) /\ Picked(s, places) = p[Len(s)]
  BY <1>1, PickedIs
<1> DEFINE up(k) == places \cap 1..k
           V == {s[n] : n \in places}
           Good(k) == k <= Len(s) => /\ p[k] \in Seq(V) /\ IsFiniteSet(up(k))
                                     /\ Len(p[k]) = Cardinality(up(k))
<1>3. Good(0)
  <2>1. p[0] = <<>>
    BY <1>1, <1>2 DEF PicksUpTo
  <2>2. up(0) = {}
    OBVIOUS
  <2>3. IsFiniteSet({}) /\ Cardinality({}) = 0
    BY FS_EmptySet
  <2>4. p[0] \in Seq(V) /\ Len(p[0]) = 0
    BY <2>1
  <2> QED BY <2>2, <2>3, <2>4
<1>4. ASSUME NEW k \in Nat, Good(k) PROVE Good(k + 1)
  <2> SUFFICES ASSUME k + 1 <= Len(s)
               PROVE  /\ p[k + 1] \in Seq(V) /\ IsFiniteSet(up(k + 1))
                      /\ Len(p[k + 1]) = Cardinality(up(k + 1))
    OBVIOUS
  <2>1. p[k] \in Seq(V) /\ IsFiniteSet(up(k)) /\ Len(p[k]) = Cardinality(up(k))
    BY <1>1, <1>4
  <2>2. p[k + 1] = IF k + 1 \in places THEN Append(p[k], s[k + 1]) ELSE p[k]
    <3>1. k + 1 \in 0..Len(s) /\ k + 1 # 0 /\ (k + 1) - 1 = k
      BY <1>1
    <3> QED BY <1>2, <3>1 DEF PicksUpTo
  <2>3. CASE k + 1 \in places
    <3>1. up(k + 1) = up(k) \cup {k + 1} /\ k + 1 \notin up(k)
      BY <2>3
    <3>2. IsFiniteSet(up(k + 1)) /\ Cardinality(up(k + 1)) = Cardinality(up(k)) + 1
      <4> DEFINE now == up(k)
                 next == up(k + 1)
      <4>1. IsFiniteSet(now) /\ next = now \cup {k + 1} /\ k + 1 \notin now
        BY <2>1, <3>1
      <4> HIDE DEF now, next
      <4>2. IsFiniteSet(next) /\ Cardinality(next) = Cardinality(now) + 1
        BY <4>1, FS_AddElement
      <4> QED BY <4>2 DEF now, next
    <3>3. s[k + 1] \in V
      BY <2>3
    <3> HIDE DEF up, V
    <3>4. Append(p[k], s[k + 1]) \in Seq(V) /\ Len(Append(p[k], s[k + 1])) = Len(p[k]) + 1
      BY <2>1, <3>3
    <3> QED BY <2>1, <2>2, <2>3, <3>2, <3>4
  <2>4. CASE k + 1 \notin places
    <3>1. up(k + 1) = up(k)
      BY <2>4
    <3> QED BY <2>1, <2>2, <2>4, <3>1
  <2> QED BY <2>3, <2>4
<1> HIDE DEF Good
<1>5. \A k \in Nat : Good(k)
  <2> DEFINE S == {k \in Nat : Good(k)}
  <2>1. 0 \in S /\ \A n \in Nat : n \in S => n + 1 \in S
    BY <1>3, <1>4
  <2> HIDE DEF S
  <2>2. \A n \in Nat : n \in S
    BY <2>1, AllNumbers
  <2> QED BY <2>2 DEF S
<1>6. up(Len(s)) = places
  OBVIOUS
<1>7. p[Len(s)] \in Seq(V) /\ Len(p[Len(s)]) = Cardinality(up(Len(s)))
  <2>1. Good(Len(s)) /\ Len(s) <= Len(s)
    BY <1>1, <1>5
  <2> HIDE DEF up, V
  <2> QED BY <2>1 DEF Good
<1> QED BY <1>2, <1>6, <1>7

(* An element more is picked last, if at all.                              *)
LEMMA PickedMore ==
  ASSUME NEW T, NEW s \in Seq(T), NEW x \in T, NEW places, NEW more,
         \A n \in 1..Len(s) : n \in places <=> n \in more
  PROVE  Picked(Append(s, x), more) =
           IF Len(s) + 1 \in more THEN Append(Picked(s, places), x) ELSE Picked(s, places)
<1> DEFINE t == Append(s, x)
<1>1. /\ Len(s) \in Nat /\ Len(t) = Len(s) + 1 /\ t[Len(s) + 1] = x
      /\ \A n \in 1..Len(s) : t[n] = s[n]
  OBVIOUS
<1> HIDE DEF t
<1>2. PICK p : PicksUpTo(s, places, p) /\ Picked(s, places) = p[Len(s)]
  BY <1>1, PickedIs
<1>3. PICK q : PicksUpTo(t, more, q) /\ Picked(t, more) = q[Len(t)]
  BY <1>1, PickedIs
<1> DEFINE Same(k) == k <= Len(s) => p[k] = q[k]
<1>4. Same(0)
  <2>1. 0 \in 0..Len(s) /\ 0 \in 0..Len(t)
    BY <1>1
  <2> QED BY <1>2, <1>3, <2>1 DEF PicksUpTo
<1>5. ASSUME NEW k \in Nat, Same(k) PROVE Same(k + 1)
  <2> SUFFICES ASSUME k + 1 <= Len(s) PROVE p[k + 1] = q[k + 1]
    OBVIOUS
  <2>1. /\ k + 1 \in 0..Len(s) /\ k + 1 \in 0..Len(t) /\ k + 1 # 0 /\ (k + 1) - 1 = k
        /\ k + 1 \in 1..Len(s) /\ k <= Len(s)
    BY <1>1
  <2>2. p[k + 1] = IF k + 1 \in places THEN Append(p[k], s[k + 1]) ELSE p[k]
    BY <1>2, <2>1 DEF PicksUpTo
  <2>3. q[k + 1] = IF k + 1 \in more THEN Append(q[k], t[k + 1]) ELSE q[k]
    BY <1>3, <2>1 DEF PicksUpTo
  <2> QED BY <1>1, <1>5, <2>1, <2>2, <2>3
<1> HIDE DEF Same
<1>6. \A k \in Nat : Same(k)
  <2> DEFINE S == {k \in Nat : Same(k)}
  <2>1. 0 \in S /\ \A n \in Nat : n \in S => n + 1 \in S
    BY <1>4, <1>5
  <2> HIDE DEF S
  <2>2. \A n \in Nat : n \in S
    BY <2>1, AllNumbers
  <2> QED BY <2>2 DEF S
<1>7. q[Len(s)] = p[Len(s)]
  BY <1>1, <1>6 DEF Same
<1>8. q[Len(s) + 1] = IF Len(s) + 1 \in more THEN Append(q[Len(s)], x) ELSE q[Len(s)]
  <2>1. Len(s) + 1 \in 0..Len(t) /\ Len(s) + 1 # 0 /\ (Len(s) + 1) - 1 = Len(s)
    BY <1>1
  <2> QED BY <1>1, <1>3, <2>1 DEF PicksUpTo
<1> QED BY <1>1, <1>2, <1>3, <1>7, <1>8 DEF t

(* The events of a file are those of its lines that are events, in order.  *)
LEMMA EventsSeq ==
  ASSUME NEW T, NEW lines \in Seq(T)
  PROVE  /\ EventsOf(lines) \in Seq({Event(lines[n]) : n \in Parsed(lines)})
         /\ Len(EventsOf(lines)) = Cardinality(Parsed(lines))
<1> DEFINE parsed == Picked(lines, Parsed(lines))
<1>1. Parsed(lines) \subseteq 1..Len(lines)
  BY DEF Parsed
<1>2. parsed \in Seq({lines[n] : n \in Parsed(lines)}) /\ Len(parsed) = Cardinality(Parsed(lines))
  BY <1>1, PickedSeq
<1>3. \A n \in 1..Len(parsed) : Event(parsed[n]) \in {Event(lines[k]) : k \in Parsed(lines)}
  BY <1>2
<1>4. EventsOf(lines) = [n \in 1..Len(parsed) |-> Event(parsed[n])]
  BY <1>2 DEF EventsOf
<1> HIDE DEF parsed
<1> QED BY <1>2, <1>3, <1>4

LEMMA EventsSame ==
  ASSUME NEW T, NEW lines \in Seq(T) PROVE IsPrefix(EventsOf(lines), EventsOf(lines))
<1>1. Len(EventsOf(lines)) \in Nat
  BY EventsSeq, LenProperties
<1> QED BY <1>1 DEF IsPrefix

(* The events of a file that has a line more begin with those it had.      *)
LEMMA EventsGrow ==
  ASSUME NEW T, NEW lines \in Seq(T), NEW x \in T
  PROVE  IsPrefix(EventsOf(lines), EventsOf(Append(lines, x)))
<1> DEFINE more == Append(lines, x)
           a == Picked(lines, Parsed(lines))
           b == Picked(more, Parsed(more))
<1>1. \A n \in 1..Len(lines) : n \in Parsed(lines) <=> n \in Parsed(more)
  BY DEF Parsed
<1>2. b = IF Len(lines) + 1 \in Parsed(more) THEN Append(a, x) ELSE a
  BY <1>1, PickedMore
<1>3. a \in Seq(T)
  <2>1. Parsed(lines) \subseteq 1..Len(lines)
    BY DEF Parsed
  <2>2. a \in Seq({lines[n] : n \in Parsed(lines)})
    BY <2>1, PickedSeq
  <2>3. {lines[n] : n \in Parsed(lines)} \subseteq T
    BY <2>1
  <2> HIDE DEF a
  <2> QED BY <2>2, <2>3
<1>4. Len(a) \in Nat /\ Len(b) \in Nat /\ Len(a) <= Len(b) /\ \A n \in 1..Len(a) : b[n] = a[n]
  <2> HIDE DEF a, b
  <2> QED BY <1>2, <1>3
<1>5. b \in Seq(T)
  <2> HIDE DEF a, b
  <2> QED BY <1>2, <1>3
<1>6. EventsOf(lines) = [n \in 1..Len(a) |-> Event(a[n])]
  BY <1>3 DEF EventsOf
<1>7. EventsOf(more) = [n \in 1..Len(b) |-> Event(b[n])]
  BY <1>5 DEF EventsOf
<1>8. Len(EventsOf(lines)) = Len(a) /\ Len(EventsOf(more)) = Len(b)
  <2> HIDE DEF a, b
  <2> QED BY <1>4, <1>6, <1>7
<1>9. SubSeq(EventsOf(lines), 1, Len(a)) = SubSeq(EventsOf(more), 1, Len(a))
  <2> HIDE DEF a, b, more
  <2> QED BY <1>4, <1>6, <1>7
<1> QED BY <1>4, <1>8, <1>9 DEF IsPrefix

-----------------------------------------------------------------------------
(* The writer.  Each of its steps puts one file for another, which is later *)
(* in the sense below: a file that was there is never empty again before it *)
(* is gone, and gone it stays.                                             *)
Gone(f) == f.writer \in {"none", "gone"}
Later(f, g) ==
  f.writer # "none" =>
    /\ g.writer # "none"
    /\ ~Gone(g) => /\ ~Gone(f)
                   /\ g.lines = f.lines \/ \E x \in FileLine : g.lines = Append(f.lines, x)
Puts(d, g) == files' = [files EXCEPT ![d] = g] /\ GoodFile(g) /\ Later(files[d], g)
Change == \E d \in Dir, g \in FileStates : Puts(d, g)

LEMMA LineMade ==
  ASSUME clock \in Nat \ {0}, NEW line \in Line, NEW t \in Times
  PROVE  At(line, t, None) \in FileLine /\ At(line, t, None).type # "SessionStart"
<1>1. t \in 1..clock
  BY DEF Times
<1>2. line \in [text : {"event", "blank", "malformed", "undecodable"}, open : BOOLEAN,
                type : STRING \ {"SessionStart"}, lacks : SUBSET STRING, announces : SUBSET STRING]
  BY LineAssumption
<1> QED BY <1>1, <1>2 DEF At, FileLine

LEMMA StartMade ==
  ASSUME clock \in Nat \ {0}, NEW s \in Session
  PROVE  StartLine(s) \in FileLine /\ StartLine(s).session # None
BY AdapterAssumption DEF StartLine, At, FileLine

(* However a torn line is seen, it is of the same type and session.        *)
Retold(line) == {l \in FileLine : l.type = line.type /\ l.session = line.session}
LEMMA SeenRetold == ASSUME NEW tail \in Tails PROVE Seen(tail) \in Retold(tail.line)
<1>1. tail.line \in FileLine /\ tail.cut \in {"inside", "character", "newline"}
  BY DEF Tails
<1> QED BY <1>1 DEF Seen, Retold, FileLine

LEMMA GluedRetold ==
  ASSUME NEW tail \in Tails, NEW open \in BOOLEAN PROVE Glued(tail, open) \in Retold(tail.line)
<1>1. tail.line \in FileLine /\ tail.cut \in {"inside", "character", "newline"}
  BY DEF Tails
<1> QED BY <1>1 DEF Glued, Retold, FileLine

LEMMA Open ==
  ASSUME clock \in Nat \ {0}, FilesOK, NEW d \in Dir, OpenSession(d) PROVE Change
<1>1. PICK s \in Session, cut \in Cut \cup {None} :
        files' = [files EXCEPT ![d] =
                      [lines |-> IF cut = None THEN <<StartLine(s)>> ELSE <<>>,
                       tail  |-> IF cut = None THEN None
                                 ELSE [line |-> StartLine(s), cut |-> cut],
                       lock |-> TRUE, mtime |-> clock, writer |-> "live", session |-> s]]
  BY DEF OpenSession
<1> DEFINE g == [lines |-> IF cut = None THEN <<StartLine(s)>> ELSE <<>>,
                 tail  |-> IF cut = None THEN None ELSE [line |-> StartLine(s), cut |-> cut],
                 lock |-> TRUE, mtime |-> clock, writer |-> "live", session |-> s]
<1>2. StartLine(s) \in FileLine /\ StartLine(s).session # None
  BY StartMade
<1>3. <<StartLine(s)>> \in Seq(FileLine) /\ <<>> \in Seq(FileLine)
  BY <1>2
<1>4. cut # None => [line |-> StartLine(s), cut |-> cut] \in Tails
  BY <1>2, AdapterAssumption DEF Tails
<1>5. g \in FileStates
  BY <1>3, <1>4 DEF FileStates, Writers
<1>6. NamesFirst(g) /\ Ended(g)
  BY <1>2 DEF NamesFirst, Ended
<1>7. Later(files[d], g)
  BY DEF Later, OpenSession
<1>8. files' = [files EXCEPT ![d] = g]
  BY <1>1
<1> HIDE DEF g
<1> QED BY <1>5, <1>6, <1>7, <1>8 DEF Change, Puts, GoodFile

LEMMA Copy ==
  ASSUME clock \in Nat \ {0}, FilesOK, NEW d \in Dir, NEW e \in Dir, CopySession(d, e) PROVE Change
<1> DEFINE g == [files[d] EXCEPT !.writer = "copied", !.mtime = clock]
<1>1. files' = [files EXCEPT ![e] = g] /\ files[e].writer = "none"
  BY DEF CopySession
<1>2. GoodFile(files[d]) /\ files[d] \in FileStates
  BY DEF FilesOK, GoodFile
<1>3. g \in FileStates /\ g.lines = files[d].lines /\ g.tail = files[d].tail /\ g.writer = "copied"
  BY <1>2 DEF FileStates, Writers
<1>4. NamesFirst(g) /\ Ended(g)
  BY <1>2, <1>3 DEF NamesFirst, Ended, GoodFile
<1>5. Later(files[e], g)
  BY <1>1 DEF Later
<1> HIDE DEF g
<1> QED BY <1>1, <1>3, <1>4, <1>5 DEF Change, Puts, GoodFile

(* A line more leaves only the first one to name its session.              *)
LEMMA NamesOn ==
  ASSUME NEW f \in FileStates, NamesFirst(f), NEW x \in FileLine,
         x.type = "SessionStart" => f.lines = <<>> /\ x.session # None
  PROVE  \A n \in DOMAIN Append(f.lines, x) : Append(f.lines, x)[n].type = "SessionStart"
           => n = 1 /\ Append(f.lines, x)[n].session # None
<1> DEFINE more == Append(f.lines, x)
<1>1. f.lines \in Seq(FileLine)
  BY DEF FileStates
<1>2. DOMAIN more = 1..(Len(f.lines) + 1) /\ Len(f.lines) \in Nat /\ more[Len(f.lines) + 1] = x
      /\ \A n \in 1..Len(f.lines) : more[n] = f.lines[n]
  BY <1>1
<1> HIDE DEF more
<1> SUFFICES ASSUME NEW n \in DOMAIN more, more[n].type = "SessionStart"
             PROVE  n = 1 /\ more[n].session # None
  BY DEF more
<1>3. CASE n \in 1..Len(f.lines)
  BY <1>1, <1>2, <1>3 DEF NamesFirst
<1>4. CASE n = Len(f.lines) + 1
  <2>1. f.lines = <<>> /\ more[n] = x /\ x.session # None
    BY <1>2, <1>4
  <2> QED BY <1>4, <2>1
<1> QED BY <1>2, <1>3, <1>4

(* What a running writer writes.                                           *)
LEMMA Wrote ==
  ASSUME clock \in Nat \ {0}, FilesOK, NEW d \in Dir, files[d].writer \in {"live", "closed", "crashed"},
         NEW g \in FileStates, files' = [files EXCEPT ![d] = g], g.writer = "live",
         NEW x \in FileLine, g.lines \in {files[d].lines, Append(files[d].lines, x)},
         x.type = "SessionStart" => files[d].lines = <<>> /\ x.session # None,
         g.tail # None => g.lines = files[d].lines /\ g.tail.line.type # "SessionStart"
  PROVE  Change
<1>1. files[d] \in FileStates /\ NamesFirst(files[d])
  BY DEF FilesOK, GoodFile
<1>2. NamesFirst(g)
  BY <1>1, NamesOn DEF NamesFirst
<1>3. Ended(g) /\ Later(files[d], g)
  BY DEF Ended, Later, Gone
<1> QED BY <1>2, <1>3 DEF Change, Puts, GoodFile

(* The file that Write puts.                                               *)
LEMMA Written ==
  ASSUME clock \in Nat \ {0}, FilesOK, NEW d \in Dir, NEW lines \in Seq(FileLine),
         NEW tail \in {None} \cup Tails, Write(d, lines, tail)
  PROVE  \E g \in FileStates : /\ files' = [files EXCEPT ![d] = g]
                               /\ g.lines = lines /\ g.tail = tail /\ g.writer = files[d].writer
<1> DEFINE g == [files[d] EXCEPT !.lines = lines, !.tail = tail, !.mtime = clock]
<1>1. files[d] \in FileStates /\ files \in [Dir -> FileStates]
  BY DEF FilesOK
<1>2. /\ g \in FileStates /\ g.lines = lines /\ g.tail = tail /\ g.writer = files[d].writer
  BY <1>1 DEF FileStates
<1>3. files' = [files EXCEPT ![d] = g]
  BY <1>1 DEF Write, FileStates
<1> HIDE DEF g
<1> QED BY <1>2, <1>3

LEMMA Appended ==
  ASSUME clock \in Nat \ {0}, FilesOK, NEW d \in Dir, WriteLine(d) PROVE Change
<1>1. PICK line \in Line, t \in Times : AppendLine(d, At(line, t, None))
  BY DEF WriteLine
<1> DEFINE x == At(line, t, None)
<1>2. x \in FileLine /\ x.type # "SessionStart"
  BY LineMade
<1>3. files[d].lines \in Seq(FileLine) /\ files[d].writer = "live"
  BY DEF FilesOK, FileStates, WriteLine
<1> HIDE DEF x
<1>4. CASE Write(d, Append(files[d].lines, x), None)
  <2> DEFINE lines == Append(files[d].lines, x)
  <2>1. lines \in Seq(FileLine) /\ Write(d, lines, None)
    BY <1>2, <1>3, <1>4
  <2> HIDE DEF lines
  <2>2. PICK g \in FileStates : /\ files' = [files EXCEPT ![d] = g] /\ g.tail = None
                                /\ g.lines = lines /\ g.writer = "live"
    BY <1>3, <2>1, Written
  <2> QED BY <1>2, <1>3, <2>2, Wrote DEF lines
<1>5. CASE \E c \in Cut : Write(d, files[d].lines, [line |-> x, cut |-> c])
  <2>1. PICK c \in Cut : Write(d, files[d].lines, [line |-> x, cut |-> c])
    BY <1>5
  <2> DEFINE tail == [line |-> x, cut |-> c]
  <2>2. tail \in Tails /\ tail.line = x
    BY <1>2, AdapterAssumption DEF Tails
  <2> HIDE DEF tail
  <2>3. PICK g \in FileStates : /\ files' = [files EXCEPT ![d] = g] /\ g.tail = tail
                                /\ g.lines = files[d].lines /\ g.writer = "live"
    BY <1>3, <2>1, <2>2, Written DEF tail
  <2> QED BY <1>2, <1>3, <2>2, <2>3, Wrote
<1> QED BY <1>1, <1>4, <1>5 DEF AppendLine, x

LEMMA Finish ==
  ASSUME clock \in Nat \ {0}, FilesOK, NEW d \in Dir, FinishLine(d) PROVE Change
<1> DEFINE x == files[d].tail.line
<1>1. /\ files[d].lines \in Seq(FileLine) /\ files[d].writer = "live" /\ files[d].tail \in Tails
      /\ NamesFirst(files[d])
  BY DEF FilesOK, GoodFile, FileStates, FinishLine
<1>2. x \in FileLine /\ (x.type = "SessionStart" => files[d].lines = <<>> /\ x.session # None)
  BY <1>1 DEF Tails, NamesFirst, FinishLine
<1> DEFINE lines == Append(files[d].lines, x)
<1>3. Write(d, lines, None)
  BY DEF FinishLine
<1> HIDE DEF x
<1>4. lines \in Seq(FileLine)
  BY <1>1, <1>2
<1> HIDE DEF lines
<1>5. PICK g \in FileStates : /\ files' = [files EXCEPT ![d] = g] /\ g.tail = None
                              /\ g.lines = lines /\ g.writer = "live"
  BY <1>1, <1>3, <1>4, Written
<1> QED BY <1>1, <1>2, <1>5, Wrote DEF lines

LEMMA Resumed ==
  ASSUME clock \in Nat \ {0}, FilesOK, NEW d \in Dir, Resume(d) PROVE Change
<1> DEFINE f == files[d]
<1>1. f \in FileStates /\ NamesFirst(f) /\ f.writer \in {"closed", "crashed"}
  BY DEF FilesOK, GoodFile, Resume
<1>2. PICK open \in BOOLEAN :
        files' = [files EXCEPT ![d].writer = "live", ![d].lock = TRUE, ![d].tail = None,
                               ![d].lines = IF files[d].tail = None THEN @
                                            ELSE Append(@, Glued(files[d].tail, open)),
                               ![d].mtime = IF files[d].tail = None THEN @ ELSE clock]
  BY DEF Resume
<1> DEFINE lines == IF f.tail = None THEN f.lines ELSE Append(f.lines, Glued(f.tail, open))
           g == [f EXCEPT !.writer = "live", !.lock = TRUE, !.tail = None, !.lines = lines,
                          !.mtime = IF f.tail = None THEN @ ELSE clock]
<1>3. files' = [files EXCEPT ![d] = g]
  BY <1>1, <1>2 DEF FilesOK, FileStates
<1>4. f.tail # None => Glued(f.tail, open) \in Retold(f.tail.line)
  BY <1>1, GluedRetold DEF FileStates
<1>5. lines \in Seq(FileLine)
  BY <1>1, <1>4 DEF FileStates, Retold
<1>6. g \in FileStates /\ g.lines = lines /\ g.tail = None /\ g.writer = "live"
  BY <1>1, <1>5 DEF FileStates, Writers
<1>7. CASE f.tail = None
  <2>1. lines = f.lines
    BY <1>7
  <2> HIDE DEF g, lines
  <2>2. NamesFirst(g) /\ Ended(g) /\ Later(f, g)
    BY <1>1, <1>6, <2>1 DEF NamesFirst, Ended, Later, Gone
  <2> QED BY <1>3, <1>6, <2>2 DEF Change, Puts, GoodFile
<1>8. CASE f.tail # None
  <2> DEFINE x == Glued(f.tail, open)
  <2>1. x \in FileLine /\ lines = Append(f.lines, x)
        /\ x.type = f.tail.line.type /\ x.session = f.tail.line.session
    BY <1>4, <1>8 DEF Retold
  <2>2. x.type = "SessionStart" => f.lines = <<>> /\ x.session # None
    BY <1>1, <1>8, <2>1 DEF NamesFirst
  <2> HIDE DEF g, lines, x
  <2>3. g.lines \in {files[d].lines, Append(files[d].lines, x)}
    BY <1>6, <2>1
  <2> QED BY <1>1, <1>3, <1>6, <2>1, <2>2, <2>3, Wrote
<1> QED BY <1>7, <1>8

LEMMA Stopped ==
  ASSUME clock \in Nat \ {0}, FilesOK, NEW d \in Dir, Close(d) \/ Crash(d) \/ DeleteSession(d)
  PROVE  Change
<1> DEFINE f == files[d]
<1>1. f \in FileStates /\ NamesFirst(f) /\ Ended(f)
  BY DEF FilesOK, GoodFile
<1>2. CASE Close(d)
  <2> DEFINE g == [f EXCEPT !.writer = "closed", !.lock = FALSE]
  <2>1. files' = [files EXCEPT ![d] = g] /\ f.tail = None /\ f.writer = "live"
    BY <1>1, <1>2 DEF Close, FilesOK, FileStates
  <2>2. g \in FileStates /\ g.lines = f.lines /\ g.tail = f.tail /\ ~g.lock
    BY <1>1 DEF FileStates, Writers
  <2>3. NamesFirst(g) /\ Ended(g) /\ Later(f, g)
    BY <1>1, <2>1, <2>2 DEF NamesFirst, Ended, Later, Gone, FileStates
  <2> HIDE DEF g
  <2> QED BY <2>1, <2>2, <2>3 DEF Change, Puts, GoodFile
<1>3. CASE Crash(d)
  <2> DEFINE g == [f EXCEPT !.writer = "crashed"]
  <2>1. files' = [files EXCEPT ![d] = g] /\ f.writer = "live"
    BY <1>1, <1>3 DEF Crash, FilesOK, FileStates
  <2>2. g \in FileStates /\ g.lines = f.lines /\ g.tail = f.tail /\ g.writer = "crashed"
    BY <1>1 DEF FileStates, Writers
  <2>3. NamesFirst(g) /\ Ended(g) /\ Later(f, g)
    BY <1>1, <2>1, <2>2 DEF NamesFirst, Ended, Later, Gone
  <2> HIDE DEF g
  <2> QED BY <2>1, <2>2, <2>3 DEF Change, Puts, GoodFile
<1>4. CASE DeleteSession(d)
  <2> DEFINE g == [f EXCEPT !.lines = <<>>, !.tail = None, !.lock = FALSE, !.mtime = 0, !.writer = "gone"]
  <2>1. files' = [files EXCEPT ![d] = g]
    BY <1>1, <1>4 DEF DeleteSession, FilesOK, FileStates
  <2>2. g \in FileStates /\ g.lines = <<>> /\ g.tail = None /\ g.writer = "gone"
    <3>1. <<>> \in Seq(FileLine)
      OBVIOUS
    <3> QED BY <1>1, <3>1 DEF FileStates, Writers
  <2>3. NamesFirst(g) /\ Ended(g) /\ Later(f, g)
    BY <2>2 DEF NamesFirst, Ended, Later, Gone
  <2> HIDE DEF g
  <2> QED BY <2>1, <2>2, <2>3 DEF Change, Puts, GoodFile
<1> QED BY <1>2, <1>3, <1>4

LEMMA WriterChanges ==
  ASSUME clock \in Nat \ {0}, FilesOK, NEW d \in Dir, WriterStep(d)
  PROVE  Change /\ WriterOnly
<1>1. WriterOnly
  BY DEF WriterStep, OpenSession, WriteLine, FinishLine, Close, Crash, Resume, CopySession, DeleteSession
<1>2. Change
  BY Open, Appended, Finish, Stopped, Resumed, Copy DEF WriterStep
<1> QED BY <1>1, <1>2

-----------------------------------------------------------------------------
(* What discovery reads of a file.                                         *)
LEMMA LinesSeq ==
  ASSUME FilesOK, NEW d \in Dir PROVE LinesOf(d) \in Seq(FileLine)
<1>1. files[d].lines \in Seq(FileLine) /\ files[d].tail \in {None} \cup Tails
  BY DEF FilesOK, FileStates
<1>2. files[d].tail # None => Seen(files[d].tail) \in FileLine
  BY <1>1, SeenRetold DEF Retold
<1>3. (IF files[d].tail = None THEN <<>> ELSE <<Seen(files[d].tail)>>) \in Seq(FileLine)
  BY <1>2
<1> QED BY <1>1, <1>3 DEF LinesOf

LEMMA FirstLine ==
  ASSUME NEW S, NEW lines \in Seq(S), lines # <<>>, NEW tail
  PROVE  LET all == lines \o (IF tail = None THEN <<>> ELSE <<Seen(tail)>>)
         IN  all # <<>> /\ all[1] = lines[1]
<1> DEFINE torn == IF tail = None THEN <<>> ELSE <<Seen(tail)>>
<1>1. torn \in Seq({Seen(tail)})
  <2>1. <<>> \in Seq({Seen(tail)}) /\ <<Seen(tail)>> \in Seq({Seen(tail)})
    OBVIOUS
  <2> QED BY <2>1
<1>2. Len(lines) \in Nat \ {0}
  OBVIOUS
<1> HIDE DEF torn
<1>3. lines \o torn # <<>> /\ (lines \o torn)[1] = lines[1]
  BY <1>1, <1>2
<1> QED BY <1>3 DEF torn

(* A line of a file has ended, or is the torn one.                         *)
LEMMA TornPlace ==
  ASSUME FilesOK, NEW d \in Dir
  PROVE  \A n \in 1..Len(LinesOf(d)) :
           \/ n \in DOMAIN files[d].lines /\ LinesOf(d)[n] = files[d].lines[n]
           \/ /\ n = Len(LinesOf(d)) /\ files[d].tail # None
              /\ LinesOf(d)[n] = Seen(files[d].tail)
<1> DEFINE lines == files[d].lines
           tail == files[d].tail
           all == LinesOf(d)
<1>1. lines \in Seq(FileLine)
  BY DEF FilesOK, FileStates
<1>2. all = lines \o (IF tail = None THEN <<>> ELSE <<Seen(tail)>>)
  BY DEF LinesOf
<1> HIDE DEF lines, tail, all
<1> DEFINE torn == IF tail = None THEN <<>> ELSE <<Seen(tail)>>
<1>3. Len(lines) \in Nat /\ torn \in Seq({Seen(tail)}) /\ Len(torn) \in 0..1
      /\ (Len(torn) = 1 => tail # None /\ torn[1] = Seen(tail))
  <2>1. Len(lines) \in Nat /\ <<>> \in Seq({Seen(tail)}) /\ <<Seen(tail)>> \in Seq({Seen(tail)})
    BY <1>1
  <2>2. CASE tail = None
    <3>1. torn = <<>> /\ Len(torn) = 0
      BY <2>2
    <3> QED BY <2>1, <3>1
  <2>3. CASE tail # None
    <3>1. torn = <<Seen(tail)>> /\ Len(torn) = 1 /\ torn[1] = Seen(tail)
      BY <2>3
    <3> HIDE DEF torn
    <3> QED BY <2>1, <2>3, <3>1
  <2> QED BY <2>2, <2>3
<1>4. all = lines \o torn
  BY <1>2
<1> HIDE DEF torn
<1>5. Len(all) = Len(lines) + Len(torn)
      /\ \A n \in 1..Len(all) : all[n] = IF n <= Len(lines) THEN lines[n] ELSE torn[n - Len(lines)]
  BY <1>1, <1>3, <1>4
<1>6. ASSUME NEW n \in 1..Len(all)
      PROVE  \/ n \in DOMAIN lines /\ all[n] = lines[n]
             \/ n = Len(all) /\ tail # None /\ all[n] = Seen(tail)
  <2>1. CASE n <= Len(lines)
    BY <1>1, <1>5, <2>1
  <2>2. CASE n > Len(lines)
    <3>1. Len(torn) = 1 /\ n = Len(all) /\ n - Len(lines) = 1
      BY <1>3, <1>5, <2>2
    <3> QED BY <1>3, <1>5, <2>2, <3>1
  <2> QED BY <1>3, <2>1, <2>2
<1> QED BY <1>6 DEF lines, tail, all

LEMMA RefMade ==
  ASSUME clock \in Nat \ {0}, FilesOK, NEW d \in Dir, There(d)
  PROVE  SessionRef(d) \in Found /\ Fits(SessionRef(d)) /\ SessionRef(d).dir = d
<1>1. FirstSession(d) \in Session \cup {None}
  <2>1. LinesOf(d) # <<>> => LinesOf(d)[1] \in FileLine
    BY LinesSeq
  <2> QED BY <2>1 DEF FirstSession, FileLine
<1>2. files[d] \in FileStates
  BY DEF FilesOK
<1>3. SessionRef(d) \in Found
  BY <1>1, <1>2 DEF SessionRef, Found, FileStates
<1>4. SessionRef(d).dir = d /\ (SessionRef(d).named => files[d].lines # <<>>)
      /\ "started" \notin DOMAIN SessionRef(d)
  BY DEF SessionRef
<1> QED BY <1>3, <1>4 DEF Fits, There

LEMMA FirstTimeIs ==
  ASSUME FilesOK, NEW d \in Dir PROVE FirstTime(d) \in {None} \cup 1..clock
<1>1. LinesOf(d) # <<>> => LinesOf(d)[1] \in FileLine
  BY LinesSeq
<1> QED BY <1>1 DEF FirstTime, FileLine

(* A ref goes on fitting, whatever the writer does.                        *)
LEMMA ChangeIsLater ==
  ASSUME FilesOK, Change, NEW d \in Dir
  PROVE  Later(files[d], files'[d])
<1>1. PICK e \in Dir, g \in FileStates : Puts(e, g)
  BY DEF Change
<1>2. files'[d] = IF d = e THEN g ELSE files[d]
  BY <1>1 DEF Puts, FilesOK
<1>3. Later(files[d], files[d])
  BY DEF Later
<1> QED BY <1>1, <1>2, <1>3 DEF Puts

LEMMA ChangeOK ==
  ASSUME FilesOK, Change, UNCHANGED clock PROVE FilesOK'
<1>1. PICK e \in Dir, g \in FileStates : Puts(e, g)
  BY DEF Change
<1>2. FileLine' = FileLine /\ Tails' = Tails /\ FileStates' = FileStates
  BY DEF FileLine, Tails, FileStates
<1>3. files' \in [Dir -> FileStates]
  BY <1>1 DEF Puts, FilesOK
<1>4. ASSUME NEW d \in Dir PROVE GoodFile(files'[d])
  BY <1>1 DEF Puts, FilesOK
<1>5. ASSUME NEW d \in Dir PROVE GoodFile(files[d])'
  BY <1>2, <1>4 DEF GoodFile, NamesFirst, Ended
<1> QED BY <1>2, <1>3, <1>5 DEF FilesOK

LEMMA FitsOn ==
  ASSUME FilesOK, Change, NEW ref, ref.dir \in Dir, Fits(ref) PROVE Fits(ref)'
<1> DEFINE d == ref.dir
           f == files[d]
           g == files'[d]
<1>1. Later(f, g) /\ f.writer # "none"
  BY ChangeIsLater DEF Fits
<1>2. g.writer # "none"
  BY <1>1 DEF Later
<1>3. ASSUME ref.named, There(d)'
      PROVE  /\ g.lines # <<>> /\ ref.id = SessionRef(d)'.id
             /\ "started" \in DOMAIN ref => ref.started = FirstTime(d)'
  <2>1. There(d) /\ (g.lines = f.lines \/ \E x \in FileLine : g.lines = Append(f.lines, x))
    BY <1>1, <1>3 DEF Later, Gone, There
  <2>2. /\ f.lines # <<>> /\ ref.id = SessionRef(d).id
        /\ "started" \in DOMAIN ref => ref.started = FirstTime(d)
    BY <1>3, <2>1 DEF Fits
  <2>3. f.lines \in Seq(FileLine)
    BY DEF FilesOK, FileStates
  <2>4. g.lines \in Seq(FileLine) /\ g.lines # <<>> /\ g.lines[1] = f.lines[1]
    <3>1. \A lines \in Seq(FileLine), x \in FileLine :
            /\ Append(lines, x) \in Seq(FileLine) /\ Append(lines, x) # <<>>
            /\ lines # <<>> => Append(lines, x)[1] = lines[1]
      OBVIOUS
    <3> HIDE DEF f, g
    <3> QED BY <2>1, <2>2, <2>3, <3>1
  <2>5. LinesOf(d) # <<>> /\ LinesOf(d)[1] = f.lines[1]
    BY <2>2, <2>3, FirstLine DEF LinesOf
  <2>6. LinesOf(d)' # <<>> /\ LinesOf(d)'[1] = g.lines[1]
    BY <2>4, FirstLine DEF LinesOf
  <2>7. FirstSession(d)' = FirstSession(d) /\ FirstTime(d)' = FirstTime(d)
    BY <2>4, <2>5, <2>6 DEF FirstSession, FirstTime
  <2> QED BY <2>2, <2>4, <2>7 DEF SessionRef
<1> QED BY <1>2, <1>3 DEF Fits

-----------------------------------------------------------------------------
(* The order of discovery.                                                 *)
LEMMA MinLeast ==
  ASSUME NEW I, I \subseteq Nat, I # {} PROVE Min(I) \in I /\ \A n \in I : Min(I) <= n
<1>1. \E m \in I : \A n \in I : m <= n
  BY LeastIn
<1> QED BY <1>1 DEF Min

LEMMA FoundTimes ==
  ASSUME NEW found \in Seq(Found), NEW n \in DOMAIN found PROVE found[n].mtime \in Nat
<1>1. found[n] \in Found
  OBVIOUS
<1> QED BY <1>1 DEF Found

(* The first older one, if any.                                            *)
LEMMA FirstOlder ==
  ASSUME NEW found \in Seq(Found), NEW m \in Nat
  PROVE  LET k == SelectInSeq(found, LAMBDA r : r.mtime < m)
         IN  \/ k = 0 /\ \A n \in DOMAIN found : found[n].mtime >= m
             \/ /\ k \in DOMAIN found /\ found[k].mtime < m
                /\ \A n \in 1..(k - 1) : found[n].mtime >= m
<1> DEFINE I == {i \in 1..Len(found) : found[i].mtime < m}
<1>1. \A n \in DOMAIN found : found[n].mtime \in Nat
  BY FoundTimes
<1>2. CASE I = {}
  BY <1>1, <1>2 DEF SelectInSeq
<1>3. CASE I # {}
  <2>1. Min(I) \in I /\ \A n \in I : Min(I) <= n
    <3>1. I \subseteq Nat
      OBVIOUS
    <3> QED BY <1>3, <3>1, MinLeast
  <2>2. SelectInSeq(found, LAMBDA r : r.mtime < m) = Min(I)
    BY <1>3 DEF SelectInSeq
  <2>3. ASSUME NEW n \in 1..(Min(I) - 1) PROVE found[n].mtime >= m
    <3>1. n \in 1..Len(found) /\ n \notin I
      BY <2>1
    <3> QED BY <1>1, <3>1
  <2>4. Min(I) \in DOMAIN found /\ found[Min(I)].mtime < m
    BY <2>1
  <2> HIDE DEF I
  <2> QED BY <2>2, <2>3, <2>4
<1> QED BY <1>2, <1>3

(* Each insertion keeps the newest first.                                  *)
LEMMA InsertedOK ==
  ASSUME NEW found \in Seq(Found), NewestFirst(found), NEW ref \in Found
  PROVE  /\ Inserted(found, ref) \in Seq(Found)
         /\ NewestFirst(Inserted(found, ref))
         /\ \A n \in DOMAIN Inserted(found, ref) :
              \/ Inserted(found, ref)[n] = ref
              \/ \E m \in DOMAIN found : Inserted(found, ref)[n] = found[m]
<1> DEFINE k == SelectInSeq(found, LAMBDA r : r.mtime < ref.mtime)
           all == Inserted(found, ref)
<1>1. ref.mtime \in Nat /\ \A n \in DOMAIN found : found[n].mtime \in Nat
  BY FoundTimes DEF Found
<1>2. \/ k = 0 /\ \A n \in DOMAIN found : found[n].mtime >= ref.mtime
      \/ /\ k \in DOMAIN found /\ found[k].mtime < ref.mtime
         /\ \A n \in 1..(k - 1) : found[n].mtime >= ref.mtime
  BY <1>1, FirstOlder
<1>3. all = IF k = 0 THEN Append(found, ref)
            ELSE SubSeq(found, 1, k - 1) \o <<ref>> \o SubSeq(found, k, Len(found))
  BY DEF Inserted, InsertAt
<1> HIDE DEF k, all
<1>4. CASE k = 0
  <2>1. all \in Seq(Found) /\ Len(all) = Len(found) + 1 /\ all[Len(all)] = ref
        /\ \A n \in 1..Len(found) : all[n] = found[n]
    BY <1>3, <1>4
  <2>2. \A n \in DOMAIN found : found[n].mtime >= ref.mtime
    BY <1>2, <1>4
  <2>3. NewestFirst(all)
    <3> SUFFICES ASSUME NEW i \in DOMAIN all, NEW j \in DOMAIN all, i < j
                 PROVE  all[i].mtime >= all[j].mtime
      BY DEF NewestFirst
    <3>1. i \in 1..Len(found) /\ all[i] = found[i]
      BY <2>1
    <3> QED BY <2>1, <2>2, <3>1 DEF NewestFirst
  <2> QED BY <2>1, <2>3 DEF all
<1>5. CASE k \in DOMAIN found /\ found[k].mtime < ref.mtime
  <2> DEFINE before == SubSeq(found, 1, k - 1)
             behind == SubSeq(found, k, Len(found))
  <2>1. k \in 1..Len(found) /\ k # 0 /\ k \in Nat
    BY <1>5
  <2>2. /\ before \in Seq(Found) /\ Len(before) = k - 1
        /\ behind \in Seq(Found) /\ Len(behind) = Len(found) - k + 1
        /\ \A n \in 1..(k - 1) : before[n] = found[n]
        /\ \A n \in 1..(Len(found) - k + 1) : behind[n] = found[k + n - 1]
    BY <2>1
  <2>3. all = before \o <<ref>> \o behind
    BY <1>3, <2>1
  <2> HIDE DEF before, behind
  <2>4. all \in Seq(Found) /\ Len(all) = Len(found) + 1
    <3>1. <<ref>> \in Seq(Found) /\ Len(<<ref>>) = 1
      OBVIOUS
    <3>2. before \o <<ref>> \in Seq(Found) /\ Len(before \o <<ref>>) = k
      BY <2>1, <2>2, <3>1
    <3> DEFINE init == before \o <<ref>>
    <3> HIDE DEF init
    <3>3. init \in Seq(Found) /\ Len(init) = k /\ all = init \o behind
      BY <2>3, <3>2 DEF init
    <3>4. all \in Seq(Found) /\ Len(all) = Len(init) + Len(behind)
      <4>1. init \in Seq(Found) /\ behind \in Seq(Found) /\ all = init \o behind
        BY <2>2, <3>3
      <4> HIDE DEF init, behind, all
      <4> QED BY <4>1, ConcatProperties
    <3>5. \A m, n \in Nat : m + (n - m + 1) = n + 1
      OBVIOUS
    <3>6. Len(found) \in Nat /\ k \in Nat /\ Len(init) = k /\ Len(behind) = Len(found) - k + 1
      BY <2>1, <2>2, <3>3
    <3>7. Len(all) = Len(found) + 1
      BY <3>4, <3>5, <3>6
    <3> QED BY <3>4, <3>7
  <2>5. ASSUME NEW n \in 1..(Len(found) + 1)
        PROVE  all[n] = IF n < k THEN found[n] ELSE IF n = k THEN ref ELSE found[n - 1]
    <3>1. CASE n < k
      BY <2>1, <2>2, <2>3, <3>1
    <3>2. CASE n = k
      BY <2>1, <2>2, <2>3, <3>2
    <3>3. CASE n > k
      <4>1. all[n] = behind[n - k] /\ n - k \in 1..(Len(found) - k + 1)
        BY <2>1, <2>2, <2>3, <3>3
      <4>2. behind[n - k] = found[k + (n - k) - 1] /\ k + (n - k) - 1 = n - 1
        BY <2>1, <2>2, <4>1
      <4> QED BY <2>1, <3>3, <4>1, <4>2
    <3> QED BY <2>1, <3>1, <3>2, <3>3
  <2>6. \A n \in 1..(k - 1) : found[n].mtime >= ref.mtime
    BY <1>2, <2>1
  <2>7. ASSUME NEW n \in k..Len(found) PROVE found[n].mtime < ref.mtime
    <3>1. found[k].mtime >= found[n].mtime
      BY <1>1, <2>1 DEF NewestFirst
    <3> QED BY <1>1, <1>5, <2>1, <3>1
  <2>8. NewestFirst(all)
    <3> SUFFICES ASSUME NEW i \in 1..(Len(found) + 1), NEW j \in 1..(Len(found) + 1), i < j
                 PROVE  all[i].mtime >= all[j].mtime
      BY <2>4 DEF NewestFirst
    <3>1. CASE j < k
      BY <2>1, <2>5, <3>1 DEF NewestFirst
    <3>2. CASE j = k
      BY <2>1, <2>5, <2>6, <3>2
    <3>3. CASE i = k
      <4>1. all[i] = ref /\ all[j] = found[j - 1] /\ j - 1 \in k..Len(found)
        BY <2>1, <2>5, <3>3
      <4> QED BY <1>1, <2>7, <4>1
    <3>4. CASE i < k /\ j > k
      <4>1. all[i] = found[i] /\ all[j] = found[j - 1] /\ i < j - 1 /\ i \in 1..Len(found) /\ j - 1 \in 1..Len(found)
        BY <2>1, <2>5, <3>4
      <4> QED BY <4>1 DEF NewestFirst
    <3>5. CASE i > k
      <4>1. /\ all[i] = found[i - 1] /\ all[j] = found[j - 1] /\ i - 1 < j - 1
            /\ i - 1 \in 1..Len(found) /\ j - 1 \in 1..Len(found)
        BY <2>1, <2>5, <3>5
      <4> QED BY <4>1 DEF NewestFirst
    <3> QED BY <2>1, <3>1, <3>2, <3>3, <3>4, <3>5
  <2>9. ASSUME NEW n \in DOMAIN all PROVE all[n] = ref \/ \E m \in DOMAIN found : all[n] = found[m]
    BY <2>1, <2>4, <2>5
  <2> QED BY <2>4, <2>8, <2>9 DEF all
<1> QED BY <1>2, <1>4, <1>5

-----------------------------------------------------------------------------
(* The invariant holds.                                                    *)
LEMMA InitOK == Init => IInv
<1> SUFFICES ASSUME Init PROVE IInv
  OBVIOUS
<1>1. <<>> \in Seq(FileLine) /\ <<>> \in Seq(Found) /\ <<>> \in Seq(Listed)
  OBVIOUS
<1>2. clock \in Nat \ {0} /\ scan.found = <<>> /\ scan.left = {} /\ scan.on = FALSE /\ refs = <<>>
  BY DEF Init
<1>3. FilesOK
  <2>1. ASSUME NEW d \in Dir PROVE GoodFile(files[d]) /\ files[d] \in FileStates
    BY <1>1, <2>1 DEF Init, GoodFile, FileStates, NamesFirst, Ended, Writers
  <2> QED BY <2>1 DEF FilesOK, Init
<1>4. ScanOK /\ RefsOK
  BY <1>1, <1>2 DEF ScanOK, RefsOK, NewestFirst, Init
<1>5. LoadOK
  BY DEF LoadOK, Init, Idle
<1> QED BY <1>2, <1>3, <1>4, <1>5 DEF IInv

(* A step that leaves the files alone, or the clock.                       *)
LEMMA FitsStays == ASSUME UNCHANGED files PROVE \A ref : Fits(ref)' <=> Fits(ref)
BY DEF Fits, There, SessionRef, FirstSession, FirstTime, LinesOf

LEMMA TypesStay == ASSUME UNCHANGED <<files, clock>>, FilesOK PROVE FilesOK' /\ Listed' = Listed
<1>1. FileStates' = FileStates /\ Listed' = Listed
  BY DEF FileStates, Tails, FileLine, Listed
<1> QED BY <1>1 DEF FilesOK, GoodFile, NamesFirst, Ended

LEMMA WriterInv == ASSUME IInv, NEW d \in Dir, WriterStep(d) PROVE IInv'
<1>1. Change /\ UNCHANGED <<clock, scan, refs, load>> /\ FilesOK /\ clock \in Nat \ {0}
  BY WriterChanges DEF IInv, WriterOnly
<1>2. FilesOK' /\ clock' \in Nat \ {0}
  BY <1>1, ChangeOK
<1>3. \A ref : ref.dir \in Dir /\ Fits(ref) => Fits(ref)'
  BY <1>1, FitsOn
<1>4. ScanOK'
  <2>1. \A n \in DOMAIN scan.found : scan.found[n] \in Found
    BY DEF IInv, ScanOK
  <2>2. \A n \in DOMAIN scan.found : Fits(scan.found[n])'
    BY <1>1, <1>3, <2>1 DEF IInv, ScanOK, Found
  <2> QED BY <1>1, <2>2 DEF IInv, ScanOK
<1>5. RefsOK'
  <2>1. \A n \in DOMAIN refs : refs[n] \in Listed
    BY DEF IInv, RefsOK
  <2>2. \A n \in DOMAIN refs : Fits(refs[n])'
    BY <1>1, <1>3, <2>1 DEF IInv, RefsOK, Listed
  <2>3. Listed' = Listed
    BY <1>1 DEF Listed
  <2> QED BY <1>1, <2>2, <2>3 DEF IInv, RefsOK
<1>6. LoadOK'
  <2>1. Listed' = Listed
    BY <1>1 DEF Listed
  <2>2. load.state = "found" => Fits(load.ref)'
    BY <1>1, <1>3 DEF IInv, LoadOK, Found, Listed
  <2> QED BY <1>1, <2>1, <2>2 DEF IInv, LoadOK
<1> QED BY <1>2, <1>4, <1>5, <1>6 DEF IInv

LEMMA TickInv == ASSUME IInv, Tick PROVE IInv'
<1>1. clock \in Nat \ {0} /\ clock' = clock + 1 /\ UNCHANGED <<files, scan, refs, load>>
  BY DEF Tick, IInv
<1>2. 1..clock \subseteq 1..clock'
  BY <1>1
<1>3. FileLine \subseteq FileLine' /\ Listed \subseteq Listed'
  BY <1>2 DEF FileLine, Listed
<1>4. Tails \subseteq Tails' /\ Seq(FileLine) \subseteq Seq(FileLine')
  BY <1>3 DEF Tails
<1>5. FileStates \subseteq FileStates'
  BY <1>4 DEF FileStates
<1>6. FilesOK'
  BY <1>1, <1>5 DEF IInv, FilesOK, GoodFile, NamesFirst, Ended
<1>7. \A ref : Fits(ref)' <=> Fits(ref)
  BY <1>1, FitsStays
<1>8. ScanOK'
  BY <1>1, <1>7 DEF IInv, ScanOK
<1>9. RefsOK'
  <2>1. Seq(Listed) \subseteq Seq(Listed')
    BY <1>3
  <2> QED BY <1>1, <1>7, <2>1 DEF IInv, RefsOK
<1>10. LoadOK'
  BY <1>1, <1>3, <1>7 DEF IInv, LoadOK
<1> QED BY <1>1, <1>6, <1>8, <1>9, <1>10 DEF IInv

LEMMA DiscoverInv == ASSUME IInv, Discover PROVE IInv'
<1>1. /\ UNCHANGED <<files, clock, refs>> /\ load' = [state |-> Idle]
      /\ scan' = [on |-> TRUE, found |-> <<>>, left |-> Dir]
  BY DEF Discover
<1>2. FilesOK' /\ Listed' = Listed /\ \A ref : Fits(ref)' <=> Fits(ref)
  BY <1>1, FitsStays, TypesStay DEF IInv
<1>3. ScanOK'
  <2>1. <<>> \in Seq(Found)
    OBVIOUS
  <2> QED BY <1>1, <2>1 DEF ScanOK, NewestFirst
<1>4. LoadOK'
  BY <1>1 DEF LoadOK, Idle
<1> QED BY <1>1, <1>2, <1>3, <1>4 DEF IInv, RefsOK

LEMMA ScanInv == ASSUME IInv, NEW d \in Dir, ScanDir(d) PROVE IInv'
<1> DEFINE ref == SessionRef(d)
           found == IF There(d) THEN Inserted(scan.found, ref) ELSE scan.found
<1>1. /\ UNCHANGED <<files, clock, refs, load>> /\ d \in scan.left
      /\ scan \in [on : BOOLEAN, found : Seq(Found), left : SUBSET Dir]
      /\ NewestFirst(scan.found)
      /\ \A n \in DOMAIN scan.found : scan.found[n].dir \notin scan.left /\ Fits(scan.found[n])
  BY DEF ScanDir, IInv, ScanOK
<1>2. scan' = [scan EXCEPT !.left = @ \ {d}, !.found = found]
  BY DEF ScanDir
<1>3. FilesOK' /\ Listed' = Listed /\ \A r : Fits(r)' <=> Fits(r)
  BY <1>1, FitsStays, TypesStay DEF IInv
<1>4. There(d) => ref \in Found /\ Fits(ref) /\ ref.dir = d
  BY RefMade DEF IInv
<1> HIDE DEF ref
<1>5. /\ found \in Seq(Found) /\ NewestFirst(found)
      /\ \A n \in DOMAIN found : found[n].dir \notin scan.left \ {d} /\ Fits(found[n])
  <2>1. CASE There(d)
    <3> DEFINE all == Inserted(scan.found, ref)
    <3>1. all \in Seq(Found) /\ NewestFirst(all)
          /\ \A n \in DOMAIN all : all[n] = ref \/ \E m \in DOMAIN scan.found : all[n] = scan.found[m]
      BY <1>1, <1>4, <2>1, InsertedOK
    <3>2. found = all
      BY <2>1
    <3> HIDE DEF found, all
    <3> QED BY <1>1, <1>4, <2>1, <3>1, <3>2
  <2>2. CASE ~There(d)
    BY <1>1, <2>2
  <2> QED BY <2>1, <2>2
<1> HIDE DEF found
<1>6. ScanOK'
  <2>1. scan'.found = found /\ scan'.left = scan.left \ {d} /\ scan'.on = scan.on
    BY <1>1, <1>2
  <2>2. scan' \in [on : BOOLEAN, found : Seq(Found), left : SUBSET Dir]
    BY <1>1, <1>2, <1>5
  <2> QED BY <1>3, <1>5, <2>1, <2>2 DEF ScanOK
<1> QED BY <1>1, <1>3, <1>6 DEF IInv, RefsOK, LoadOK

LEMMA EndWalkOK == ASSUME EndWalk PROVE ScanOK'
<1>1. <<>> \in Seq(Found)
  OBVIOUS
<1> QED BY <1>1 DEF EndWalk, ScanOK, NewestFirst

LEMMA ListInv == ASSUME IInv, ListSessions PROVE IInv'
<1> DEFINE places == {n \in DOMAIN scan.found : Recent(scan.found[n])}
           recent == Picked(scan.found, places)
           listed(r) == [id |-> r.id, dir |-> r.dir, mtime |-> r.mtime, live |-> r.live,
                         named |-> r.named, started |-> FirstTime(r.dir)]
<1>1. UNCHANGED <<files, clock, load>> /\ EndWalk /\ refs' = [n \in DOMAIN recent |-> listed(recent[n])]
  BY DEF ListSessions
<1>2. FilesOK' /\ Listed' = Listed /\ \A ref : Fits(ref)' <=> Fits(ref)
  BY <1>1, FitsStays, TypesStay DEF IInv
<1>3. ScanOK'
  BY <1>1, EndWalkOK
<1>4. scan.found \in Seq(Found) /\ \A n \in DOMAIN scan.found : Fits(scan.found[n])
  BY DEF IInv, ScanOK
<1>5. recent \in Seq({scan.found[n] : n \in places})
  BY <1>4, PickedSeq
<1>6. \A n \in DOMAIN recent : recent[n] \in Found /\ Fits(recent[n])
  <2>1. \A r \in {scan.found[n] : n \in places} : r \in Found /\ Fits(r)
    BY <1>4
  <2> HIDE DEF recent, places
  <2> QED BY <1>5, <2>1
<1> HIDE DEF recent
<1>7. ASSUME NEW r \in Found, Fits(r) PROVE listed(r) \in Listed /\ Fits(listed(r))
  <2>1. r.dir \in Dir /\ FirstTime(r.dir) \in {None} \cup 1..clock
    BY FirstTimeIs DEF Found, IInv
  <2>2. listed(r) \in Listed
    BY <2>1 DEF Listed, Found
  <2>3. /\ listed(r).dir = r.dir /\ listed(r).id = r.id /\ listed(r).named = r.named
        /\ listed(r).started = FirstTime(r.dir)
    OBVIOUS
  <2> HIDE DEF listed
  <2> QED BY <1>7, <2>2, <2>3 DEF Fits
<1>8. RefsOK'
  <2>1. DOMAIN recent = 1..Len(recent) /\ Len(recent) \in Nat
    BY <1>5
  <2>2. \A n \in DOMAIN refs' : refs'[n] \in Listed /\ Fits(refs'[n])
    BY <1>1, <1>6, <1>7
  <2> HIDE DEF listed
  <2>3. refs' \in Seq(Listed)
    BY <1>1, <2>1, <2>2
  <2> QED BY <1>2, <2>2, <2>3 DEF RefsOK
<1>9. LoadOK'
  BY <1>1, <1>2 DEF IInv, LoadOK
<1> QED BY <1>1, <1>2, <1>3, <1>8, <1>9 DEF IInv

(* The first one that has the id.                                          *)
LEMMA FirstNamed ==
  ASSUME NEW found \in Seq(Found), NEW id
  PROVE  LET k == FirstWith(found, id)
         IN  k # 0 => /\ k \in DOMAIN found /\ found[k].id = id
                      /\ \A n \in DOMAIN found : found[n].id = id => k <= n
<1> DEFINE I == {i \in 1..Len(found) : found[i].id = id}
<1>1. CASE I = {}
  BY <1>1 DEF FirstWith, SelectInSeq
<1>2. CASE I # {}
  <2>1. Min(I) \in I /\ \A n \in I : Min(I) <= n
    <3>1. I \subseteq Nat
      OBVIOUS
    <3> QED BY <1>2, <3>1, MinLeast
  <2>2. FirstWith(found, id) = Min(I)
    BY <1>2 DEF FirstWith, SelectInSeq
  <2>3. Min(I) \in DOMAIN found /\ found[Min(I)].id = id
        /\ \A n \in DOMAIN found : found[n].id = id => Min(I) <= n
    BY <2>1
  <2> HIDE DEF I
  <2> QED BY <2>2, <2>3
<1> QED BY <1>1, <1>2

LEMMA FindInv == ASSUME IInv, NEW id, FindSession(id) PROVE IInv'
<1> DEFINE first == FirstWith(scan.found, id)
<1>1. UNCHANGED <<files, clock, refs>> /\ EndWalk
      /\ load' = IF first = 0 THEN [state |-> "done", outcome |-> "NotFound"]
                 ELSE [state |-> "found", ref |-> scan.found[first], asked |-> id]
  BY DEF FindSession
<1>2. FilesOK' /\ Listed' = Listed /\ \A ref : Fits(ref)' <=> Fits(ref)
  BY <1>1, FitsStays, TypesStay DEF IInv
<1>3. ScanOK'
  BY <1>1, EndWalkOK
<1>4. scan.found \in Seq(Found)
  BY DEF IInv, ScanOK
<1>5. first # 0 => first \in DOMAIN scan.found /\ scan.found[first].id = id
  BY <1>4, FirstNamed
<1> HIDE DEF first
<1>6. LoadOK'
  <2>1. CASE first = 0
    BY <1>1, <2>1 DEF LoadOK
  <2>2. CASE first # 0
    <3>1. scan.found[first] \in Found /\ Fits(scan.found[first])
      BY <1>4, <1>5, <2>2 DEF IInv, ScanOK
    <3> QED BY <1>1, <1>2, <1>5, <2>2, <3>1 DEF LoadOK
  <2> QED BY <2>1, <2>2
<1> QED BY <1>1, <1>2, <1>3, <1>6 DEF IInv, RefsOK

LEMMA ReadInv == ASSUME IInv, LoadByRef \/ Parse PROVE IInv'
<1>1. UNCHANGED <<files, clock, scan, refs>>
  BY DEF LoadByRef, Parse
<1>2. FilesOK' /\ Listed' = Listed /\ \A ref : Fits(ref)' <=> Fits(ref)
  BY <1>1, FitsStays, TypesStay DEF IInv
<1>3. LoadOK'
  <2>1. CASE LoadByRef
    <3>1. PICK n \in DOMAIN refs : load' = [state |-> "found", ref |-> refs[n], asked |-> refs[n].id]
      BY <2>1 DEF LoadByRef
    <3>2. refs[n] \in Listed /\ Fits(refs[n])
      BY DEF IInv, RefsOK
    <3> QED BY <1>2, <3>1, <3>2 DEF LoadOK
  <2>2. CASE Parse
    BY <2>2 DEF Parse, LoadOK, Outcome
  <2> QED BY <2>1, <2>2
<1> QED BY <1>1, <1>2, <1>3 DEF IInv, ScanOK, RefsOK

LEMMA StillInv == ASSUME IInv, UNCHANGED vars PROVE IInv'
<1>1. UNCHANGED <<files, clock, scan, refs, load>>
  BY DEF vars
<1>2. FilesOK' /\ Listed' = Listed /\ \A ref : Fits(ref)' <=> Fits(ref)
  BY <1>1, FitsStays, TypesStay DEF IInv
<1> QED BY <1>1, <1>2 DEF IInv, ScanOK, RefsOK, LoadOK

LEMMA StepInv == IInv /\ [Next]_vars => IInv'
<1> SUFFICES ASSUME IInv, [Next]_vars PROVE IInv'
  OBVIOUS
<1> QED BY WriterInv, TickInv, DiscoverInv, ScanInv, ListInv, FindInv, ReadInv, StillInv DEF Next, ReaderStep

LEMMA Invariant == Spec => []IInv
BY InitOK, StepInv, PTL DEF Spec

-----------------------------------------------------------------------------
(* What a load reports.                                                    *)

(* At a load, the ref still fits its file.                                 *)
LEMMA AtLoad ==
  ASSUME IInv, Loading
  PROVE  /\ load.ref.dir \in Dir /\ There(load.ref.dir)
         /\ files[load.ref.dir] \in FileStates /\ NamesFirst(files[load.ref.dir])
         /\ Lines \in Seq(FileLine)
<1>1. load.ref.dir \in Dir
  BY DEF IInv, LoadOK, Loading, Found, Listed
<1>2. There(load.ref.dir)
  BY DEF Loading, Outcome
<1>3. files[load.ref.dir] \in FileStates /\ NamesFirst(files[load.ref.dir])
  BY <1>1 DEF IInv, FilesOK, GoodFile
<1>4. Lines \in Seq(FileLine)
  BY <1>1, LinesSeq DEF IInv, Lines
<1> QED BY <1>1, <1>2, <1>3, <1>4

(* Every line is an event, rejected, unreadable, blank or skipped, and only *)
(* one of these.                                                           *)
LEMMA NoneIsLost == IInv => NothingIsLostSilently
<1> SUFFICES ASSUME IInv, Loading
             PROVE  LET blank  == {n \in DOMAIN Lines : Lines[n].text = "blank"}
                        traced == Len(Raw.events) + Cardinality(Raw.rejected)
                                    + Cardinality(Raw.unread) + Cardinality(blank)
                    IN  \/ traced = Len(Lines)
                        \/ /\ traced = Len(Lines) - 1 /\ load.ref.live
                           /\ Len(Lines) \notin Raw.rejected \cup Raw.unread \cup blank
  BY DEF NothingIsLostSilently
<1> DEFINE lines == Lines
           live == load.ref.live
           blank == {n \in DOMAIN lines : lines[n].text = "blank"}
           skipped == {n \in DOMAIN lines : Skipped(lines, n, live)}
           traced == Parsed(lines) \cup Rejected(lines, live) \cup Unreadable(lines) \cup blank
<1>1. lines \in Seq(FileLine) /\ DOMAIN lines = 1..Len(lines) /\ Len(lines) \in Nat
  <2>1. lines \in Seq(FileLine)
    BY AtLoad
  <2> HIDE DEF lines
  <2> QED BY <2>1
<1>2. Raw.events = EventsOf(lines) /\ Raw.rejected = Rejected(lines, live) /\ Raw.unread = Unreadable(lines)
  BY DEF Raw, RawSession, Lines
<1> HIDE DEF lines, live
<1>3. Len(EventsOf(lines)) = Cardinality(Parsed(lines))
  BY <1>1, EventsSeq
<1>4. /\ Parsed(lines) \subseteq DOMAIN lines /\ Rejected(lines, live) \subseteq DOMAIN lines
      /\ Unreadable(lines) \subseteq DOMAIN lines /\ blank \subseteq DOMAIN lines
  BY DEF Parsed, Rejected, Unreadable
<1>5. /\ Parsed(lines) \cap Rejected(lines, live) = {}
      /\ (Parsed(lines) \cup Rejected(lines, live)) \cap Unreadable(lines) = {}
      /\ (Parsed(lines) \cup Rejected(lines, live) \cup Unreadable(lines)) \cap blank = {}
  BY DEF Parsed, Rejected, Unreadable, Deserializes
<1>6. traced = DOMAIN lines \ skipped
  BY DEF Parsed, Rejected, Unreadable, Skipped, Deserializes, LooksIncomplete
<1>7. /\ IsFiniteSet(DOMAIN lines) /\ Cardinality(DOMAIN lines) = Len(lines)
      /\ \A S \in SUBSET DOMAIN lines : IsFiniteSet(S) /\ Cardinality(S) \in Nat
  <2>1. IsFiniteSet(1..Len(lines)) /\ Cardinality(1..Len(lines)) = Len(lines)
    BY <1>1, FS_Interval
  <2> QED BY <1>1, <2>1, FS_Subset, FS_CardinalityType
<1>8. \A S, T \in SUBSET DOMAIN lines : S \cap T = {} => Cardinality(S \cup T) = Cardinality(S) + Cardinality(T)
  <2> SUFFICES ASSUME NEW S \in SUBSET DOMAIN lines, NEW T \in SUBSET DOMAIN lines, S \cap T = {}
               PROVE  Cardinality(S \cup T) = Cardinality(S) + Cardinality(T)
    OBVIOUS
  <2>1. IsFiniteSet(S) /\ IsFiniteSet(T) /\ Cardinality(S) \in Nat /\ Cardinality(T) \in Nat
    BY <1>7
  <2>2. Cardinality(S \cup T) = Cardinality(S) + Cardinality(T) - Cardinality(S \cap T)
    BY <2>1, FS_Union
  <2>3. Cardinality(S \cap T) = 0
    BY FS_EmptySet
  <2> QED BY <2>1, <2>2, <2>3
<1> DEFINE count == Cardinality(Parsed(lines)) + Cardinality(Rejected(lines, live))
                      + Cardinality(Unreadable(lines)) + Cardinality(blank)
<1>9. Cardinality(traced) = count
  <2> DEFINE P == Parsed(lines)  R == Rejected(lines, live)  U == Unreadable(lines)
  <2>1. Cardinality(P \cup R) = Cardinality(P) + Cardinality(R)
    BY <1>4, <1>5, <1>8
  <2>2. Cardinality(P \cup R \cup U) = Cardinality(P \cup R) + Cardinality(U)
    BY <1>4, <1>5, <1>8
  <2>3. Cardinality(traced) = Cardinality(P \cup R \cup U) + Cardinality(blank)
    BY <1>4, <1>5, <1>8
  <2> QED BY <2>1, <2>2, <2>3
<1>10. CASE skipped = {}
  <2>1. traced = DOMAIN lines
    BY <1>6, <1>10
  <2>2. count = Len(lines)
    BY <1>7, <1>9, <2>1
  <2> QED BY <1>2, <1>3, <2>2 DEF lines, live
<1>11. CASE skipped # {}
  <2>1. skipped = {Len(lines)} /\ live /\ Len(lines) \in DOMAIN lines
    BY <1>1, <1>11 DEF Skipped
  <2>2. Cardinality(DOMAIN lines \ {Len(lines)}) = Cardinality(DOMAIN lines) - 1
    BY <1>7, <2>1, FS_RemoveElement
  <2>3. count = Len(lines) - 1
    BY <1>6, <1>7, <1>9, <2>1, <2>2
  <2>4. Len(lines) \notin Rejected(lines, live) \cup Unreadable(lines) \cup blank
    BY <1>6, <2>1
  <2> QED BY <1>2, <1>3, <2>1, <2>3, <2>4 DEF lines, live
<1> QED BY <1>10, <1>11

LEMMA TornIsSilent == IInv => TornTailIsSilent
<1> SUFFICES ASSUME IInv, Loading, load.ref.live,
                    \A n \in DOMAIN File.lines : WellFormed(File.lines[n]),
                    File.tail = None \/ WellFormed(File.tail.line)
             PROVE  Raw.rejected = {} /\ (Raw.unread # {} => File.tail.cut = "character")
  BY DEF TornTailIsSilent
<1> DEFINE f == files[load.ref.dir]
<1>1. f.lines \in Seq(FileLine) /\ f.tail \in {None} \cup Tails /\ File = f
  BY AtLoad DEF FileStates, File
<1>2. Lines = LinesOf(load.ref.dir) /\ DOMAIN Lines = 1..Len(Lines)
  <2>1. Lines \in Seq(FileLine)
    BY AtLoad
  <2> QED BY <2>1 DEF Lines
<1>3. \A n \in DOMAIN Lines : \/ n \in DOMAIN f.lines /\ Lines[n] = f.lines[n]
                              \/ n = Len(Lines) /\ f.tail # None /\ Lines[n] = Seen(f.tail)
  BY <1>2, AtLoad, TornPlace DEF IInv
<1> HIDE DEF f
<1>4. ASSUME NEW n \in DOMAIN Lines
      PROVE  \/ WellFormed(Lines[n])
             \/ n = Len(Lines) /\ f.tail # None /\ Lines[n] = Seen(f.tail)
  BY <1>1, <1>3
<1>5. f.tail # None => \/ WellFormed(Seen(f.tail))
                       \/ LooksIncomplete(Seen(f.tail))
                       \/ Seen(f.tail).text = "undecodable" /\ f.tail.cut = "character"
  BY <1>1 DEF Tails, Seen, FileLine, LooksIncomplete
<1>6. \A line : WellFormed(line) => line.text # "undecodable" /\ (line.text # "blank" => Deserializes(line))
  BY DEF WellFormed, Deserializes
<1>7. Rejected(Lines, load.ref.live) = {}
  BY <1>4, <1>5, <1>6 DEF Rejected, Skipped
<1>8. Unreadable(Lines) # {} => f.tail.cut = "character"
  BY <1>4, <1>5, <1>6 DEF Unreadable, LooksIncomplete
<1> QED BY <1>1, <1>7, <1>8 DEF Raw, RawSession, Lines

(* A session.start that is read is the first line, and there is one.       *)
LEMMA StartIsFirst ==
  ASSUME IInv, Loading, files[load.ref.dir].lines # <<>>
  PROVE  /\ Lines # <<>> /\ LastStart(Lines) \in {0, 1}
         /\ LastStart(Lines) = 1 => Lines[1].text = "event" /\ Lines[1].session # None
<1> DEFINE f == files[load.ref.dir]
<1>1. f.lines \in Seq(FileLine) /\ f.tail \in {None} \cup Tails /\ NamesFirst(f) /\ f.lines # <<>>
  BY AtLoad DEF FileStates
<1>2. Lines = f.lines \o (IF f.tail = None THEN <<>> ELSE <<Seen(f.tail)>>)
      /\ Lines \in Seq(FileLine)
  BY AtLoad DEF Lines, LinesOf
<1>3. Lines # <<>> /\ Lines[1] = f.lines[1]
  BY <1>1, <1>2, FirstLine
<1>4. \A n \in 1..Len(Lines) : \/ n \in DOMAIN f.lines /\ Lines[n] = f.lines[n]
                               \/ f.tail # None /\ Lines[n] = Seen(f.tail)
  BY AtLoad, TornPlace DEF IInv, Lines
<1>5. f.tail # None => f.tail.line.type # "SessionStart"
  BY <1>1 DEF NamesFirst
<1>6. f.tail # None => Seen(f.tail).type # "SessionStart"
  BY <1>1, <1>5 DEF Seen, Tails, FileLine
<1>7. ASSUME NEW n \in 1..Len(Lines), Lines[n].type = "SessionStart" PROVE n = 1
  BY <1>1, <1>4, <1>6, <1>7 DEF NamesFirst
<1>8. 1 \in DOMAIN f.lines
  BY <1>1
<1> DEFINE I == {n \in 1..Len(Lines) : Deserializes(Lines[n]) /\ Lines[n].type = "SessionStart"}
<1>9. LastStart(Lines) = IF I # {} THEN Max(I) ELSE 0
  BY DEF LastStart, SelectLastInSeq
<1>10. CASE I = {}
  BY <1>3, <1>9, <1>10
<1>11. CASE I # {}
  <2>1. I = {1}
    BY <1>7, <1>11
  <2>2. Max(I) = 1
    BY <2>1 DEF Max
  <2>3. Lines[1].text = "event" /\ Lines[1].type = "SessionStart"
    BY <2>1 DEF Deserializes
  <2>4. Lines[1].session # None
    BY <1>1, <1>3, <1>8, <2>3 DEF NamesFirst
  <2> HIDE DEF I
  <2> QED BY <1>3, <1>9, <1>11, <2>2, <2>3, <2>4
<1> QED BY <1>10, <1>11

LEMMA AskedIsLoaded == IInv => LoadedIsWhatWasAsked
<1> SUFFICES ASSUME IInv, Loading, load.ref.named
             PROVE  /\ Raw.meta.id = load.asked
                    /\ "started" \in DOMAIN load.ref => Raw.meta.started = load.ref.started
  BY DEF LoadedIsWhatWasAsked
<1> DEFINE d == load.ref.dir
<1>1. /\ files[d].lines # <<>> /\ load.ref.id = SessionRef(d).id /\ load.asked = load.ref.id
      /\ "started" \in DOMAIN load.ref => load.ref.started = FirstTime(d)
  BY AtLoad DEF IInv, LoadOK, Loading, Fits
<1>2. Raw.meta = Meta(Lines, load.ref.live) /\ Raw.meta # None
  BY DEF Raw, RawSession, Lines, Loading, Outcome
<1>3. /\ Lines # <<>> /\ Lines[1].text = "event" /\ Lines[1].session # None
      /\ Meta(Lines, load.ref.live) = [id |-> Lines[1].session, started |-> Lines[1].at,
                                       live |-> load.ref.live]
  BY <1>1, <1>2, StartIsFirst DEF Meta
<1>4. SessionRef(d).id = Lines[1].session /\ FirstTime(d) = Lines[1].at
  BY <1>3 DEF SessionRef, FirstSession, FirstTime, Lines
<1> QED BY <1>1, <1>2, <1>3, <1>4

LEMMA Typed == IInv => TypeOK
<1> SUFFICES ASSUME IInv PROVE TypeOK
  OBVIOUS
<1>1. \A n \in DOMAIN scan.found : scan.found[n].dir \in Dir \ scan.left
  <2>1. \A n \in DOMAIN scan.found : scan.found[n] \in Found
    BY DEF IInv, ScanOK
  <2> QED BY <2>1 DEF IInv, ScanOK, Found
<1>2. \A n \in DOMAIN refs : refs[n].started \in {None} \cup 1..clock
  <2>1. \A n \in DOMAIN refs : refs[n] \in Listed
    BY DEF IInv, RefsOK
  <2> QED BY <2>1 DEF Listed
<1> QED BY <1>1, <1>2 DEF IInv, ScanOK, LoadOK, FilesOK, GoodFile, Ended, TypeOK

(* NothingIsLost: whatever the writer does between discovery and the load,  *)
(* the load gives the session that was asked for, each ended line of it is *)
(* an event, a blank or a warning, and the line being written costs none.  *)
THEOREM LoadLosesNothing == Spec => []NothingIsLost
<1>1. IInv => NothingIsLost
  BY Typed, TornIsSilent, NoneIsLost, AskedIsLoaded DEF NothingIsLost
<1> QED BY <1>1, Invariant, PTL

-----------------------------------------------------------------------------
(* What two loads have in common.                                          *)

LEMMA StepReloads ==
  IInv /\ [Next]_vars =>
    \A d \in Dir : There(d) /\ There(d)' => IsPrefix(EventsOf(files[d].lines), EventsOf(files'[d].lines))
<1> SUFFICES ASSUME IInv, [Next]_vars, NEW d \in Dir, There(d), There(d)'
             PROVE  IsPrefix(EventsOf(files[d].lines), EventsOf(files'[d].lines))
  OBVIOUS
<1>1. files[d].lines \in Seq(FileLine)
  BY DEF IInv, FilesOK, FileStates
<1>2. CASE files' = files
  BY <1>1, <1>2, EventsSame
<1>3. CASE \E e \in Dir : WriterStep(e)
  <2>1. Change
    BY <1>3, WriterChanges DEF IInv
  <2> QED BY <1>1, <2>1, EventsGrow, EventsSame, ChangeIsLater DEF Later, Gone, There, IInv
<1>4. files' = files \/ \E e \in Dir : WriterStep(e)
  BY DEF Next, Tick, ReaderStep, Discover, ScanDir, ListSessions, FindSession, LoadByRef, Parse, vars
<1> QED BY <1>2, <1>3, <1>4

LEMMA NewestIsFound ==
  ASSUME IInv, NEW id \in Session, FindSession(id), load'.state = "found"
  PROVE  \A n \in DOMAIN scan.found : scan.found[n].id = id => scan.found[n].mtime <= load'.ref.mtime
<1> DEFINE k == FirstWith(scan.found, id)
<1>1. k # 0 /\ load'.ref = scan.found[k]
  BY DEF FindSession
<1>2. scan.found \in Seq(Found) /\ NewestFirst(scan.found)
  BY DEF IInv, ScanOK
<1>3. k \in DOMAIN scan.found /\ \A n \in DOMAIN scan.found : scan.found[n].id = id => k <= n
  BY <1>1, <1>2, FirstNamed
<1>4. \A n \in DOMAIN scan.found : scan.found[n].mtime \in Nat
  BY <1>2, FoundTimes
<1> HIDE DEF k
<1> SUFFICES ASSUME NEW n \in DOMAIN scan.found, scan.found[n].id = id
             PROVE  scan.found[n].mtime <= scan.found[k].mtime
  BY <1>1
<1>5. k = n \/ k < n
  BY <1>2, <1>3
<1> QED BY <1>3, <1>4, <1>5, <1>2 DEF NewestFirst

(* ReloadsAgree: while its directory is there the events of a session only *)
(* grow, and of the directories that hold a session the one written last,  *)
(* as discovery saw them, is the one that is read.                         *)
THEOREM LoadsAgree == Spec => ReloadsAgree
<1>1. IInv /\ [Next]_vars =>
        [\A d \in Dir : There(d) /\ There(d)'
           => IsPrefix(EventsOf(files[d].lines), EventsOf(files'[d].lines))]_vars
  BY StepReloads
<1>2. IInv /\ [Next]_vars =>
        [\A id \in Session : FindSession(id) /\ load'.state = "found"
           => \A n \in DOMAIN scan.found :
                scan.found[n].id = id => scan.found[n].mtime <= load'.ref.mtime]_vars
  BY NewestIsFound
<1>3. Spec => ReloadKeeps
  BY <1>1, Invariant, PTL DEF Spec, ReloadKeeps
<1>4. Spec => NewestCopyIsRead
  BY <1>2, Invariant, PTL DEF Spec, NewestCopyIsRead
<1> QED BY <1>3, <1>4 DEF ReloadsAgree
=============================================================================
