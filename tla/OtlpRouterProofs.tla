-------------------------- MODULE OtlpRouterProofs --------------------------
(***************************************************************************)
(* Proofs about the session router for any number of sessions, events and  *)
(* workers, any caps and a sink that may fail.                             *)
(***************************************************************************)
EXTENDS RouterRest, FiniteSetTheorems, SequenceTheorems, WellFoundedInduction, TLAPS

(* A non-empty set of numbers has a minimum, so Min chooses a member.      *)
LEMMA MinIsMember ==
  ASSUME NEW I, I \subseteq Nat, I # {}
  PROVE  Min(I) \in I
<1> DEFINE Less == {ss \in Nat \X Nat : ss[1] < ss[2]}
<1>1. IsWellFoundedOn(Less, Nat)
  BY NatLessThanWellFounded DEF OpToRel
<1>2. PICK m \in I : \A y \in I : <<y, m>> \notin Less
  <2> HIDE DEF Less
  <2> QED BY <1>1, WFMin
<1>3. ASSUME NEW y \in I PROVE m =< y
  <2>1. <<y, m>> \in Nat \X Nat /\ <<y, m>>[1] = y /\ <<y, m>>[2] = m
    OBVIOUS
  <2> QED BY <1>2, <2>1
<1> QED BY <1>3 DEF Min

(* Taking an element out of a sequence leaves a sequence.                  *)
LEMMA RemoveFirstType ==
  ASSUME NEW S, NEW q \in Seq(S), NEW x
  PROVE  RemoveFirst(q, x) \in Seq(S)
<1>1. CASE ~\E i \in 1..Len(q) : q[i] = x
  BY <1>1 DEF RemoveFirst
<1>2. CASE \E i \in 1..Len(q) : q[i] = x
  <2> DEFINE I == {i \in 1..Len(q) : q[i] = x}
             k == Min(I)
  <2>1. k \in 1..Len(q)
    <3>1. I \subseteq 1..Len(q) /\ I # {}
      BY <1>2
    <3>2. I \subseteq Nat
      OBVIOUS
    <3> HIDE DEF I
    <3>3. Min(I) \in I
      BY <3>1, <3>2, MinIsMember
    <3> QED BY <3>1, <3>3
  <2>2. SubSeq(q, 1, k - 1) \o SubSeq(q, k + 1, Len(q)) \in Seq(S)
    <3> HIDE DEF k
    <3>1. SubSeq(q, 1, k - 1) \in Seq(S)
      BY <2>1, SubSeqProperties
    <3>2. SubSeq(q, k + 1, Len(q)) \in Seq(S)
      BY <2>1, SubSeqProperties
    <3> QED BY <3>1, <3>2
  <2> QED BY <1>2, <2>2 DEF RemoveFirst, RemoveAt, SelectInSeq
<1> QED BY <1>1, <1>2

-----------------------------------------------------------------------------
(* The values the router computes have the right type.                     *)
LEMMA BufferTypes ==
  /\ Closed \in Buffer
  /\ Fresh \in Buffer
  /\ \A b \in Buffer : \A e \in Event : Pushed(b, e) \in Buffer
  /\ \A b \in Buffer : b.age <= IdleTimeout => [b EXCEPT !.age = @ + 1] \in Buffer
<1>1. 0 \in 0..(IdleTimeout + 1)
  BY ConstantsAssumption
<1>2. Closed \in Buffer
  BY <1>1 DEF Buffer, Closed
<1>3. Fresh \in Buffer
  BY <1>1 DEF Buffer, Closed, Fresh
<1>4. ASSUME NEW b \in Buffer, NEW e \in Event PROVE Pushed(b, e) \in Buffer
  <2>1. b.bytes + Bytes[e] \in Nat /\ b.events \cup {e} \in SUBSET Event
    BY ConstantsAssumption DEF Buffer
  <2> QED BY <1>1, <2>1 DEF Buffer, Pushed
<1>5. ASSUME NEW b \in Buffer, b.age <= IdleTimeout
      PROVE  [b EXCEPT !.age = @ + 1] \in Buffer
  <2>1. b.age + 1 \in 0..(IdleTimeout + 1)
    BY <1>5, ConstantsAssumption DEF Buffer
  <2> QED BY <2>1 DEF Buffer
<1> QED BY <1>2, <1>3, <1>4, <1>5

LEMMA TriggerType ==
  ASSUME NEW b, NEW e
  PROVE  Trigger(b, e) \in {"ExplicitEnd", "OomBytes", "OomEvents", "none"}
BY DEF Trigger

Inv == TypeOK /\ Control

(* Types and control points hold initially and are kept by every action.   *)
LEMMA InvInit == Init => Inv
BY ConstantsAssumption, BufferTypes
   DEF Init, Inv, TypeOK, Control, Steps, Carries, ClosesVictim, Closes, Holds, Thread, Job, NoJob, WorkerStep, SweeperStep, CloseStep, Closed

(* Types and control points are kept by every action.                      *)
LEMMA InvStep == Inv /\ [Next]_vars => Inv'
<1> SUFFICES ASSUME Inv, [Next]_vars PROVE Inv'
  OBVIOUS
<1> USE ConstantsAssumption DEF Inv, Control, Thread
<1>1. ASSUME NEW w \in Worker, NEW e \in Event, DropEvent(w, e) PROVE Inv'
  <2>1. TypeOK'
    BY <1>1 DEF DropEvent, TypeOK, Goto, WorkerStep
  <2>2. Steps'
    BY <1>1 DEF DropEvent, TypeOK, Steps, Carries, Goto, CloseStep, WorkerStep, SweeperStep
  <2>3. Carries'
    BY <1>1 DEF DropEvent, TypeOK, Steps, Carries, ClosesVictim, Goto, Job, NoJob, CloseStep, WorkerStep
  <2>4. Closes'
    BY <1>1 DEF DropEvent, TypeOK, Steps, Carries, Closes, Goto, Job, CloseStep, WorkerStep, SweeperStep
  <2>5. Holds'
    BY <1>1 DEF DropEvent, TypeOK, Steps, Holds, Goto, Fresh, Closed, Pushed, Buffer, CloseStep
  <2> QED BY <2>1, <2>2, <2>3, <2>4, <2>5
<1>2. ASSUME NEW w \in Worker, NEW e \in Event, TakeEvent(w, e) PROVE Inv'
  <2>1. TypeOK'
    BY <1>2 DEF TakeEvent, TypeOK, Goto, WorkerStep
  <2>2. Steps'
    BY <1>2 DEF TakeEvent, TypeOK, Steps, Carries, Goto, CloseStep, WorkerStep, SweeperStep
  <2>3. Carries'
    BY <1>2 DEF TakeEvent, TypeOK, Steps, Carries, ClosesVictim, Goto, Job, NoJob, CloseStep, WorkerStep
  <2>4. Closes'
    BY <1>2 DEF TakeEvent, TypeOK, Steps, Carries, Closes, Goto, Job, CloseStep, WorkerStep, SweeperStep
  <2>5. Holds'
    BY <1>2 DEF TakeEvent, TypeOK, Steps, Holds, Goto, Fresh, Closed, Pushed, Buffer, CloseStep
  <2> QED BY <2>1, <2>2, <2>3, <2>4, <2>5
<1>3. ASSUME NEW w \in Worker, Admit(w) PROVE Inv'
  <2>1. TypeOK'
    <3>1. buffers' \in [Session -> Buffer]
      BY <1>3, BufferTypes DEF Admit, TypeOK
    <3>2. pc' \in [Thread -> WorkerStep \cup SweeperStep]
      BY <1>3 DEF Admit, TypeOK, Goto, WorkerStep
    <3> QED BY <1>3, <3>1, <3>2 DEF Admit, TypeOK
  <2>2. Steps'
    BY <1>3 DEF Admit, TypeOK, Steps, Carries, Goto, CloseStep, WorkerStep, SweeperStep
  <2>3. Carries'
    BY <1>3 DEF Admit, TypeOK, Steps, Carries, ClosesVictim, Goto, Job, NoJob, CloseStep, WorkerStep
  <2>4. Closes'
    BY <1>3 DEF Admit, TypeOK, Steps, Carries, Closes, Goto, Job, CloseStep, WorkerStep, SweeperStep
  <2>5. Holds'
    <3>1. \A s \in Session : ~buffers'[s].open => buffers'[s].events = {}
      <4>1. Fresh.open
        BY DEF Fresh, Closed
      <4> QED BY <1>3, <4>1 DEF Admit, TypeOK, Holds
    <3>2. \A t \in Thread : held[t] # {} => pc'[t] \in {"unlist", "flush"}
      BY <1>3 DEF Admit, TypeOK, Holds, Goto
    <3> QED BY <1>3, <3>1, <3>2 DEF Admit, Holds
  <2> QED BY <2>1, <2>2, <2>3, <2>4, <2>5
<1>4. ASSUME NEW w \in Worker, CheckCap(w) PROVE Inv'
  <2>1. TypeOK'
    BY <1>4 DEF CheckCap, TypeOK, Goto, WorkerStep
  <2>2. Steps'
    BY <1>4 DEF CheckCap, TypeOK, Steps, Carries, Goto, CloseStep, WorkerStep, SweeperStep
  <2>3. Carries'
    BY <1>4 DEF CheckCap, TypeOK, Steps, Carries, ClosesVictim, Goto, Job, NoJob, CloseStep, WorkerStep
  <2>4. Closes'
    BY <1>4 DEF CheckCap, TypeOK, Steps, Carries, Closes, Goto, Job, CloseStep, WorkerStep, SweeperStep
  <2>5. Holds'
    BY <1>4 DEF CheckCap, TypeOK, Steps, Holds, Goto, Fresh, Closed, Pushed, Buffer, CloseStep
  <2> QED BY <2>1, <2>2, <2>3, <2>4, <2>5
<1>5. ASSUME NEW w \in Worker, PopVictim(w) PROVE Inv'
  <2>1. TypeOK'
    <3>1. lru' \in Seq(Session)
      <4>1. lru # <<>> => Tail(lru) \in Seq(Session)
        BY HeadTailProperties DEF TypeOK
      <4> QED BY <1>5, <4>1 DEF PopVictim, TypeOK
    <3>2. job' \in [Thread -> Job]
      <4>1. lru # <<>> => [sid |-> Head(lru), reason |-> "CapacityEvict"] \in Job
        BY DEF TypeOK, Job, CloseReason
      <4> QED BY <1>5, <4>1 DEF PopVictim, TypeOK
    <3>3. pc' \in [Thread -> WorkerStep \cup SweeperStep]
      BY <1>5 DEF PopVictim, TypeOK, Goto, WorkerStep, CloseStep
    <3> QED BY <1>5, <3>1, <3>2, <3>3 DEF PopVictim, TypeOK
  <2>2. Steps'
    BY <1>5 DEF PopVictim, TypeOK, Steps, Carries, Goto, CloseStep, WorkerStep, SweeperStep
  <2>3. Carries'
    <3>1. CASE lru = <<>>
      BY <1>5, <3>1 DEF PopVictim, TypeOK, Carries, ClosesVictim, Goto, CloseStep
    <3>2. CASE lru # <<>>
      <4>1. job' = [job EXCEPT ![w] = [sid |-> Head(lru), reason |-> "CapacityEvict"]]
        BY <1>5, <3>2 DEF PopVictim
      <4>2. job'[w].reason = "CapacityEvict" /\ \A v \in Worker \ {w} : job'[v] = job[v]
        BY <4>1 DEF TypeOK
      <4>3. pc' = [pc EXCEPT ![w] = "remove"] /\ ev' = ev
        BY <1>5, <3>2 DEF PopVictim, Goto
      <4> QED BY <1>5, <4>2, <4>3 DEF PopVictim, TypeOK, Carries, ClosesVictim, CloseStep
    <3> QED BY <3>1, <3>2
  <2>4. Closes'
    BY <1>5 DEF PopVictim, TypeOK, Steps, Carries, Closes, Goto, Job, CloseStep, WorkerStep, SweeperStep
  <2>5. Holds'
    BY <1>5 DEF PopVictim, TypeOK, Steps, Holds, Goto, Fresh, Closed, Pushed, Buffer, CloseStep
  <2> QED BY <2>1, <2>2, <2>3, <2>4, <2>5
<1>6. ASSUME NEW w \in Worker, Push(w) PROVE Inv'
  <2>1. TypeOK'
    <3>1. ev[w] \in Event /\ SessionOf[ev[w]] \in Session
      BY <1>6 DEF Push, TypeOK, Carries
    <3>2. Pushed(buffers[SessionOf[ev[w]]], ev[w]) \in Buffer
      BY <3>1, BufferTypes DEF TypeOK
    <3>3. buffers' \in [Session -> Buffer]
      BY <1>6, <3>2 DEF Push, TypeOK
    <3>4. job' \in [Thread -> Job]
      BY <1>6, <3>1, TriggerType DEF Push, TypeOK, Job, CloseReason
    <3>5. pc' \in [Thread -> WorkerStep \cup SweeperStep]
      BY <1>6 DEF Push, TypeOK, Goto, WorkerStep
    <3> QED BY <1>6, <3>3, <3>4, <3>5 DEF Push, TypeOK
  <2>2. Steps'
    BY <1>6 DEF Push, TypeOK, Steps, Carries, Goto, CloseStep, WorkerStep, SweeperStep
  <2>3. Carries'
    BY <1>6, TriggerType DEF Push, TypeOK, Steps, Carries, ClosesVictim, Goto, Job, NoJob, CloseStep, WorkerStep
  <2>4. Closes'
    BY <1>6 DEF Push, TypeOK, Steps, Carries, Closes, Goto, Job, CloseStep, WorkerStep, SweeperStep
  <2>5. Holds'
    BY <1>6 DEF Push, TypeOK, Steps, Holds, Goto, Fresh, Closed, Pushed, Buffer, CloseStep
  <2> QED BY <2>1, <2>2, <2>3, <2>4, <2>5
<1>7. ASSUME NEW w \in Worker, TouchLru(w) PROVE Inv'
  <2>1. TypeOK'
    <3>1. lru' \in Seq(Session)
      <4>1. job[w].sid \in Session
        BY <1>7 DEF TouchLru, Closes
      <4> QED BY <1>7, <4>1, RemoveFirstType DEF TouchLru, TypeOK, TouchedIn
    <3>2. job' \in [Thread -> Job]
      BY <1>7 DEF TouchLru, TypeOK, Job, NoJob
    <3>3. pc' \in [Thread -> WorkerStep \cup SweeperStep]
      BY <1>7 DEF TouchLru, TypeOK, Goto, WorkerStep, CloseStep
    <3> QED BY <1>7, <3>1, <3>2, <3>3 DEF TouchLru, TypeOK
  <2>2. Steps'
    BY <1>7 DEF TouchLru, TypeOK, Steps, Carries, Goto, CloseStep, WorkerStep, SweeperStep
  <2>3. Carries'
    BY <1>7 DEF TouchLru, TypeOK, Steps, Carries, ClosesVictim, Goto, Job, NoJob, CloseStep, WorkerStep
  <2>4. Closes'
    BY <1>7 DEF TouchLru, TypeOK, Steps, Carries, Closes, Goto, Job, CloseStep, WorkerStep, SweeperStep
  <2>5. Holds'
    BY <1>7 DEF TouchLru, TypeOK, Steps, Holds, Goto, Fresh, Closed, Pushed, Buffer, CloseStep
  <2> QED BY <2>1, <2>2, <2>3, <2>4, <2>5
<1>8. ASSUME NEW t \in Thread, RemoveBuffer(t) PROVE Inv'
  <2>1. TypeOK'
    <3>1. job[t].sid \in Session
      BY <1>8 DEF RemoveBuffer, Closes, CloseStep
    <3>2. buffers' \in [Session -> Buffer]
      BY <1>8, <3>1, BufferTypes DEF RemoveBuffer, TypeOK
    <3>3. held' \in [Thread -> SUBSET Event]
      BY <1>8, <3>1 DEF RemoveBuffer, TypeOK, Buffer
    <3>4. pc' \in [Thread -> WorkerStep \cup SweeperStep]
      BY <1>8 DEF RemoveBuffer, TypeOK, Goto, WorkerStep, CloseStep
    <3> QED BY <1>8, <3>2, <3>3, <3>4 DEF RemoveBuffer, TypeOK
  <2>2. Steps'
    BY <1>8 DEF RemoveBuffer, TypeOK, Steps, Carries, Goto, CloseStep, WorkerStep, SweeperStep
  <2>3. Carries'
    BY <1>8 DEF RemoveBuffer, TypeOK, Steps, Carries, ClosesVictim, Goto, Job, NoJob, CloseStep, WorkerStep
  <2>4. Closes'
    BY <1>8 DEF RemoveBuffer, TypeOK, Steps, Carries, Closes, Goto, Job, CloseStep, WorkerStep, SweeperStep
  <2>5. Holds'
    <3>1. \A s \in Session : ~buffers'[s].open => buffers'[s].events = {}
      BY <1>8 DEF RemoveBuffer, TypeOK, Holds, Closed
    <3>2. held[t] = {}
      BY <1>8 DEF RemoveBuffer, Holds
    <3>3. \A u \in Thread : held'[u] # {} => pc'[u] \in {"unlist", "flush"}
      BY <1>8, <3>2 DEF RemoveBuffer, TypeOK, Holds, Goto
    <3> QED BY <3>1, <3>3 DEF Holds
  <2> QED BY <2>1, <2>2, <2>3, <2>4, <2>5
<1>9. ASSUME NEW t \in Thread, Unlist(t) PROVE Inv'
  <2>1. TypeOK'
    <3>1. lru' \in Seq(Session)
      BY <1>9, RemoveFirstType DEF Unlist, TypeOK, EvictedFrom
    <3>2. job' \in [Thread -> Job]
      <4>1. JobAfterClose(t) \in Job
        BY DEF TypeOK, Job, NoJob, JobAfterClose
      <4> QED BY <1>9, <4>1 DEF Unlist, TypeOK
    <3>3. pc' \in [Thread -> WorkerStep \cup SweeperStep]
      BY <1>9 DEF Unlist, TypeOK, Goto, AfterClose, WorkerStep, SweeperStep, CloseStep
    <3> QED BY <1>9, <3>1, <3>2, <3>3 DEF Unlist, TypeOK
  <2>2. Steps'
    BY <1>9 DEF Unlist, TypeOK, Steps, Carries, Goto, CloseStep, WorkerStep, SweeperStep, AfterClose, JobAfterClose
  <2>3. Carries'
    BY <1>9 DEF Unlist, TypeOK, Steps, Carries, ClosesVictim, Goto, Job, NoJob, CloseStep, WorkerStep, AfterClose, JobAfterClose
  <2>4. Closes'
    BY <1>9 DEF Unlist, TypeOK, Steps, Carries, Closes, Goto, Job, CloseStep, WorkerStep, SweeperStep, AfterClose, JobAfterClose
  <2>5. Holds'
    BY <1>9 DEF Unlist, TypeOK, Steps, Holds, Goto, Fresh, Closed, Pushed, Buffer, CloseStep, AfterClose, JobAfterClose
  <2> QED BY <2>1, <2>2, <2>3, <2>4, <2>5
<1>10. ASSUME NEW t \in Thread, Flush(t) PROVE Inv'
  <2>1. TypeOK'
    <3>1. held' \in [Thread -> SUBSET Event] /\ row' \in [Session -> SUBSET Event]
      BY <1>10 DEF Flush, TypeOK
    <3>2. persisted' \subseteq Event /\ failed' \subseteq Event
      BY <1>10 DEF Flush, TypeOK
    <3>3. job' \in [Thread -> Job]
      <4>1. job \in [Thread -> Job] /\ job[t] \in Job
        BY DEF TypeOK
      <4>2. JobAfterClose(t) \in Job
        BY <4>1 DEF JobAfterClose, Job, NoJob
      <4>3. job' = [job EXCEPT ![t] = JobAfterClose(t)]
        BY <1>10 DEF Flush
      <4> QED BY <4>1, <4>2, <4>3
    <3>4. pc' \in [Thread -> WorkerStep \cup SweeperStep]
      BY <1>10 DEF Flush, TypeOK, Goto, AfterClose, WorkerStep, SweeperStep
    <3> QED BY <1>10, <3>1, <3>2, <3>3, <3>4 DEF Flush, TypeOK
  <2>2. Steps'
    BY <1>10 DEF Flush, TypeOK, Steps, Carries, Goto, CloseStep, WorkerStep, SweeperStep, AfterClose, JobAfterClose
  <2>3. Carries'
    BY <1>10 DEF Flush, TypeOK, Steps, Carries, ClosesVictim, Goto, Job, NoJob, CloseStep, WorkerStep, AfterClose, JobAfterClose
  <2>4. Closes'
    BY <1>10 DEF Flush, TypeOK, Steps, Carries, Closes, Goto, Job, CloseStep, WorkerStep, SweeperStep, AfterClose, JobAfterClose
  <2>5. Holds'
    BY <1>10 DEF Flush, TypeOK, Steps, Holds, Goto, Fresh, Closed, Pushed, Buffer, CloseStep, AfterClose, JobAfterClose
  <2> QED BY <2>1, <2>2, <2>3, <2>4, <2>5
<1>11. CASE SweepBegin
  <2>1. TypeOK'
    BY <1>11 DEF SweepBegin, TypeOK, Goto, Job, NoJob, CloseReason, SweeperStep
  <2>2. Steps'
    BY <1>11 DEF SweepBegin, TypeOK, Steps, Carries, Goto, CloseStep, WorkerStep, SweeperStep
  <2>3. Carries'
    BY <1>11 DEF SweepBegin, TypeOK, Steps, Carries, ClosesVictim, Goto, Job, NoJob, CloseStep, WorkerStep
  <2>4. Closes'
    BY <1>11 DEF SweepBegin, TypeOK, Steps, Carries, Closes, Goto, Job, CloseStep, WorkerStep, SweeperStep
  <2>5. Holds'
    BY <1>11 DEF SweepBegin, TypeOK, Steps, Holds, Goto, Fresh, Closed, Pushed, Buffer, CloseStep
  <2> QED BY <2>1, <2>2, <2>3, <2>4, <2>5
<1>12. CASE SweepCollect
  <2>1. TypeOK'
    BY <1>12 DEF SweepCollect, TypeOK, Goto, Job, NoJob, CloseReason, SweeperStep
  <2>2. Steps'
    BY <1>12 DEF SweepCollect, TypeOK, Steps, Carries, Goto, CloseStep, WorkerStep, SweeperStep
  <2>3. Carries'
    BY <1>12 DEF SweepCollect, TypeOK, Steps, Carries, ClosesVictim, Goto, Job, NoJob, CloseStep, WorkerStep
  <2>4. Closes'
    BY <1>12 DEF SweepCollect, TypeOK, Steps, Carries, Closes, Goto, Job, CloseStep, WorkerStep, SweeperStep
  <2>5. Holds'
    BY <1>12 DEF SweepCollect, TypeOK, Steps, Holds, Goto, Fresh, Closed, Pushed, Buffer, CloseStep
  <2> QED BY <2>1, <2>2, <2>3, <2>4, <2>5
<1>13. CASE SweepEnd
  <2>1. TypeOK'
    BY <1>13 DEF SweepEnd, TypeOK, Goto, Job, NoJob, CloseReason, SweeperStep
  <2>2. Steps'
    BY <1>13 DEF SweepEnd, TypeOK, Steps, Carries, Goto, CloseStep, WorkerStep, SweeperStep
  <2>3. Carries'
    BY <1>13 DEF SweepEnd, TypeOK, Steps, Carries, ClosesVictim, Goto, Job, NoJob, CloseStep, WorkerStep
  <2>4. Closes'
    BY <1>13 DEF SweepEnd, TypeOK, Steps, Carries, Closes, Goto, Job, CloseStep, WorkerStep, SweeperStep
  <2>5. Holds'
    BY <1>13 DEF SweepEnd, TypeOK, Steps, Holds, Goto, Fresh, Closed, Pushed, Buffer, CloseStep
  <2> QED BY <2>1, <2>2, <2>3, <2>4, <2>5
<1>14. ASSUME NEW s \in Session, CloseNext(s) PROVE Inv'
  <2>1. TypeOK'
    <3>1. job' \in [Thread -> Job]
      <4>1. job \in [Thread -> Job]
        BY DEF TypeOK
      <4>2. [job[Sweeper] EXCEPT !.sid = s] \in Job
        BY <4>1 DEF Job, Thread
      <4>3. job' = [job EXCEPT ![Sweeper] = [job[Sweeper] EXCEPT !.sid = s]]
        BY <1>14 DEF CloseNext
      <4> QED BY <4>1, <4>2, <4>3
    <3>2. pc' \in [Thread -> WorkerStep \cup SweeperStep]
      BY <1>14 DEF CloseNext, TypeOK, Goto, SweeperStep, CloseStep
    <3> QED BY <1>14, <3>1, <3>2 DEF CloseNext, TypeOK
  <2>2. Steps'
    BY <1>14 DEF CloseNext, TypeOK, Steps, Carries, Goto, CloseStep, WorkerStep, SweeperStep
  <2>3. Carries'
    BY <1>14 DEF CloseNext, TypeOK, Steps, Carries, ClosesVictim, Goto, Job, NoJob, CloseStep, WorkerStep
  <2>4. Closes'
    BY <1>14 DEF CloseNext, TypeOK, Steps, Carries, Closes, Goto, Job, CloseStep, WorkerStep, SweeperStep
  <2>5. Holds'
    BY <1>14 DEF CloseNext, TypeOK, Steps, Holds, Goto, Fresh, Closed, Pushed, Buffer, CloseStep
  <2> QED BY <2>1, <2>2, <2>3, <2>4, <2>5
<1>15. CASE FlushAllBegin
  <2>1. TypeOK'
    BY <1>15 DEF FlushAllBegin, TypeOK, Goto, Job, NoJob, CloseReason, SweeperStep, OpenSessions
  <2>2. Steps'
    BY <1>15 DEF FlushAllBegin, TypeOK, Steps, Carries, Goto, CloseStep, WorkerStep, SweeperStep
  <2>3. Carries'
    BY <1>15 DEF FlushAllBegin, TypeOK, Steps, Carries, ClosesVictim, Goto, Job, NoJob, CloseStep, WorkerStep
  <2>4. Closes'
    BY <1>15 DEF FlushAllBegin, TypeOK, Steps, Carries, Closes, Goto, Job, CloseStep, WorkerStep, SweeperStep
  <2>5. Holds'
    BY <1>15 DEF FlushAllBegin, TypeOK, Steps, Holds, Goto, Fresh, Closed, Pushed, Buffer, CloseStep
  <2> QED BY <2>1, <2>2, <2>3, <2>4, <2>5
<1>16. CASE FlushAllEnd
  <2>1. TypeOK'
    BY <1>16 DEF FlushAllEnd, TypeOK, Goto, Job, NoJob, CloseReason, SweeperStep
  <2>2. Steps'
    BY <1>16 DEF FlushAllEnd, TypeOK, Steps, Carries, Goto, CloseStep, WorkerStep, SweeperStep
  <2>3. Carries'
    BY <1>16 DEF FlushAllEnd, TypeOK, Steps, Carries, ClosesVictim, Goto, Job, NoJob, CloseStep, WorkerStep
  <2>4. Closes'
    BY <1>16 DEF FlushAllEnd, TypeOK, Steps, Carries, Closes, Goto, Job, CloseStep, WorkerStep, SweeperStep
  <2>5. Holds'
    BY <1>16 DEF FlushAllEnd, TypeOK, Steps, Holds, Goto, Fresh, Closed, Pushed, Buffer, CloseStep
  <2> QED BY <2>1, <2>2, <2>3, <2>4, <2>5
<1>17. CASE StopListeners
  <2>1. TypeOK'
    BY <1>17 DEF StopListeners, TypeOK, Goto, WorkerStep
  <2>2. Steps'
    BY <1>17 DEF StopListeners, TypeOK, Steps, Carries, Goto, CloseStep, WorkerStep, SweeperStep
  <2>3. Carries'
    BY <1>17 DEF StopListeners, TypeOK, Steps, Carries, ClosesVictim, Goto, Job, NoJob, CloseStep, WorkerStep
  <2>4. Closes'
    BY <1>17 DEF StopListeners, TypeOK, Steps, Carries, Closes, Goto, Job, CloseStep, WorkerStep, SweeperStep
  <2>5. Holds'
    BY <1>17 DEF StopListeners, TypeOK, Steps, Holds, Goto, Fresh, Closed, Pushed, Buffer, CloseStep
  <2> QED BY <2>1, <2>2, <2>3, <2>4, <2>5
<1>18. CASE CancelSweeper
  <2>1. TypeOK'
    BY <1>18 DEF CancelSweeper, TypeOK, Goto, WorkerStep
  <2>2. Steps'
    BY <1>18 DEF CancelSweeper, TypeOK, Steps, Carries, Goto, CloseStep, WorkerStep, SweeperStep
  <2>3. Carries'
    BY <1>18 DEF CancelSweeper, TypeOK, Steps, Carries, ClosesVictim, Goto, Job, NoJob, CloseStep, WorkerStep
  <2>4. Closes'
    BY <1>18 DEF CancelSweeper, TypeOK, Steps, Carries, Closes, Goto, Job, CloseStep, WorkerStep, SweeperStep
  <2>5. Holds'
    BY <1>18 DEF CancelSweeper, TypeOK, Steps, Holds, Goto, Fresh, Closed, Pushed, Buffer, CloseStep
  <2> QED BY <2>1, <2>2, <2>3, <2>4, <2>5
<1>19. CASE Tick
  <2>1. TypeOK'
    <3>1. buffers' \in [Session -> Buffer]
      <4>1. ASSUME NEW s \in Session, buffers[s].open, ~Stale(s)
            PROVE  buffers[s] \in Buffer /\ buffers[s].age <= IdleTimeout
        BY <4>1 DEF TypeOK, Stale, Buffer
      <4> QED BY <1>19, <4>1, BufferTypes DEF Tick, TypeOK
    <3> QED BY <1>19, <3>1 DEF Tick, TypeOK
  <2>2. Steps'
    BY <1>19 DEF Tick, TypeOK, Steps, Carries, Goto, CloseStep, WorkerStep, SweeperStep
  <2>3. Carries'
    BY <1>19 DEF Tick, TypeOK, Steps, Carries, ClosesVictim, Goto, Job, NoJob, CloseStep, WorkerStep
  <2>4. Closes'
    BY <1>19 DEF Tick, TypeOK, Steps, Carries, Closes, Goto, Job, CloseStep, WorkerStep, SweeperStep
  <2>5. Holds'
    BY <1>19 DEF Tick, TypeOK, Steps, Holds, Goto, Fresh, Closed, Pushed, Buffer, CloseStep
  <2> QED BY <2>1, <2>2, <2>3, <2>4, <2>5
<1>20. CASE UNCHANGED vars
  BY <1>20 DEF vars, TypeOK, Steps, Carries, ClosesVictim, Closes, Holds
<1> QED
  BY <1>1, <1>2, <1>3, <1>4, <1>5, <1>6, <1>7, <1>8, <1>9, <1>10, <1>11, <1>12, <1>13, <1>14, <1>15, <1>16, <1>17, <1>18, <1>19, <1>20 DEF Next, Ingest, CloseBuffer, Sweep, FlushAll, Shutdown, Stopped

(* Every reachable state is well typed.                                    *)
THEOREM TypeCorrect == Spec => []TypeOK
<1>1. Spec => []Inv
  BY InvInit, InvStep, PTL DEF Spec
<1> QED BY <1>1, PTL DEF Inv

-----------------------------------------------------------------------------
(* No event is stored under another session's id.                          *)
LEMMA CrossInit == Init => NoCrossSession
BY DEF Init, NoCrossSession, Closed

LEMMA CrossStep == Inv /\ NoCrossSession /\ [Next]_vars => NoCrossSession'
<1> SUFFICES ASSUME Inv, NoCrossSession, [Next]_vars PROVE NoCrossSession'
  OBVIOUS
<1> USE ConstantsAssumption DEF Inv, Control, Thread
<1>1. ASSUME NEW w \in Worker, Push(w) PROVE NoCrossSession'
  <2>1. ev[w] \in Event /\ SessionOf[ev[w]] \in Session
    BY <1>1 DEF Push, TypeOK, Carries
  <2>2. \A s \in Session : \A e \in buffers'[s].events : SessionOf[e] = s
    BY <1>1, <2>1 DEF Push, TypeOK, Pushed, NoCrossSession
  <2>3. held[w] = {}
    BY <1>1 DEF Push, Holds
  <2>4. \A t \in Thread : \A e \in held'[t] : SessionOf[e] = job'[t].sid
    BY <1>1, <2>3 DEF Push, TypeOK, NoCrossSession
  <2> QED BY <1>1, <2>2, <2>4 DEF Push, NoCrossSession
<1>2. ASSUME NEW t \in Thread, RemoveBuffer(t) PROVE NoCrossSession'
  <2>1. job[t].sid \in Session
    BY <1>2 DEF RemoveBuffer, Closes, CloseStep
  <2>2. \A s \in Session : \A e \in buffers'[s].events : SessionOf[e] = s
    <3>1. buffers' \in {buffers, [buffers EXCEPT ![job[t].sid] = Closed]}
      BY <1>2 DEF RemoveBuffer
    <3>2. Closed.events = {}
      BY DEF Closed
    <3> QED BY <3>1, <3>2 DEF TypeOK, NoCrossSession
  <2>3. \A u \in Thread : \A e \in held'[u] : SessionOf[e] = job'[u].sid
    <3>1. held' \in {held, [held EXCEPT ![t] = buffers[job[t].sid].events]} /\ job' = job
      BY <1>2 DEF RemoveBuffer
    <3> QED BY <2>1, <3>1 DEF TypeOK, NoCrossSession
  <2> QED BY <1>2, <2>2, <2>3 DEF RemoveBuffer, NoCrossSession
<1>3. ASSUME NEW t \in Thread, Flush(t) PROVE NoCrossSession'
  <2>1. \A s \in Session : \A e \in row'[s] : SessionOf[e] = s
    <3>1. row' \in {row, [row EXCEPT ![job[t].sid] = held[t]]}
      BY <1>3 DEF Flush
    <3> QED BY <3>1 DEF TypeOK, NoCrossSession
  <2>2. \A u \in Thread : \A e \in held'[u] : SessionOf[e] = job'[u].sid
    BY <1>3 DEF Flush, TypeOK, NoCrossSession
  <2> QED BY <1>3, <2>1, <2>2 DEF Flush, NoCrossSession
<1>4. ASSUME NEW w \in Worker, Admit(w) PROVE NoCrossSession'
  <2>1. buffers' \in {buffers, [buffers EXCEPT ![SessionOf[ev[w]]] = Fresh]}
    BY <1>4 DEF Admit
  <2>2. Fresh.events = {}
    BY DEF Fresh, Closed
  <2>3. \A s \in Session : \A e \in buffers'[s].events : SessionOf[e] = s
    BY <2>1, <2>2 DEF TypeOK, NoCrossSession
  <2> QED BY <1>4, <2>3 DEF Admit, NoCrossSession
<1>5. CASE Tick
  <2>1. \A s \in Session : buffers'[s].events = buffers[s].events
    BY <1>5 DEF Tick, TypeOK, Buffer
  <2> QED BY <1>5, <2>1 DEF Tick, NoCrossSession
<1>6. ASSUME NEW w \in Worker, PopVictim(w) \/ TouchLru(w) PROVE NoCrossSession'
  <2>1. held[w] = {}
    BY <1>6 DEF PopVictim, TouchLru, Holds
  <2>2. \A t \in Thread \ {w} : job'[t] = job[t]
    BY <1>6 DEF PopVictim, TouchLru, TypeOK
  <2> QED BY <1>6, <2>1, <2>2 DEF PopVictim, TouchLru, NoCrossSession
<1>7. ASSUME NEW t \in Thread, Unlist(t) PROVE NoCrossSession'
  <2>1. job'[t] = job[t] \/ held[t] = {}
    BY <1>7 DEF Unlist, Holds
  <2>2. \A u \in Thread \ {t} : job'[u] = job[u]
    BY <1>7 DEF Unlist, TypeOK
  <2> QED BY <1>7, <2>1, <2>2 DEF Unlist, NoCrossSession
<1>8. CASE Sweep \/ FlushAll
  <2>1. held[Sweeper] = {} /\ UNCHANGED <<buffers, held, row>>
    BY <1>8 DEF Sweep, FlushAll, SweepBegin, SweepCollect, SweepEnd, CloseNext,
                FlushAllBegin, FlushAllEnd, Holds
  <2>2. \A t \in Worker : job'[t] = job[t]
    BY <1>8 DEF Sweep, FlushAll, SweepBegin, SweepCollect, SweepEnd, CloseNext,
                FlushAllBegin, FlushAllEnd, TypeOK
  <2> QED BY <2>1, <2>2 DEF NoCrossSession
<1>9. ASSUME UNCHANGED <<buffers, held, row, job>> PROVE NoCrossSession'
  BY <1>9 DEF NoCrossSession
<1> QED
  BY <1>1, <1>2, <1>3, <1>4, <1>5, <1>6, <1>7, <1>8, <1>9
     DEF Next, Ingest, DropEvent, TakeEvent, CheckCap, CloseBuffer, Shutdown,
         StopListeners, CancelSweeper, Stopped, vars

(* A fragment that reaches the sink, and the report computed from it,      *)
(* consist of the session's own events.                                    *)
THEOREM SessionsStayApart == Spec => []NoCrossSession
<1>1. Inv /\ NoCrossSession /\ [Next]_vars => (Inv /\ NoCrossSession)'
  BY InvStep, CrossStep
<1> QED BY InvInit, CrossInit, <1>1, PTL DEF Spec

-----------------------------------------------------------------------------
(* How each action moves events between the places they can be in.         *)
Place == OnePlace /\ NoCrossSession
Stays == Carried' = Carried /\ Buffered' = Buffered /\ InClose' = InClose

LEMMA TakeMoves ==
  ASSUME Inv, NEW w \in Worker, NEW e \in Event, TakeEvent(w, e)
  PROVE  Carried' = Carried \cup {e} /\ Buffered' = Buffered /\ InClose' = InClose
<1> USE ConstantsAssumption DEF Inv, Control
<1>1. pc[w] = "idle" /\ ev' = [ev EXCEPT ![w] = e]
  BY DEF TakeEvent
<1>2. ev[w] = NoEvent
  BY <1>1 DEF Carries, ClosesVictim, CloseStep
<1>3. e # NoEvent
  OBVIOUS
<1>4. Carried' = Carried \cup {e}
  BY <1>1, <1>2, <1>3 DEF TypeOK, Carried
<1> QED BY <1>4 DEF TakeEvent, Buffered, InClose

LEMMA AdmitMoves == ASSUME Inv, NEW w \in Worker, Admit(w) PROVE Stays
<1>1. Closed.events = {} /\ Fresh.events = {}
  BY DEF Closed, Fresh
<1>2. \A s \in Session : buffers'[s].events = buffers[s].events
  <2>1. \/ buffers' = buffers
        \/ ~buffers[SessionOf[ev[w]]].open /\ buffers' = [buffers EXCEPT ![SessionOf[ev[w]]] = Fresh]
    BY DEF Admit
  <2> QED BY <1>1, <2>1 DEF Inv, TypeOK, Control, Holds
<1>3. Buffered' = Buffered
  BY <1>2 DEF Buffered
<1> QED BY <1>3 DEF Admit, Stays, Carried, InClose

LEMMA PushMoves ==
  ASSUME Inv, OnePlace, NEW w \in Worker, Push(w)
  PROVE  /\ ev[w] \in Carried
         /\ Carried' = Carried \ {ev[w]}
         /\ Buffered' = Buffered \cup {ev[w]}
         /\ InClose' = InClose
<1> USE ConstantsAssumption DEF Inv, Control
<1>1. ev[w] \in Event /\ ev[w] # NoEvent /\ SessionOf[ev[w]] \in Session
  BY DEF Push, TypeOK, Carries
<1>2. ev' = [ev EXCEPT ![w] = NoEvent]
  BY DEF Push
<1>3. \A v \in Worker \ {w} : ev[v] # ev[w]
  BY <1>1 DEF OnePlace
<1>4. Carried' = Carried \ {ev[w]}
  BY <1>1, <1>2, <1>3 DEF TypeOK, Carried
<1>5. buffers' = [buffers EXCEPT ![SessionOf[ev[w]]] = Pushed(buffers[SessionOf[ev[w]]], ev[w])]
  BY DEF Push
<1>6. Pushed(buffers[SessionOf[ev[w]]], ev[w]).events = buffers[SessionOf[ev[w]]].events \cup {ev[w]}
  BY DEF Pushed
<1>7. Buffered' = Buffered \cup {ev[w]}
  BY <1>1, <1>5, <1>6 DEF TypeOK, Buffered
<1> QED BY <1>1, <1>4, <1>7 DEF Push, Carried, InClose

LEMMA RemoveMoves ==
  ASSUME Inv, NoCrossSession, NEW t \in Thread, RemoveBuffer(t)
  PROVE  /\ Carried' = Carried
         /\ held[t] = {}
         /\ \/ UNCHANGED <<buffers, held>>
            \/ /\ held' = [held EXCEPT ![t] = buffers[job[t].sid].events]
               /\ buffers[job[t].sid].events \subseteq Buffered
               /\ Buffered' = Buffered \ buffers[job[t].sid].events
<1> USE ConstantsAssumption DEF Inv, Control
<1>1. job[t].sid \in Session /\ held[t] = {}
  BY DEF RemoveBuffer, Closes, CloseStep, Holds, Thread
<1>2. CASE UNCHANGED <<buffers, held>>
  BY <1>1, <1>2 DEF RemoveBuffer, Carried
<1>3. CASE /\ held' = [held EXCEPT ![t] = buffers[job[t].sid].events]
           /\ buffers' = [buffers EXCEPT ![job[t].sid] = Closed]
  <2>1. \A s \in Session : buffers'[s].events = IF s = job[t].sid THEN {} ELSE buffers[s].events
    BY <1>3 DEF TypeOK, Closed
  <2>2. \A s \in Session : s # job[t].sid =>
           buffers[s].events \cap buffers[job[t].sid].events = {}
    BY <1>1 DEF NoCrossSession
  <2>3. Buffered' = Buffered \ buffers[job[t].sid].events
    BY <1>1, <2>1, <2>2 DEF Buffered
  <2>4. buffers[job[t].sid].events \subseteq Buffered
    BY <1>1 DEF Buffered
  <2> QED BY <1>1, <1>3, <2>3, <2>4 DEF RemoveBuffer, Carried
<1> QED BY <1>2, <1>3 DEF RemoveBuffer

LEMMA HeldMoves ==
  ASSUME Inv, NEW t \in Thread, NEW F, held[t] = {}, held' = [held EXCEPT ![t] = F]
  PROVE  InClose' = InClose \cup F
BY DEF Inv, TypeOK, InClose

LEMMA FlushMoves ==
  ASSUME Inv, OnePlace, NEW t \in Thread, Flush(t)
  PROVE  /\ Carried' = Carried /\ Buffered' = Buffered
         /\ InClose' = InClose \ held[t]
         /\ held[t] \subseteq InClose
<1>1. held' = [held EXCEPT ![t] = {}]
  BY DEF Flush
<1>2. \A u \in Thread \ {t} : held[u] \cap held[t] = {}
  BY DEF OnePlace
<1>3. InClose' = InClose \ held[t]
  BY <1>1, <1>2 DEF Inv, TypeOK, InClose
<1> QED BY <1>3 DEF Flush, Carried, Buffered, InClose

(* Every other step leaves the events where they are.                      *)
OtherStep == \/ \E w \in Worker : \/ \E e \in Event : DropEvent(w, e)
                                  \/ Admit(w) \/ CheckCap(w) \/ PopVictim(w) \/ TouchLru(w)
             \/ \E t \in Thread : Unlist(t)
             \/ Sweep \/ FlushAll \/ Shutdown \/ Tick \/ UNCHANGED vars

LEMMA OtherStays ==
  ASSUME Inv, OtherStep
  PROVE  /\ Stays /\ UNCHANGED <<held, ev, persisted, failed>>
         /\ \/ supply' = supply
            \/ \E e \in supply : SessionOf[e] = NoSession /\ supply' = supply \ {e}
<1>1. CASE \E w \in Worker : Admit(w)
  BY <1>1, AdmitMoves DEF Admit
<1>2. CASE Tick
  <2>1. \A s \in Session : buffers'[s].events = buffers[s].events
    BY <1>2 DEF Tick, Inv, TypeOK, Buffer
  <2>2. Buffered' = Buffered
    BY <2>1 DEF Buffered
  <2> QED BY <1>2, <2>2 DEF Tick, Stays, Carried, InClose
<1>3. CASE UNCHANGED <<buffers, held, ev, persisted, failed, supply>>
  BY <1>3 DEF Stays, Carried, Buffered, InClose
<1>4. ASSUME NEW w \in Worker, NEW e \in Event, DropEvent(w, e)
      PROVE  /\ UNCHANGED <<buffers, held, ev, persisted, failed>>
             /\ e \in supply /\ SessionOf[e] = NoSession /\ supply' = supply \ {e}
  BY <1>4 DEF DropEvent
<1>5. CASE \E w \in Worker, e \in Event : DropEvent(w, e)
  BY <1>4, <1>5 DEF Stays, Carried, Buffered, InClose
<1> QED
  BY <1>1, <1>2, <1>3, <1>5
     DEF OtherStep, CheckCap, PopVictim, TouchLru, Unlist, Sweep, SweepBegin, SweepCollect,
         SweepEnd, CloseNext, FlushAll, FlushAllBegin, FlushAllEnd, Shutdown, StopListeners,
         CancelSweeper, vars

LEMMA StepCases ==
  ASSUME [Next]_vars
  PROVE  \/ \E w \in Worker : Push(w) \/ \E e \in Event : TakeEvent(w, e)
         \/ \E t \in Thread : RemoveBuffer(t) \/ Flush(t)
         \/ OtherStep
BY DEF Next, Ingest, CloseBuffer, Stopped, OtherStep

-----------------------------------------------------------------------------
(* Every event is in one place, whatever the threads do to each other.     *)
LEMMA PlaceInit == Init => Place /\ NoEventLost
BY ConstantsAssumption
   DEF Init, Place, OnePlace, NoCrossSession, NoEventLost, Accepted, Carried, Buffered, InClose,
       Closed, Routable

LEMMA OnePlaceStep == Inv /\ Place /\ [Next]_vars => OnePlace'
<1> SUFFICES ASSUME Inv, OnePlace, NoCrossSession, [Next]_vars PROVE OnePlace'
  BY DEF Place
<1>1. ASSUME NEW w \in Worker, NEW e \in Event, TakeEvent(w, e) PROVE OnePlace'
  <2>1. e \in supply /\ supply' = supply \ {e} /\ UNCHANGED <<held, persisted, failed>>
    BY <1>1 DEF TakeEvent
  <2>2. \A v \in Worker : ev[v] # e
    <3>1. e \notin Carried
      BY <2>1 DEF OnePlace, Accepted
    <3>2. e # NoEvent
      BY ConstantsAssumption
    <3> QED BY <3>1, <3>2 DEF Carried
  <2>3. \A v, x \in Worker : v # x /\ ev'[v] = ev'[x] => ev'[v] = NoEvent
    BY <1>1, <2>2 DEF TakeEvent, OnePlace, Inv, TypeOK
  <2> QED BY <1>1, <2>1, <2>3, TakeMoves DEF OnePlace, Accepted
<1>2. ASSUME NEW w \in Worker, Push(w) PROVE OnePlace'
  <2>1. \A v, x \in Worker : v # x /\ ev'[v] = ev'[x] => ev'[v] = NoEvent
    BY <1>2 DEF Push, OnePlace, Inv, TypeOK
  <2>2. UNCHANGED <<supply, held, persisted, failed>>
    BY <1>2 DEF Push
  <2>3. Accepted' = Accepted
    BY <1>2, PushMoves DEF Accepted
  <2> QED BY <1>2, <2>1, <2>2, <2>3, PushMoves DEF OnePlace
<1>3. ASSUME NEW t \in Thread, RemoveBuffer(t) PROVE OnePlace'
  <2> DEFINE F == buffers[job[t].sid].events
  <2>1. UNCHANGED <<supply, ev, persisted, failed>> /\ Carried' = Carried
    BY <1>3 DEF RemoveBuffer, Carried
  <2>2. CASE UNCHANGED <<buffers, held>>
    BY <2>1, <2>2 DEF OnePlace, Accepted, Buffered, InClose
  <2>3. CASE held' = [held EXCEPT ![t] = F] /\ F \subseteq Buffered /\ Buffered' = Buffered \ F
    <3> HIDE DEF F
    <3>1. InClose' = InClose \cup F
      BY <1>3, <2>3, RemoveMoves, HeldMoves
    <3>2. \A u \in Thread \ {t} : held[u] \cap F = {}
      BY <2>3 DEF OnePlace, InClose
    <3>3. \A u, x \in Thread : u # x => held'[u] \cap held'[x] = {}
      BY <2>3, <3>2 DEF OnePlace, Inv, TypeOK
    <3>4. Accepted' = Accepted
      BY <2>1, <2>3, <3>1 DEF Accepted
    <3> QED BY <2>1, <2>3, <3>1, <3>3, <3>4 DEF OnePlace
  <2> QED BY <1>3, <2>2, <2>3, RemoveMoves
<1>4. ASSUME NEW t \in Thread, Flush(t) PROVE OnePlace'
  <2>1. UNCHANGED <<supply, ev>> /\ held' = [held EXCEPT ![t] = {}]
    BY <1>4 DEF Flush
  <2>2. \/ persisted' = persisted \cup held[t] /\ failed' = failed
        \/ failed' = failed \cup held[t] /\ persisted' = persisted
    BY <1>4 DEF Flush
  <2>3. \A u, x \in Thread : u # x => held'[u] \cap held'[x] = {}
    BY <2>1 DEF OnePlace, Inv, TypeOK
  <2>4. /\ Carried' = Carried /\ Buffered' = Buffered
        /\ InClose' = InClose \ held[t] /\ held[t] \subseteq InClose
    BY <1>4, FlushMoves
  <2>5. Accepted' = Accepted \ held[t] /\ held[t] \subseteq Accepted
    BY <2>4 DEF Accepted, OnePlace
  <2> QED BY <2>1, <2>2, <2>3, <2>4, <2>5 DEF OnePlace
<1>5. CASE OtherStep
  <2>1. supply' \subseteq supply /\ Accepted' = Accepted
    BY <1>5, OtherStays DEF Stays, Accepted
  <2> QED BY <1>5, <2>1, OtherStays DEF Stays, OnePlace
<1> QED BY <1>1, <1>2, <1>3, <1>4, <1>5, StepCases

LEMMA NoEventLostStep == Inv /\ Place /\ NoEventLost /\ [Next]_vars => NoEventLost'
<1> SUFFICES ASSUME Inv, OnePlace, NoCrossSession, NoEventLost, [Next]_vars PROVE NoEventLost'
  BY DEF Place
<1>1. ASSUME NEW w \in Worker, NEW e \in Event, TakeEvent(w, e) PROVE NoEventLost'
  <2>1. Accepted' = Accepted \cup {e} /\ supply' = supply \ {e} /\ UNCHANGED <<persisted, failed>>
    BY <1>1, TakeMoves DEF TakeEvent, Accepted
  <2> QED BY <2>1 DEF NoEventLost, Routable
<1>2. ASSUME NEW w \in Worker, Push(w) PROVE NoEventLost'
  <2>1. Accepted' = Accepted /\ UNCHANGED <<supply, persisted, failed>>
    BY <1>2, PushMoves DEF Push, Accepted
  <2> QED BY <2>1 DEF NoEventLost, Routable
<1>3. ASSUME NEW t \in Thread, RemoveBuffer(t) PROVE NoEventLost'
  <2>1. Accepted' = Accepted
    <3>1. CASE UNCHANGED <<buffers, held>>
      BY <1>3, <3>1 DEF RemoveBuffer, Accepted, Carried, Buffered, InClose
    <3>2. CASE ~UNCHANGED <<buffers, held>>
      BY <1>3, <3>2, RemoveMoves, HeldMoves DEF Accepted
    <3> QED BY <3>1, <3>2
  <2> QED BY <1>3, <2>1 DEF RemoveBuffer, NoEventLost, Routable
<1>4. ASSUME NEW t \in Thread, Flush(t) PROVE NoEventLost'
  <2>1. \/ persisted' = persisted \cup held[t] /\ failed' = failed
        \/ failed' = failed \cup held[t] /\ persisted' = persisted
    BY <1>4 DEF Flush
  <2>2. Accepted \subseteq Accepted' \cup held[t] /\ supply' = supply
    BY <1>4, FlushMoves DEF Flush, Accepted
  <2> QED BY <2>1, <2>2 DEF NoEventLost, Routable
<1>5. CASE OtherStep
  <2>1. Accepted' = Accepted /\ UNCHANGED <<persisted, failed>>
    BY <1>5, OtherStays DEF Stays, Accepted
  <2>2. \A e \in supply : SessionOf[e] # NoSession => e \in supply'
    BY <1>5, OtherStays
  <2> QED BY <2>1, <2>2 DEF NoEventLost, Routable
<1> QED BY <1>1, <1>2, <1>3, <1>4, <1>5, StepCases

(* The whole inductive invariant behind the conservation of events.        *)
LEMMA Conservation == Spec => [](Inv /\ Place /\ NoEventLost)
<1>1. Inv /\ Place /\ NoEventLost /\ [Next]_vars => (Inv /\ Place /\ NoEventLost)'
  BY InvStep, CrossStep, OnePlaceStep, NoEventLostStep DEF Place
<1> QED BY InvInit, PlaceInit, <1>1, PTL DEF Spec

(* No interleaving of ingest, eviction, sweep and shutdown drops an event  *)
(* between its acceptance and the sink.                                    *)
THEOREM EventsAreConserved == Spec => []NoEventLost
BY Conservation, PTL

(* No interleaving hands an event to the sink twice.                       *)
THEOREM EventsAreInOnePlace == Spec => []OnePlace
<1>1. Place => OnePlace
  BY DEF Place
<1> QED BY Conservation, <1>1, PTL

(* The three together: at any time an accepted event is in exactly one     *)
(* place, and in one of its own session.                                   *)
THEOREM EventsStaySafe == Spec => []EventsAreSafe
<1>1. NoEventLost /\ OnePlace /\ NoCrossSession => EventsAreSafe
  BY DEF EventsAreSafe
<1> QED BY EventsAreConserved, EventsAreInOnePlace, SessionsStayApart, <1>1, PTL

-----------------------------------------------------------------------------
(* An ended session is closed by the worker that pushed its SessionEnd.    *)
Closer(w, s) == /\ pc[w] \in {"touch", "remove"}
                /\ job[w] = [sid |-> s, reason |-> "ExplicitEnd"]

LEMMA EndedStep == Inv /\ EndedSessionCloses /\ [Next]_vars => EndedSessionCloses'
<1> SUFFICES ASSUME Inv, EndedSessionCloses, [Next]_vars,
                    NEW s \in Session, buffers'[s].events \cap Ends # {}
             PROVE  \E w \in Worker : Closer(w, s)'
  BY DEF EndedSessionCloses, Closer
<1> USE DEF Inv, Control
<1>1. ASSUME NEW w \in Worker, Closer(w, s), UNCHANGED <<pc[w], job[w]>>
      PROVE  \E v \in Worker : Closer(v, s)'
  BY <1>1 DEF Closer
<1>2. buffers[s].events \cap Ends # {} => \E w \in Worker : Closer(w, s)
  BY DEF EndedSessionCloses, Closer
<1>3. ASSUME NEW w \in Worker, Push(w) PROVE \E v \in Worker : Closer(v, s)'
  <2>1. ev[w] \in Event /\ SessionOf[ev[w]] \in Session
    BY <1>3, ConstantsAssumption DEF Push, TypeOK, Carries
  <2>2. CASE s = SessionOf[ev[w]] /\ ev[w] \in Ends
    <3>1. job'[w] = [sid |-> s, reason |-> "ExplicitEnd"] /\ pc'[w] = "touch"
      BY <1>3, <2>2 DEF Push, TypeOK, Goto, Trigger, Thread
    <3> QED BY <3>1 DEF Closer
  <2>3. CASE ~(s = SessionOf[ev[w]] /\ ev[w] \in Ends)
    <3>1. buffers[s].events \cap Ends # {}
      BY <1>3, <2>1, <2>3 DEF Push, TypeOK, Pushed
    <3>2. PICK v \in Worker : Closer(v, s)
      BY <1>2, <3>1
    <3>3. v # w
      BY <1>3, <3>2 DEF Push, Closer
    <3> QED BY <1>1, <1>3, <3>2, <3>3 DEF Push, TypeOK, Goto
  <2> QED BY <2>2, <2>3
<1>4. ASSUME NEW t \in Thread, RemoveBuffer(t) PROVE \E v \in Worker : Closer(v, s)'
  <2>1. s # job[t].sid /\ buffers[s].events \cap Ends # {}
    <3>1. Closed.events = {}
      BY DEF Closed
    <3> QED BY <1>4, <3>1 DEF RemoveBuffer, TypeOK, Holds
  <2>2. PICK v \in Worker : Closer(v, s)
    BY <1>2, <2>1
  <2>3. v # t
    BY <2>1, <2>2 DEF Closer
  <2>4. pc'[v] = pc[v] /\ job'[v] = job[v]
    BY <1>4, <2>3 DEF RemoveBuffer, TypeOK, Goto, Thread
  <2> QED BY <1>1, <2>2, <2>4
<1>5. ASSUME NEW w \in Worker, TouchLru(w) PROVE \E v \in Worker : Closer(v, s)'
  <2>1. PICK v \in Worker : Closer(v, s)
    BY <1>2, <1>5 DEF TouchLru
  <2>2. CASE v = w
    <3>1. job' = job /\ pc'[w] = "remove"
      BY <1>5, <2>1, <2>2 DEF TouchLru, TypeOK, Goto, Closer, Thread
    <3> QED BY <2>1, <2>2, <3>1 DEF Closer
  <2>3. CASE v # w
    <3>1. pc'[v] = pc[v] /\ job'[v] = job[v]
      BY <1>5, <2>3 DEF TouchLru, TypeOK, Goto, Thread
    <3> QED BY <1>1, <2>1, <3>1
  <2> QED BY <2>2, <2>3
<1>6. ASSUME NEW w \in Worker, Admit(w) PROVE \E v \in Worker : Closer(v, s)'
  <2>1. Fresh.events = {}
    BY DEF Fresh, Closed
  <2>2. buffers[s].events \cap Ends # {}
    BY <1>6, <2>1 DEF Admit, TypeOK
  <2>3. PICK v \in Worker : Closer(v, s)
    BY <1>2, <2>2
  <2>4. v # w
    BY <1>6, <2>3 DEF Admit, Closer
  <2>5. pc'[v] = pc[v] /\ job'[v] = job[v]
    BY <1>6, <2>4 DEF Admit, TypeOK, Goto, Thread
  <2> QED BY <1>1, <2>3, <2>5
<1>7. ASSUME buffers' = buffers \/ Tick,
             NEW t \in Thread, pc[t] \notin {"touch", "remove"},
             \A u \in Thread \ {t} : UNCHANGED <<pc[u], job[u]>>
      PROVE  \E v \in Worker : Closer(v, s)'
  <2>1. buffers[s].events \cap Ends # {}
    BY <1>7 DEF Tick, TypeOK, Buffer
  <2>2. PICK v \in Worker : Closer(v, s)
    BY <1>2, <2>1
  <2>3. v # t /\ v \in Thread
    BY <1>7, <2>2 DEF Closer, Thread
  <2> QED BY <1>1, <1>7, <2>2, <2>3
<1>8. ASSUME NEW w \in Worker, NEW e \in Event, DropEvent(w, e) \/ TakeEvent(w, e)
      PROVE  \E v \in Worker : Closer(v, s)'
  <2>1. /\ buffers' = buffers /\ pc[w] \notin {"touch", "remove"} /\ w \in Thread
        /\ \A u \in Thread \ {w} : UNCHANGED <<pc[u], job[u]>>
    BY <1>8 DEF DropEvent, TakeEvent, TypeOK, Goto, Thread
  <2> QED BY <1>7, <2>1
<1>9. ASSUME NEW w \in Worker, CheckCap(w) \/ PopVictim(w) PROVE \E v \in Worker : Closer(v, s)'
  <2>1. /\ buffers' = buffers /\ pc[w] \notin {"touch", "remove"} /\ w \in Thread
        /\ \A u \in Thread \ {w} : UNCHANGED <<pc[u], job[u]>>
    BY <1>9 DEF CheckCap, PopVictim, TypeOK, Goto, Thread
  <2> QED BY <1>7, <2>1
<1>10. ASSUME NEW t \in Thread, Unlist(t) \/ Flush(t) PROVE \E v \in Worker : Closer(v, s)'
  <2>1. /\ buffers' = buffers /\ pc[t] \notin {"touch", "remove"}
        /\ \A u \in Thread \ {t} : UNCHANGED <<pc[u], job[u]>>
    BY <1>10 DEF Unlist, Flush, TypeOK, Goto
  <2> QED BY <1>7, <2>1
<1>11. CASE Sweep \/ FlushAll
  <2>1. /\ buffers' = buffers /\ pc[Sweeper] \notin {"touch", "remove"} /\ Sweeper \in Thread
        /\ \A u \in Thread \ {Sweeper} : UNCHANGED <<pc[u], job[u]>>
    BY <1>11 DEF Sweep, SweepBegin, SweepCollect, SweepEnd, CloseNext,
                 FlushAll, FlushAllBegin, FlushAllEnd, TypeOK, Goto, Thread
  <2> QED BY <1>7, <2>1
<1>12. ASSUME UNCHANGED <<pc, job>>, buffers' = buffers \/ Tick
       PROVE  \E v \in Worker : Closer(v, s)'
  <2>1. buffers[s].events \cap Ends # {}
    BY <1>12 DEF Tick, TypeOK, Buffer
  <2> QED BY <1>2, <2>1, <1>12 DEF Closer
<1> QED
  BY <1>3, <1>4, <1>5, <1>6, <1>8, <1>9, <1>10, <1>11, <1>12
     DEF Next, Ingest, CloseBuffer, Shutdown, StopListeners, CancelSweeper, Tick, Stopped, vars

(* No session stays open after its SessionEnd: some worker is closing it.  *)
THEOREM EndedSessionsClose == Spec => []EndedSessionCloses
<1>1. Init => EndedSessionCloses
  BY DEF Init, EndedSessionCloses, Closed
<1>2. Inv /\ EndedSessionCloses /\ [Next]_vars => (Inv /\ EndedSessionCloses)'
  BY InvStep, EndedStep
<1> QED BY InvInit, <1>1, <1>2, PTL DEF Spec

-----------------------------------------------------------------------------
(* The shutdown drain.  The workers are idle once the sweeper is cancelled *)
(* and every open session is on the final list or being removed.           *)
LEMMA DrainingStep == Inv /\ Draining /\ [Next]_vars => Draining'
<1> SUFFICES ASSUME Inv, Draining, [Next]_vars PROVE Draining'
  OBVIOUS
<1> USE ConstantsAssumption DEF Inv, Control, Thread
<1>1. ASSUME NEW w \in Worker, pc[w] # "idle" \/ phase = "serving",
             pc'[Sweeper] = pc[Sweeper], job'[Sweeper] = job[Sweeper], phase' = phase
      PROVE  Draining'
  <2>1. phase \notin {"cancelled", "stopped"} /\ ~FlushingAll
    BY <1>1 DEF Draining
  <2> QED BY <1>1, <2>1 DEF Draining, FlushingAll
<1>2. ASSUME NEW w \in Worker, Ingest(w) PROVE Draining'
  <2>1. pc[w] # "idle" \/ phase = "serving"
    BY <1>2 DEF Ingest, DropEvent, TakeEvent, Admit, CheckCap, PopVictim, Push, TouchLru
  <2>2. pc'[Sweeper] = pc[Sweeper] /\ job'[Sweeper] = job[Sweeper] /\ phase' = phase
    BY <1>2 DEF Ingest, DropEvent, TakeEvent, Admit, CheckCap, PopVictim, Push, TouchLru, Goto, TypeOK
  <2> QED BY <1>1, <2>1, <2>2
<1>3. ASSUME NEW w \in Worker, CloseBuffer(w) PROVE Draining'
  <2>1. pc[w] # "idle"
    BY <1>3 DEF CloseBuffer, RemoveBuffer, Unlist, Flush
  <2>2. pc'[Sweeper] = pc[Sweeper] /\ job'[Sweeper] = job[Sweeper] /\ phase' = phase
    BY <1>3 DEF CloseBuffer, RemoveBuffer, Unlist, Flush, Goto, TypeOK
  <2> QED BY <1>1, <2>1, <2>2
<1>4. CASE RemoveBuffer(Sweeper)
  <2>1. /\ pc[Sweeper] = "remove" /\ pc'[Sweeper] \in {"unlist", "unlist_absent"}
        /\ UNCHANGED <<job, todo, phase>> /\ \A w \in Worker : pc'[w] = pc[w]
    BY <1>4 DEF RemoveBuffer, Goto, TypeOK
  <2>2. OpenSessions' \subseteq OpenSessions \ {job[Sweeper].sid}
    BY <1>4 DEF RemoveBuffer, OpenSessions, TypeOK, Closed
  <2>3. FlushingAll' => FlushingAll
    BY <2>1 DEF FlushingAll, CloseStep
  <2> QED BY <2>1, <2>2, <2>3 DEF Draining
<1>5. CASE Unlist(Sweeper) \/ Flush(Sweeper)
  <2>1. /\ pc[Sweeper] \in CloseStep \ {"remove"} /\ pc'[Sweeper] \in {"flush", "next"}
        /\ job'[Sweeper].reason = job[Sweeper].reason
        /\ UNCHANGED <<buffers, todo, phase>> /\ \A w \in Worker : pc'[w] = pc[w]
    BY <1>5 DEF Unlist, Flush, Goto, TypeOK, AfterClose, JobAfterClose, CloseStep, Job
  <2>2. OpenSessions' = OpenSessions /\ (FlushingAll' => FlushingAll)
    BY <2>1 DEF FlushingAll, OpenSessions, CloseStep
  <2> QED BY <2>1, <2>2 DEF Draining, CloseStep
<1>6. ASSUME NEW s \in Session, CloseNext(s) PROVE Draining'
  <2>1. /\ pc[Sweeper] = "next" /\ pc'[Sweeper] = "remove" /\ todo' = todo \ {s}
        /\ job'[Sweeper] = [job[Sweeper] EXCEPT !.sid = s]
        /\ UNCHANGED <<buffers, phase>> /\ \A w \in Worker : pc'[w] = pc[w]
    BY <1>6 DEF CloseNext, Goto, TypeOK
  <2>2. job'[Sweeper].sid = s /\ job'[Sweeper].reason = job[Sweeper].reason
    BY <2>1 DEF TypeOK, Job
  <2>3. OpenSessions' = OpenSessions /\ (FlushingAll' => FlushingAll)
    BY <2>1, <2>2 DEF FlushingAll, OpenSessions
  <2> QED BY <2>1, <2>2, <2>3 DEF Draining
<1>7. CASE FlushAllBegin
  <2>1. /\ phase = "cancelled" /\ pc'[Sweeper] = "next" /\ todo' = OpenSessions
        /\ UNCHANGED <<buffers, phase>> /\ \A w \in Worker : pc'[w] = pc[w]
    BY <1>7 DEF FlushAllBegin, Goto, TypeOK
  <2>2. OpenSessions' = OpenSessions
    BY <2>1 DEF OpenSessions
  <2> QED BY <2>1, <2>2 DEF Draining
<1>8. CASE FlushAllEnd
  <2>1. FlushingAll /\ pc[Sweeper] = "next" /\ todo = {}
    BY <1>8 DEF FlushAllEnd, FlushingAll
  <2>2. OpenSessions = {} /\ \A w \in Worker : pc[w] = "idle"
    BY <2>1 DEF Draining
  <2>3. /\ pc'[Sweeper] = "done" /\ phase' = "stopped" /\ buffers' = buffers
        /\ \A w \in Worker : pc'[w] = pc[w]
    BY <1>8 DEF FlushAllEnd, Goto, TypeOK
  <2>4. ~FlushingAll'
    BY <2>3 DEF FlushingAll, CloseStep
  <2> QED BY <2>2, <2>3, <2>4 DEF Draining, OpenSessions
<1>9. CASE SweepBegin \/ SweepCollect \/ SweepEnd
  <2>1. /\ pc[Sweeper] # "done" /\ pc'[Sweeper] \in {"collect", "next", "idle"}
        /\ pc'[Sweeper] = "next" => job'[Sweeper].reason = "Idle"
        /\ UNCHANGED <<buffers, phase>> /\ \A w \in Worker : pc'[w] = pc[w]
    BY <1>9 DEF SweepBegin, SweepCollect, SweepEnd, Goto, TypeOK
  <2>2. ~FlushingAll'
    BY <2>1 DEF FlushingAll, CloseStep
  <2> QED BY <2>1, <2>2 DEF Draining
<1>10. CASE Shutdown
  <2>1. /\ phase \in {"serving", "draining"} /\ phase' \in {"draining", "cancelled"}
        /\ phase' = "cancelled" => \A w \in Worker : pc[w] = "idle"
        /\ UNCHANGED <<pc, job>>
    BY <1>10 DEF Shutdown, StopListeners, CancelSweeper
  <2>2. ~FlushingAll'
    BY <2>1 DEF Draining, FlushingAll
  <2> QED BY <2>1, <2>2 DEF Draining
<1>11. CASE Tick
  <2>1. OpenSessions' = OpenSessions
    BY <1>11 DEF Tick, OpenSessions, TypeOK, Buffer
  <2> QED BY <1>11, <2>1 DEF Tick, Draining, FlushingAll
<1>12. CASE UNCHANGED vars
  BY <1>12 DEF vars, Draining, FlushingAll, OpenSessions
<1> QED
  BY <1>2, <1>3, <1>4, <1>5, <1>6, <1>7, <1>8, <1>9, <1>10, <1>11, <1>12
     DEF Next, CloseBuffer, Sweep, FlushAll, Stopped

LEMMA DrainingInit == Init => Draining
BY ConstantsAssumption DEF Init, Draining, FlushingAll, CloseStep, Thread

LEMMA DrainedWhenStopped == Inv /\ Draining => DrainedAtStop
<1> SUFFICES ASSUME Inv, Draining, phase = "stopped" PROVE Accepted = {} /\ OpenSessions = {}
  BY DEF DrainedAtStop
<1> USE ConstantsAssumption DEF Inv, Control, Thread
<1>1. OpenSessions = {} /\ pc[Sweeper] = "done" /\ \A w \in Worker : pc[w] = "idle"
  BY DEF Draining
<1>2. Carried = {}
  BY <1>1 DEF Carries, ClosesVictim, CloseStep, Carried
<1>3. InClose = {}
  BY <1>1 DEF Holds, InClose
<1>4. Buffered = {}
  BY <1>1 DEF Holds, OpenSessions, Buffered
<1> QED BY <1>1, <1>2, <1>3, <1>4 DEF Accepted

(* A clean shutdown leaves no event and no session in memory, whatever     *)
(* requests were in flight when it began.                                  *)
THEOREM ShutdownDrains == Spec => []DrainedAtStop
<1>1. Inv /\ Draining /\ [Next]_vars => (Inv /\ Draining)'
  BY InvStep, DrainingStep
<1> QED BY InvInit, DrainingInit, DrainedWhenStopped, <1>1, PTL DEF Spec

-----------------------------------------------------------------------------
(* The router implements the ledger: a take is an Accept, a drop an        *)
(* Ignore, a flush a Release, the end of flush_all a Stop, and everything  *)
(* else moves events between places the ledger does not tell apart.        *)
StaysInLedger == UNCHANGED <<supply, Accepted, persisted, failed>>

LEMMA LedgerInit == Init => Ledger!Init
BY ConstantsAssumption
   DEF Init, Ledger!Init, Accepted, Carried, Buffered, InClose, Closed

LEMMA LedgerStep == Inv /\ Place /\ Draining /\ [Next]_vars => [Ledger!Next]_(Ledger!ledger)
<1> SUFFICES ASSUME Inv, OnePlace, NoCrossSession, Draining, [Next]_vars
             PROVE  [Ledger!Next]_(Ledger!ledger)
  BY DEF Place
<1>0. ASSUME StaysInLedger, phase' = phase \/ "stopped" \notin {phase, phase'}
      PROVE  UNCHANGED Ledger!ledger
  BY <1>0 DEF StaysInLedger, Ledger!ledger
<1>1. ASSUME NEW w \in Worker, NEW e \in Event, TakeEvent(w, e)
      PROVE  Ledger!Accept(e)
  <2>1. /\ phase = "serving" /\ e \in supply /\ SessionOf[e] \in Session
        /\ supply' = supply \ {e} /\ UNCHANGED <<persisted, failed, phase>>
    BY <1>1, ConstantsAssumption DEF TakeEvent
  <2>2. Accepted' = Accepted \cup {e}
    BY <1>1, TakeMoves DEF Accepted
  <2> QED BY <2>1, <2>2 DEF Ledger!Accept
<1>2. ASSUME NEW w \in Worker, NEW e \in Event, DropEvent(w, e)
      PROVE  Ledger!Ignore(e)
  <2>1. /\ phase = "serving" /\ e \in supply /\ SessionOf[e] \notin Session
        /\ supply' = supply \ {e} /\ UNCHANGED <<buffers, ev, held, persisted, failed, phase>>
    BY <1>2, ConstantsAssumption DEF DropEvent
  <2>2. Accepted' = Accepted
    BY <2>1 DEF Accepted, Carried, Buffered, InClose
  <2> QED BY <2>1, <2>2 DEF Ledger!Ignore
<1>3. ASSUME NEW t \in Thread, Flush(t)
      PROVE  /\ job[t].sid \in Session /\ held[t] \in SUBSET Accepted
             /\ Ledger!Release(job[t].sid, held[t])
  <2>1. /\ pc[t] = "flush" /\ UNCHANGED <<supply, phase>>
        /\ \/ persisted' = persisted \cup held[t] /\ failed' = failed
           \/ failed' = failed \cup held[t] /\ persisted' = persisted
    BY <1>3 DEF Flush
  <2>2. job[t].sid \in Session /\ \A e \in held[t] : SessionOf[e] = job[t].sid
    BY <2>1 DEF Inv, Control, Closes, CloseStep, Thread, NoCrossSession
  <2>3. phase # "stopped"
    BY <2>1 DEF Draining, Thread
  <2>4. Accepted' = Accepted \ held[t] /\ held[t] \subseteq Accepted
    BY <1>3, FlushMoves DEF Accepted, OnePlace
  <2> QED BY <2>1, <2>2, <2>3, <2>4 DEF Ledger!Release
<1>4. ASSUME NEW w \in Worker, Push(w) PROVE UNCHANGED Ledger!ledger
  <2>1. StaysInLedger /\ phase' = phase
    BY <1>4, PushMoves DEF Push, StaysInLedger, Accepted
  <2> QED BY <1>0, <2>1
<1>5. ASSUME NEW t \in Thread, RemoveBuffer(t) PROVE UNCHANGED Ledger!ledger
  <2>1. Accepted' = Accepted
    <3>1. CASE UNCHANGED <<buffers, held>>
      BY <1>5, <3>1 DEF RemoveBuffer, Accepted, Carried, Buffered, InClose
    <3>2. CASE ~UNCHANGED <<buffers, held>>
      BY <1>5, <3>2, RemoveMoves, HeldMoves DEF Accepted
    <3> QED BY <3>1, <3>2
  <2>2. StaysInLedger /\ phase' = phase
    BY <1>5, <2>1 DEF RemoveBuffer, StaysInLedger
  <2> QED BY <1>0, <2>2
<1>6. CASE FlushAllEnd
  <2>1. /\ OpenSessions = {} /\ (\A w \in Worker : pc[w] = "idle") /\ pc[Sweeper] = "next"
    BY <1>6 DEF FlushAllEnd, Draining, FlushingAll
  <2>2. Carried = {} /\ InClose = {} /\ Buffered = {}
    BY <2>1, ConstantsAssumption
       DEF Inv, Control, Carries, ClosesVictim, CloseStep, Holds, OpenSessions, Thread,
           Carried, InClose, Buffered
  <2>3. Accepted = {} /\ Accepted' = Accepted
    BY <1>6, <2>2 DEF FlushAllEnd, Accepted, Carried, InClose, Buffered
  <2>4. Ledger!Stop
    BY <1>6, <2>3 DEF FlushAllEnd, Ledger!Stop
  <2> QED BY <2>4 DEF Ledger!Next
<1>7. ASSUME OtherStep, ~FlushAllEnd, \A w \in Worker, e \in Event : ~DropEvent(w, e)
      PROVE  UNCHANGED Ledger!ledger
  <2>1. Stays /\ supply' = supply /\ UNCHANGED <<persisted, failed>>
    <3>1. supply' = supply
      BY <1>7 DEF OtherStep, Admit, CheckCap, PopVictim, TouchLru, Unlist, Sweep, SweepBegin,
                  SweepCollect, SweepEnd, CloseNext, FlushAll, FlushAllBegin, Shutdown,
                  StopListeners, CancelSweeper, Tick, vars
    <3> QED BY <1>7, <3>1, OtherStays
  <2>2. StaysInLedger
    BY <2>1 DEF StaysInLedger, Stays, Accepted
  <2>3. phase' = phase \/ "stopped" \notin {phase, phase'}
    BY <1>7 DEF OtherStep, Admit, CheckCap, PopVictim, TouchLru, Unlist, Sweep, SweepBegin,
                SweepCollect, SweepEnd, CloseNext, FlushAll, FlushAllBegin, Shutdown,
                StopListeners, CancelSweeper, Tick, vars
  <2> QED BY <1>0, <2>2, <2>3
<1> QED
  BY <1>1, <1>2, <1>3, <1>4, <1>5, <1>6, <1>7, StepCases DEF Ledger!Next

(* The receiver accepts each event at most once, hands it to the sink in   *)
(* one fragment of its own session, and stops with nothing left.           *)
THEOREM RouterKeepsLedger == Spec => KeepsLedger
<1>1. Inv /\ Place /\ Draining /\ [Next]_vars => (Inv /\ Place /\ Draining)'
  BY InvStep, CrossStep, OnePlaceStep, DrainingStep DEF Place
<1>2. Init => Inv /\ Place /\ Draining
  BY InvInit, PlaceInit, DrainingInit
<1> QED BY <1>1, <1>2, LedgerInit, LedgerStep, PTL DEF Spec, KeepsLedger, Ledger!Spec
-----------------------------------------------------------------------------
(* The cap on events per session.  A push over the cap makes its worker a  *)
(* closer of the session, and a closer stays one until it has removed the  *)
(* buffer, which is empty then.                                            *)
Closing(s) == {w \in Worker : /\ pc[w] \in {"touch", "remove"}
                              /\ job[w].sid = s
                              /\ job[w].reason # "none"}

Bounded(s) == /\ IsFiniteSet(buffers[s].events)
              /\ Cardinality(buffers[s].events) <= MaxEvents + Cardinality(Closing(s))

LEMMA ClosingFinite ==
  \A s \in Session : IsFiniteSet(Closing(s)) /\ Cardinality(Closing(s)) \in Nat
BY WorkersAssumption, FS_Subset, FS_CardinalityType DEF Closing

LEMMA ClosersStay ==
  ASSUME Inv, NEW s \in Session, [Next]_vars,
         \A w \in Worker : Push(w) => SessionOf[ev[w]] # s
  PROVE  \/ buffers'[s].events = {}
         \/ buffers'[s].events = buffers[s].events /\ Closing(s) \subseteq Closing(s)'
<1> DEFINE Kept == buffers'[s].events = buffers[s].events /\ Closing(s) \subseteq Closing(s)'
<1> USE DEF Inv, Control
<1>1. ASSUME NEW t \in Thread, t \notin Closing(s),
             \A u \in Thread \ {t} : UNCHANGED <<pc[u], job[u]>>
      PROVE  Closing(s) \subseteq Closing(s)'
  BY <1>1 DEF Closing, Thread
<1>2. ASSUME NEW w \in Worker, Push(w) PROVE Kept
  <2>1. buffers'[s] = buffers[s]
    BY <1>2 DEF Push, TypeOK
  <2>2. w \in Thread /\ w \notin Closing(s) /\ \A u \in Thread \ {w} : UNCHANGED <<pc[u], job[u]>>
    BY <1>2 DEF Push, TypeOK, Goto, Closing, Thread
  <2> QED BY <1>1, <2>1, <2>2
<1>3. ASSUME NEW t \in Thread, RemoveBuffer(t) PROVE buffers'[s].events = {} \/ Kept
  <2>1. CASE job[t].sid = s
    BY <1>3, <2>1 DEF RemoveBuffer, TypeOK, Holds, Closed
  <2>2. CASE job[t].sid # s
    <3>1. buffers'[s] = buffers[s]
      BY <1>3, <2>2 DEF RemoveBuffer, TypeOK
    <3>2. t \notin Closing(s) /\ \A u \in Thread \ {t} : UNCHANGED <<pc[u], job[u]>>
      BY <1>3, <2>2 DEF RemoveBuffer, TypeOK, Goto, Closing
    <3> QED BY <1>1, <3>1, <3>2
  <2> QED BY <2>1, <2>2
<1>4. ASSUME NEW w \in Worker, TouchLru(w) PROVE Kept
  <2>1. buffers'[s] = buffers[s] /\ w \in Thread
    BY <1>4 DEF TouchLru, Thread
  <2>2. \A u \in Thread \ {w} : UNCHANGED <<pc[u], job[u]>>
    BY <1>4 DEF TouchLru, TypeOK, Goto
  <2>3. CASE w \in Closing(s)
    <3>1. pc'[w] = "remove" /\ job' = job
      BY <1>4, <2>1, <2>3 DEF TouchLru, TypeOK, Goto, Closing
    <3> QED BY <2>1, <2>2, <2>3, <3>1 DEF Closing, Thread
  <2> QED BY <1>1, <2>1, <2>2, <2>3
<1>5. ASSUME NEW w \in Worker, Admit(w) PROVE buffers'[s].events = {} \/ Kept
  <2>1. buffers'[s] = Fresh \/ buffers'[s] = buffers[s]
    BY <1>5 DEF Admit, TypeOK
  <2>2. w \in Thread /\ w \notin Closing(s) /\ \A u \in Thread \ {w} : UNCHANGED <<pc[u], job[u]>>
    BY <1>5 DEF Admit, TypeOK, Goto, Closing, Thread
  <2> QED BY <1>1, <2>1, <2>2 DEF Fresh, Closed
<1>6. ASSUME buffers' = buffers, NEW t \in Thread, pc[t] \notin {"touch", "remove"},
             \A u \in Thread \ {t} : UNCHANGED <<pc[u], job[u]>>
      PROVE  Kept
  BY <1>1, <1>6 DEF Closing
<1>7. ASSUME NEW w \in Worker, NEW e \in Event, DropEvent(w, e) \/ TakeEvent(w, e) PROVE Kept
  <2>1. /\ buffers' = buffers /\ pc[w] \notin {"touch", "remove"} /\ w \in Thread
        /\ \A u \in Thread \ {w} : UNCHANGED <<pc[u], job[u]>>
    BY <1>7 DEF DropEvent, TakeEvent, TypeOK, Goto, Thread
  <2> QED BY <1>6, <2>1
<1>8. ASSUME NEW w \in Worker, CheckCap(w) \/ PopVictim(w) PROVE Kept
  <2>1. /\ buffers' = buffers /\ pc[w] \notin {"touch", "remove"} /\ w \in Thread
        /\ \A u \in Thread \ {w} : UNCHANGED <<pc[u], job[u]>>
    BY <1>8 DEF CheckCap, PopVictim, TypeOK, Goto, Thread
  <2> QED BY <1>6, <2>1
<1>9. ASSUME NEW t \in Thread, Unlist(t) \/ Flush(t) PROVE Kept
  <2>1. /\ buffers' = buffers /\ pc[t] \notin {"touch", "remove"}
        /\ \A u \in Thread \ {t} : UNCHANGED <<pc[u], job[u]>>
    BY <1>9 DEF Unlist, Flush, TypeOK, Goto
  <2> QED BY <1>6, <2>1
<1>10. ASSUME Sweep \/ FlushAll PROVE Kept
  <2>1. /\ buffers' = buffers /\ Sweeper \in Thread /\ Sweeper \notin Worker
        /\ \A u \in Thread \ {Sweeper} : UNCHANGED <<pc[u], job[u]>>
    BY <1>10, ConstantsAssumption
       DEF Sweep, SweepBegin, SweepCollect, SweepEnd, CloseNext,
           FlushAll, FlushAllBegin, FlushAllEnd, TypeOK, Goto, Thread
  <2> QED BY <1>1, <2>1 DEF Closing
<1>11. ASSUME UNCHANGED <<pc, job>>, buffers' = buffers \/ Tick PROVE Kept
  <2>1. buffers'[s].events = buffers[s].events
    BY <1>11 DEF Tick, TypeOK, Buffer
  <2> QED BY <1>11, <2>1 DEF Closing
<1> QED
  BY <1>2, <1>3, <1>4, <1>5, <1>7, <1>8, <1>9, <1>10, <1>11
     DEF Next, Ingest, CloseBuffer, Shutdown, StopListeners, CancelSweeper, Tick, Stopped, vars

(* A push adds one event; over the cap it adds one closer too.             *)
LEMMA PushBounded ==
  ASSUME Inv, NEW w \in Worker, Push(w),
         NEW s \in Session, s = SessionOf[ev[w]], Bounded(s)
  PROVE  Bounded(s)'
<1> USE ConstantsAssumption DEF Inv, Control
<1>1. pc[w] = "push" /\ ev[w] \in Event /\ w \in Thread
  BY DEF Push, TypeOK, Carries, Thread
<1>2. PICK b \in Buffer :
        /\ b = Pushed(buffers[s], ev[w]) /\ b.events = buffers[s].events \cup {ev[w]}
        /\ buffers'[s] = b
        /\ pc'[w] = "touch" /\ job'[w] = [sid |-> s, reason |-> Trigger(b, ev[w])]
        /\ \A v \in Worker \ {w} : UNCHANGED <<pc[v], job[v]>>
  <2>1. Pushed(buffers[s], ev[w]) \in Buffer
    BY <1>1 DEF Pushed, TypeOK, Buffer
  <2>2. Pushed(buffers[s], ev[w]).events = buffers[s].events \cup {ev[w]}
    BY DEF Pushed
  <2>3. buffers'[s] = Pushed(buffers[s], ev[w])
    BY DEF Push, TypeOK
  <2>4. /\ pc'[w] = "touch"
        /\ job'[w] = [sid |-> s, reason |-> Trigger(Pushed(buffers[s], ev[w]), ev[w])]
        /\ \A v \in Worker \ {w} : UNCHANGED <<pc[v], job[v]>>
    BY <1>1 DEF Push, TypeOK, Goto, Thread
  <2> QED BY <2>1, <2>2, <2>3, <2>4
<1>3. /\ IsFiniteSet(buffers[s].events) /\ Cardinality(buffers[s].events) \in Nat
      /\ Cardinality(buffers[s].events) <= MaxEvents + Cardinality(Closing(s))
  BY FS_CardinalityType DEF Bounded
<1>4. /\ IsFiniteSet(b.events) /\ Cardinality(b.events) \in Nat
      /\ Cardinality(b.events) <= Cardinality(buffers[s].events) + 1
  <2> DEFINE S == buffers[s].events
             T == S \cup {ev[w]}
  <2>1. /\ IsFiniteSet(T) /\ (Cardinality(T) = Cardinality(S) \/ Cardinality(T) = Cardinality(S) + 1)
    BY <1>3, FS_AddElement
  <2>2. b.events = T
    BY <1>2
  <2> HIDE DEF T
  <2> QED BY <1>3, <2>1, <2>2
<1>5. /\ IsFiniteSet(Closing(s)) /\ Cardinality(Closing(s)) \in Nat
      /\ IsFiniteSet(Closing(s)') /\ Cardinality(Closing(s)') \in Nat
  BY WorkersAssumption, FS_Subset, FS_CardinalityType DEF Closing
<1>6. ASSUME Cardinality(b.events) <= MaxEvents + Cardinality(Closing(s)') PROVE Bounded(s)'
  BY <1>6, <1>2, <1>4 DEF Bounded
<1>7. CASE Trigger(b, ev[w]) = "none"
  <2>1. b.bytes \in Nat
    BY <1>2 DEF Buffer
  <2>2. ev[w] \notin Ends /\ ~(b.bytes > MaxBytes) /\ ~(Cardinality(b.events) > MaxEvents)
    BY <1>7, <2>1 DEF Trigger
  <2>3. Cardinality(b.events) <= MaxEvents + Cardinality(Closing(s)')
    BY <1>4, <1>5, <2>2
  <2> QED BY <1>6, <2>3
<1>8. CASE Trigger(b, ev[w]) # "none"
  <2>1. w \notin Closing(s) /\ Closing(s) \cup {w} \subseteq Closing(s)'
    BY <1>1, <1>2, <1>8 DEF Closing
  <2>2. /\ IsFiniteSet(Closing(s) \cup {w})
        /\ Cardinality(Closing(s) \cup {w}) = Cardinality(Closing(s)) + 1
    BY <1>5, <2>1, FS_AddElement
  <2>3. Cardinality(Closing(s) \cup {w}) <= Cardinality(Closing(s)')
    BY <1>5, <2>1, FS_Subset
  <2>4. Cardinality(b.events) <= MaxEvents + Cardinality(Closing(s)')
    BY <1>3, <1>4, <1>5, <2>2, <2>3
  <2> QED BY <1>6, <2>4
<1> QED BY <1>7, <1>8

LEMMA BoundedStep ==
  ASSUME Inv, [Next]_vars, NEW s \in Session, Bounded(s)
  PROVE  Bounded(s)'
<1>1. CASE \E w \in Worker : Push(w) /\ SessionOf[ev[w]] = s
  BY <1>1, PushBounded
<1>2. CASE \A w \in Worker : Push(w) => SessionOf[ev[w]] # s
  <2>1. /\ IsFiniteSet(Closing(s)) /\ Cardinality(Closing(s)) \in Nat
        /\ IsFiniteSet(Closing(s)') /\ Cardinality(Closing(s)') \in Nat
    BY WorkersAssumption, FS_Subset, FS_CardinalityType DEF Closing
  <2>2. CASE buffers'[s].events = {}
    BY <2>1, <2>2, FS_EmptySet, ConstantsAssumption DEF Bounded
  <2>3. CASE buffers'[s].events = buffers[s].events /\ Closing(s) \subseteq Closing(s)'
    <3>1. Cardinality(Closing(s)) <= Cardinality(Closing(s)')
      BY <2>1, <2>3, FS_Subset
    <3>2. Cardinality(buffers[s].events) \in Nat
      BY FS_CardinalityType DEF Bounded
    <3> QED BY <2>1, <2>3, <3>1, <3>2, ConstantsAssumption DEF Bounded
  <2> QED BY <1>2, <2>2, <2>3, ClosersStay
<1> QED BY <1>1, <1>2

(* A session holds at most one event over the cap for every worker on its  *)
(* way to close it, however many push at once.                             *)
THEOREM EventCapHolds == Spec => []EventCapOvershoot
<1> DEFINE B == \A s \in Session : Bounded(s)
<1>1. Init => B
  <2> SUFFICES ASSUME Init, NEW s \in Session PROVE Bounded(s)
    OBVIOUS
  <2>1. buffers[s].events = {} /\ Cardinality(Closing(s)) \in Nat
    BY ClosingFinite DEF Init, Closed
  <2> QED BY <2>1, FS_EmptySet, ConstantsAssumption DEF Bounded
<1>2. Inv /\ B /\ [Next]_vars => (Inv /\ B)'
  BY InvStep, BoundedStep
<1>3. B => EventCapOvershoot
  BY DEF Bounded, Closing, EventCapOvershoot
<1> HIDE DEF B
<1> QED BY InvInit, <1>1, <1>2, <1>3, PTL DEF Spec

-----------------------------------------------------------------------------
(* The order of the LRU list with one worker and no sweep.  A session is on *)
(* the move while its place in the list is out of date: after its push, and *)
(* after its buffer was removed.                                            *)
Listed == ToSet(lru)
Own(w) == SessionOf[ev[w]]
Moving == {job[t].sid : t \in {u \in Thread : pc[u] \in {"touch", "unlist"}}}

(* The sweeper has nothing to do before the last request is answered.       *)
OneByOne ==
  /\ phase \in {"cancelled", "stopped"} => \A w \in Worker : pc[w] = "idle"
  /\ pc[Sweeper] # "idle" => phase \in {"cancelled", "stopped"}
  /\ pc[Sweeper] # "collect"

(* List and map differ only by the session at hand.                         *)
AtHand(w) ==
  /\ pc[w] \in {"check", "evict"} => Own(w) \in OpenSessions /\ Listed = OpenSessions \ {Own(w)}
  /\ pc[w] = "evict" => Cardinality(OpenSessions) > MaxOpenSessions
  /\ pc[w] = "push" => Own(w) \in OpenSessions /\ Listed \cup {Own(w)} = OpenSessions
  /\ pc[w] = "touch" => job[w].sid \in OpenSessions /\ Listed \cup {job[w].sid} = OpenSessions
  /\ pc[w] = "remove" => job[w].sid \in OpenSessions
  /\ pc[w] # "unlist_absent"
Victim(w) ==
  ClosesVictim(w) =>
    /\ Own(w) \in OpenSessions /\ job[w].sid # Own(w)
    /\ pc[w] = "remove" => Listed = OpenSessions \ {Own(w), job[w].sid}
    /\ pc[w] # "remove" => Listed = OpenSessions \ {Own(w)} /\ job[w].sid \notin OpenSessions
Removed(t) ==
  /\ pc[t] = "unlist" /\ ~(t \in Worker /\ ClosesVictim(t)) =>
       Listed = OpenSessions \cup {job[t].sid} /\ job[t].sid \notin OpenSessions
  /\ pc[t] = "unlist_absent" => job[t].sid \notin OpenSessions
Settled ==
  (\A t \in Thread : \/ pc[t] \in {"idle", "admit", "next", "done", "unlist_absent"}
                     \/ pc[t] \in {"remove", "flush"} /\ ~(t \in Worker /\ ClosesVictim(t)))
    => Listed = OpenSessions
ListOK == OneByOne /\ (\A w \in Worker : AtHand(w) /\ Victim(w)) /\ (\A t \in Thread : Removed(t)) /\ Settled

(* The list is in the order of the last events, but for who is moving.      *)
Unique(q) == \A i, j \in 1..Len(q) : q[i] = q[j] => i = j
Ranked ==
  \A i, j \in 1..Len(lru) :
    i < j /\ lru[i] \notin Moving /\ lru[j] \notin Moving => buffers[lru[i]].age >= buffers[lru[j]].age
Youngest ==
  \A w \in Worker : pc[w] = "touch" =>
    \A s \in OpenSessions : buffers[s].age >= buffers[job[w].sid].age
OrderOK == Unique(lru) /\ Ranked /\ Youngest

(* One more than the cap is open only until the victim is removed.          *)
CapOK ==
  /\ IsFiniteSet(OpenSessions) /\ Cardinality(OpenSessions) <= MaxOpenSessions + 1
  /\ (\A w \in Worker : pc[w] \notin {"check", "evict"} /\ ~(ClosesVictim(w) /\ pc[w] = "remove")) =>
       Cardinality(OpenSessions) <= MaxOpenSessions

-----------------------------------------------------------------------------
(* Sequences without repetition.                                            *)
LEMMA ToSetIs == ASSUME NEW q PROVE ToSet(q) = {q[i] : i \in DOMAIN q}
  BY DEF ToSet

LEMMA UniqueCounts ==
  ASSUME NEW S, NEW q \in Seq(S), Unique(q)
  PROVE  IsFiniteSet(ToSet(q)) /\ Cardinality(ToSet(q)) = Len(q)
<1>1. ToSet(q) = {q[i] : i \in 1..Len(q)}
  BY ToSetIs
<1>2. IsFiniteSet(1..Len(q)) /\ Cardinality(1..Len(q)) = Len(q)
  <2>1. Len(q) \in Nat
    OBVIOUS
  <2> QED BY <2>1, FS_Interval
<1> DEFINE f == [i \in 1..Len(q) |-> q[i]]
<1>3. ExistsBijection(1..Len(q), ToSet(q))
  <2>1. f \in [1..Len(q) -> ToSet(q)]
    BY <1>1
  <2>2. \A a, b \in 1..Len(q) : a # b => f[a] # f[b]
    BY DEF Unique
  <2>3. \A t \in ToSet(q) : \E a \in 1..Len(q) : f[a] = t
    BY <1>1
  <2>4. f \in Bijection(1..Len(q), ToSet(q))
    BY <2>1, <2>2, <2>3 DEF Bijection, Injection, Surjection, IsInjective
  <2> QED BY <2>4 DEF ExistsBijection
<1> QED BY <1>2, <1>3, FS_Bijection

(* Taking an element out keeps the others in their order.                   *)
Within(r, q) ==
  \A i, j \in 1..Len(r) : i < j => \E k, l \in 1..Len(q) : k < l /\ r[i] = q[k] /\ r[j] = q[l]

LEMMA RemoveAtIs ==
  ASSUME NEW S, NEW q \in Seq(S), NEW k \in 1..Len(q), Unique(q)
  PROVE  LET r == RemoveAt(q, k)
         IN  ToSet(r) = ToSet(q) \ {q[k]} /\ Unique(r) /\ Within(r, q)
<1> DEFINE r == RemoveAt(q, k)
<1>1. SubSeq(q, 1, k - 1) \in Seq(S) /\ Len(SubSeq(q, 1, k - 1)) = k - 1
      /\ \A i \in 1..(k - 1) : SubSeq(q, 1, k - 1)[i] = q[i]
  BY SubSeqProperties
<1>2. SubSeq(q, k + 1, Len(q)) \in Seq(S) /\ Len(SubSeq(q, k + 1, Len(q))) = Len(q) - k
      /\ \A i \in 1..(Len(q) - k) : SubSeq(q, k + 1, Len(q))[i] = q[k + i]
  BY SubSeqProperties
<1>3. r \in Seq(S) /\ Len(r) = Len(q) - 1
      /\ \A i \in 1..Len(r) : r[i] = IF i < k THEN q[i] ELSE q[i + 1]
  <2> DEFINE a == SubSeq(q, 1, k - 1)
             b == SubSeq(q, k + 1, Len(q))
  <2>1. r = a \o b
    BY DEF RemoveAt
  <2> HIDE DEF a, b, r
  <2>2. a \in Seq(S) /\ b \in Seq(S) /\ Len(a) = k - 1 /\ Len(b) = Len(q) - k
    BY <1>1, <1>2 DEF a, b
  <2>3. r \in Seq(S) /\ Len(r) = Len(q) - 1
    BY <2>1, <2>2
  <2>4. ASSUME NEW i \in 1..Len(r) PROVE r[i] = IF i < k THEN q[i] ELSE q[i + 1]
    <3>1. CASE i < k
      <4>1. r[i] = a[i] /\ i \in 1..(k - 1)
        BY <2>1, <2>2, <2>3, <2>4, <3>1
      <4> QED BY <4>1, <3>1, <1>1 DEF a
    <3>2. CASE ~(i < k)
      <4>1. r[i] = b[i - (k - 1)] /\ i - (k - 1) \in 1..(Len(q) - k)
        BY <2>1, <2>2, <2>3, <2>4, <3>2
      <4>2. b[i - (k - 1)] = q[k + (i - (k - 1))]
        BY <4>1, <1>2 DEF b
      <4>3. k + (i - (k - 1)) = i + 1
        OBVIOUS
      <4> QED BY <4>1, <4>2, <4>3, <3>2
    <3> QED BY <3>1, <3>2
  <2> QED BY <2>3, <2>4
<1> HIDE DEF r
<1>4. Unique(r)
  BY <1>3 DEF Unique
<1>5. Within(r, q)
  <2> SUFFICES ASSUME NEW i \in 1..Len(r), NEW j \in 1..Len(r), i < j
               PROVE  \E m, l \in 1..Len(q) : m < l /\ r[i] = q[m] /\ r[j] = q[l]
    BY DEF Within
  <2> DEFINE m == IF i < k THEN i ELSE i + 1
             l == IF j < k THEN j ELSE j + 1
  <2>1. m \in 1..Len(q) /\ l \in 1..Len(q) /\ m < l
    BY <1>3
  <2>2. r[i] = q[m] /\ r[j] = q[l]
    BY <1>3
  <2> QED BY <2>1, <2>2
<1>6. ToSet(r) = ToSet(q) \ {q[k]}
  <2>1. ToSet(r) = {r[i] : i \in 1..Len(r)} /\ ToSet(q) = {q[i] : i \in 1..Len(q)}
    BY ToSetIs, <1>3
  <2>2. ASSUME NEW i \in 1..Len(r) PROVE r[i] \in ToSet(q) \ {q[k]}
    <3> DEFINE m == IF i < k THEN i ELSE i + 1
    <3>1. m \in 1..Len(q) /\ m # k /\ r[i] = q[m]
      BY <1>3
    <3> QED BY <3>1, <2>1 DEF Unique
  <2>3. ASSUME NEW i \in 1..Len(q), q[i] # q[k] PROVE q[i] \in ToSet(r)
    <3> DEFINE m == IF i < k THEN i ELSE i - 1
    <3>1. i # k
      BY <2>3
    <3>2. m \in 1..Len(r) /\ r[m] = q[i]
      BY <3>1, <1>3
    <3> QED BY <3>2, <2>1
  <2> QED BY <2>1, <2>2, <2>3
<1> QED BY <1>4, <1>5, <1>6 DEF r

LEMMA EvictedFromIs ==
  ASSUME NEW S, NEW q \in Seq(S), NEW x, Unique(q)
  PROVE  /\ EvictedFrom(q, x) \in Seq(S)
         /\ ToSet(EvictedFrom(q, x)) = ToSet(q) \ {x}
         /\ Unique(EvictedFrom(q, x)) /\ Within(EvictedFrom(q, x), q)
<1>1. EvictedFrom(q, x) \in Seq(S)
  BY RemoveFirstType DEF EvictedFrom
<1>2. CASE ~\E i \in 1..Len(q) : q[i] = x
  <2>1. EvictedFrom(q, x) = q
    BY <1>2 DEF EvictedFrom, RemoveFirst
  <2>2. ToSet(q) = ToSet(q) \ {x}
    BY <1>2, ToSetIs
  <2>3. Within(q, q)
    BY DEF Within
  <2> QED BY <1>1, <2>1, <2>2, <2>3
<1>3. CASE \E i \in 1..Len(q) : q[i] = x
  <2> DEFINE I == {i \in 1..Len(q) : q[i] = x}
             k == Min(I)
  <2>1. k \in 1..Len(q) /\ q[k] = x
    <3>1. I \subseteq 1..Len(q) /\ I # {}
      BY <1>3
    <3>2. I \subseteq Nat
      OBVIOUS
    <3>3. \A i \in I : i \in 1..Len(q) /\ q[i] = x
      OBVIOUS
    <3> HIDE DEF I
    <3>4. Min(I) \in I
      BY <3>1, <3>2, MinIsMember
    <3> QED BY <3>3, <3>4
  <2>2. EvictedFrom(q, x) = RemoveAt(q, k)
    BY <1>3 DEF EvictedFrom, RemoveFirst, SelectInSeq
  <2> HIDE DEF k
  <2> QED BY <1>1, <2>1, <2>2, RemoveAtIs
<1> QED BY <1>2, <1>3

LEMMA TouchedInIs ==
  ASSUME NEW S, NEW q \in Seq(S), NEW x \in S, Unique(q)
  PROVE  /\ ToSet(TouchedIn(q, x)) = ToSet(q) \cup {x}
         /\ Unique(TouchedIn(q, x))
         /\ \A i, j \in 1..Len(TouchedIn(q, x)) : i < j =>
              \/ TouchedIn(q, x)[i] \in ToSet(q) \ {x} /\ TouchedIn(q, x)[j] = x
              \/ \E k, l \in 1..Len(q) : /\ k < l /\ q[k] # x /\ q[l] # x
                                         /\ TouchedIn(q, x)[i] = q[k] /\ TouchedIn(q, x)[j] = q[l]
<1> DEFINE r == EvictedFrom(q, x)
           u == TouchedIn(q, x)
<1>1. r \in Seq(S) /\ ToSet(r) = ToSet(q) \ {x} /\ Unique(r) /\ Within(r, q)
  BY EvictedFromIs
<1>2. u = Append(r, x)
  BY DEF TouchedIn, EvictedFrom
<1> HIDE DEF r, u
<1>3. u \in Seq(S) /\ Len(u) = Len(r) + 1 /\ u[Len(u)] = x /\ \A i \in 1..Len(r) : u[i] = r[i]
  BY <1>1, <1>2
<1>4. \A i \in 1..Len(r) : u[i] \in ToSet(q) \ {x}
  BY <1>1, <1>3, ToSetIs
<1>5. ToSet(u) = ToSet(q) \cup {x}
  <2>1. ToSet(u) = {u[i] : i \in 1..Len(u)} /\ ToSet(r) = {r[i] : i \in 1..Len(r)}
    BY <1>1, <1>3, ToSetIs
  <2>2. \A i \in 1..Len(u) : u[i] \in ToSet(q) \cup {x}
    BY <1>3, <1>4
  <2>3. ASSUME NEW y \in ToSet(q) \cup {x} PROVE \E i \in 1..Len(u) : u[i] = y
    <3>1. CASE y = x
      BY <3>1, <1>3, <1>1
    <3>2. CASE y # x
      <4>1. PICK i \in 1..Len(r) : r[i] = y
        BY <3>2, <2>1, <1>1
      <4> QED BY <4>1, <1>3, <1>1
    <3> QED BY <3>1, <3>2
  <2> QED BY <2>1, <2>2, <2>3
<1>6. Unique(u)
  <2> SUFFICES ASSUME NEW i \in 1..Len(u), NEW j \in 1..Len(u), u[i] = u[j] PROVE i = j
    BY DEF Unique
  <2>1. CASE i \in 1..Len(r) /\ j \in 1..Len(r)
    BY <2>1, <1>1, <1>3 DEF Unique
  <2>2. CASE ~(i \in 1..Len(r) /\ j \in 1..Len(r))
    <3>1. Len(r) \in Nat
      BY <1>1
    <3>2. i = Len(u) \/ j = Len(u)
      BY <2>2, <3>1, <1>3
    <3>3. \A m \in 1..Len(u) : u[m] = x => m = Len(u)
      BY <3>1, <1>3, <1>4
    <3> QED BY <3>2, <3>3, <1>3
  <2> QED BY <2>1, <2>2
<1>7. ASSUME NEW i \in 1..Len(u), NEW j \in 1..Len(u), i < j
      PROVE  \/ u[i] \in ToSet(q) \ {x} /\ u[j] = x
             \/ \E k, l \in 1..Len(q) : k < l /\ q[k] # x /\ q[l] # x /\ u[i] = q[k] /\ u[j] = q[l]
  <2>1. Len(r) \in Nat /\ i \in 1..Len(r)
    BY <1>1, <1>3, <1>7
  <2>2. CASE j = Len(u)
    BY <2>1, <2>2, <1>3, <1>4
  <2>3. CASE j # Len(u)
    <3>1. j \in 1..Len(r)
      BY <2>1, <2>3, <1>3
    <3>2. PICK k \in 1..Len(q), l \in 1..Len(q) : k < l /\ r[i] = q[k] /\ r[j] = q[l]
      BY <2>1, <3>1, <1>7, <1>1 DEF Within
    <3>3. u[i] = q[k] /\ u[j] = q[l] /\ q[k] # x /\ q[l] # x
      BY <3>1, <3>2, <2>1, <1>3, <1>4
    <3> QED BY <3>2, <3>3
  <2> QED BY <2>2, <2>3
<1> QED BY <1>5, <1>6, <1>7 DEF u

-----------------------------------------------------------------------------
(* With one worker.                                                         *)
LEMMA TwoThreads ==
  ASSUME NEW w, Worker = {w}
  PROVE  Thread = {w, Sweeper} /\ w # Sweeper
  BY ConstantsAssumption DEF Thread

LEMMA MovingIs ==
  ASSUME NEW w, Worker = {w}
  PROVE  /\ Moving = (IF pc[w] \in {"touch", "unlist"} THEN {job[w].sid} ELSE {})
                     \cup (IF pc[Sweeper] \in {"touch", "unlist"} THEN {job[Sweeper].sid} ELSE {})
         /\ Moving' = (IF pc'[w] \in {"touch", "unlist"} THEN {job'[w].sid} ELSE {})
                      \cup (IF pc'[Sweeper] \in {"touch", "unlist"} THEN {job'[Sweeper].sid} ELSE {})
  BY TwoThreads DEF Moving

(* A place that is not out of date is that of an open session.              *)
LEMMA ListedAreOpen ==
  ASSUME NEW w, Worker = {w}, Inv, ListOK
  PROVE  Listed \ Moving \subseteq OpenSessions
<1>1. w \in Worker /\ Thread = {w, Sweeper} /\ w # Sweeper /\ pc[w] \in WorkerStep /\ pc[Sweeper] \in SweeperStep
  BY TwoThreads DEF Inv, Control, Steps
<1>2. CASE pc[w] \in {"check", "evict", "push", "touch"}
  BY <1>1, <1>2, MovingIs DEF ListOK, AtHand
<1>3. CASE pc[w] \in CloseStep /\ ClosesVictim(w)
  BY <1>1, <1>3, MovingIs DEF ListOK, Victim, CloseStep
<1>4. CASE pc[w] = "unlist" /\ ~ClosesVictim(w)
  BY <1>1, <1>4, MovingIs DEF ListOK, Removed
<1>5. CASE pc[Sweeper] = "unlist"
  BY <1>1, <1>5, MovingIs DEF ListOK, Removed
<1>6. CASE /\ pc[w] \in {"idle", "admit", "remove", "flush", "unlist_absent"} /\ ~ClosesVictim(w)
           /\ pc[Sweeper] # "unlist"
  <2>1. pc[Sweeper] \in {"idle", "next", "done", "remove", "flush", "unlist_absent"}
    BY <1>1, <1>6 DEF ListOK, OneByOne, SweeperStep, CloseStep
  <2>2. Listed = OpenSessions
    BY <1>1, <1>6, <2>1, ConstantsAssumption DEF ListOK, Settled
  <2> QED BY <2>2
<1> QED BY <1>1, <1>2, <1>3, <1>4, <1>5, <1>6 DEF WorkerStep, CloseStep, ClosesVictim

(* Who is no longer moving has the age that ranks it.                       *)
LEMMA RankedStays ==
  ASSUME Ranked, Within(lru', lru), lru' \in Seq(Session), lru \in Seq(Session),
         \A s \in ToSet(lru') \ Moving' : s \notin Moving /\ buffers'[s].age = buffers[s].age
  PROVE  Ranked'
<1> SUFFICES ASSUME NEW i \in 1..Len(lru'), NEW j \in 1..Len(lru'), i < j,
                    lru'[i] \notin Moving', lru'[j] \notin Moving'
             PROVE  buffers'[lru'[i]].age >= buffers'[lru'[j]].age
  BY DEF Ranked
<1>1. PICK k \in 1..Len(lru), l \in 1..Len(lru) : k < l /\ lru'[i] = lru[k] /\ lru'[j] = lru[l]
  BY DEF Within
<1>2. lru'[i] \in ToSet(lru') /\ lru'[j] \in ToSet(lru')
  BY ToSetIs
<1> QED BY <1>1, <1>2 DEF Ranked

-----------------------------------------------------------------------------
(* One lemma per step: who is out of place, and in which order.             *)
Base == Inv /\ ListOK /\ OrderOK

LEMMA Functions ==
  ASSUME Inv
  PROVE  /\ pc \in [Thread -> WorkerStep \cup SweeperStep] /\ job \in [Thread -> Job]
         /\ ev \in [Worker -> Event \cup {NoEvent}] /\ buffers \in [Session -> Buffer]
         /\ lru \in Seq(Session) /\ \A s \in Session : buffers[s].age \in Nat /\ buffers[s].open \in BOOLEAN
<1>1. \A s \in Session : buffers[s] \in Buffer
  BY DEF Inv, TypeOK
<1> QED BY <1>1, ConstantsAssumption DEF Inv, TypeOK, Buffer

(* Neither map nor list changes, and nobody starts or stops to move.        *)
LEMMA QuietStep ==
  ASSUME NEW w, Worker = {w}, Base, UNCHANGED <<buffers, lru>>, Moving' = Moving, ListOK',
         pc'[w] = "touch" => pc[w] = "touch" /\ job'[w] = job[w]
  PROVE  ListOK' /\ OrderOK'
<1>1. lru \in Seq(Session)
  BY Functions DEF Base
<1>2. Within(lru', lru)
  BY <1>1 DEF Within
<1>3. Ranked'
  BY <1>1, <1>2, RankedStays DEF Base, OrderOK
<1>4. Youngest'
  BY DEF Base, OrderOK, Youngest, OpenSessions
<1> QED BY <1>3, <1>4 DEF Base, OrderOK, Unique

LEMMA PlaceKept ==
  ASSUME NEW w, Worker = {w}, Base, UNCHANGED <<buffers, lru, pc, ev, job>>,
         OneByOne'
  PROVE  ListOK' /\ OrderOK'
<1>1. Moving' = Moving
  BY DEF Moving
<1>2. ListOK'
  BY DEF Base, ListOK, AtHand, Victim, Removed, Settled, Listed, OpenSessions, Own, ClosesVictim
<1> QED BY <1>1, <1>2, QuietStep

LEMMA TakeStep ==
  ASSUME NEW w, Worker = {w}, Base, NEW e \in Event, TakeEvent(w, e)
  PROVE  ListOK' /\ OrderOK'
<1> USE DEF Base
<1>1. w \in Worker /\ Thread = {w, Sweeper} /\ w # Sweeper
  BY TwoThreads
<1>2. /\ pc[w] = "idle" /\ pc'[w] = "admit" /\ pc'[Sweeper] = pc[Sweeper] /\ pc[Sweeper] = "idle"
      /\ UNCHANGED <<buffers, lru, job, phase>> /\ phase = "serving"
  BY <1>1, Functions DEF TakeEvent, Goto, ListOK, OneByOne
<1>3. Moving' = Moving
  BY <1>2, MovingIs
<1>4. Listed = OpenSessions
  BY <1>1, <1>2 DEF ListOK, Settled
<1>5. ListOK'
  BY <1>1, <1>2, <1>4
     DEF ListOK, OneByOne, AtHand, Victim, Removed, Settled, Listed, OpenSessions, ClosesVictim, CloseStep
<1> QED BY <1>2, <1>3, <1>5, QuietStep

LEMMA CheckStep ==
  ASSUME NEW w, Worker = {w}, Base, CheckCap(w)
  PROVE  ListOK' /\ OrderOK'
<1> USE DEF Base
<1>1. w \in Worker /\ Thread = {w, Sweeper} /\ w # Sweeper
  BY TwoThreads
<1>2. /\ pc[w] = "check" /\ pc'[Sweeper] = pc[Sweeper]
      /\ pc'[w] = IF Cardinality(OpenSessions) > MaxOpenSessions THEN "evict" ELSE "push"
      /\ UNCHANGED <<buffers, lru, ev, job, phase>>
  BY <1>1, Functions DEF CheckCap, Goto
<1>3. Moving' = Moving
  BY <1>2, MovingIs
<1>4. Listed' = Listed /\ OpenSessions' = OpenSessions /\ Own(w)' = Own(w)
  BY <1>2 DEF Listed, OpenSessions, Own
<1>5. ListOK'
  BY <1>1, <1>2, <1>4 DEF ListOK, OneByOne, AtHand, Victim, Removed, Settled, ClosesVictim, CloseStep
<1> QED BY <1>2, <1>3, <1>5, QuietStep

LEMMA FlushStep ==
  ASSUME NEW w, Worker = {w}, Base, NEW t \in Thread, Flush(t)
  PROVE  ListOK' /\ OrderOK'
<1> USE DEF Base
<1>1. w \in Worker /\ Thread = {w, Sweeper} /\ w # Sweeper
  BY TwoThreads
<1>2. /\ pc[t] = "flush" /\ pc'[t] = AfterClose(t) /\ job'[t] = JobAfterClose(t)
      /\ \A u \in Thread \ {t} : pc'[u] = pc[u] /\ job'[u] = job[u]
      /\ UNCHANGED <<buffers, lru, ev, phase>>
  BY <1>1, Functions DEF Flush, Goto
<1>3. Moving' = Moving
  <2>1. pc'[t] \in {"next", "push", "idle"}
    BY <1>2 DEF AfterClose
  <2>2. CASE t = w
    BY <1>1, <1>2, <2>1, <2>2, MovingIs
  <2>3. CASE t = Sweeper
    <3>1. pc'[w] = pc[w] /\ job'[w] = job[w]
      BY <1>1, <1>2, <2>3
    <3>2. pc[Sweeper] = "flush" /\ pc'[Sweeper] \in {"next", "push", "idle"}
      BY <1>2, <2>1, <2>3
    <3> QED BY <3>1, <3>2, MovingIs
  <2> QED BY <1>1, <2>2, <2>3
<1>4. Listed' = Listed /\ OpenSessions' = OpenSessions /\ Own(w)' = Own(w)
  BY <1>2 DEF Listed, OpenSessions, Own
<1>5. CASE t = w
  <2>1. pc[Sweeper] = "idle"
    BY <1>1, <1>2, <1>5 DEF ListOK, OneByOne
  <2>2. CASE ClosesVictim(w)
    <3>1. pc'[w] = "push" /\ Own(w) \in OpenSessions /\ Listed = OpenSessions \ {Own(w)}
      BY <1>1, <1>2, <1>5, <2>2 DEF AfterClose, ClosesVictim, ListOK, Victim
    <3>2. ListOK'
      BY <1>1, <1>2, <1>4, <1>5, <2>1, <3>1
         DEF ListOK, OneByOne, AtHand, Victim, Removed, Settled, ClosesVictim, CloseStep
    <3> QED BY <1>1, <1>2, <1>3, <3>1, <3>2, QuietStep
  <2>3. CASE ~ClosesVictim(w)
    <3>1. pc'[w] = "idle" /\ Listed = OpenSessions
      BY <1>1, <1>2, <1>5, <2>1, <2>3 DEF AfterClose, ClosesVictim, CloseStep, ListOK, Settled
    <3>2. ListOK'
      BY <1>1, <1>2, <1>4, <1>5, <2>1, <3>1
         DEF ListOK, OneByOne, AtHand, Victim, Removed, Settled, ClosesVictim, CloseStep
    <3> QED BY <1>1, <1>2, <1>3, <3>1, <3>2, QuietStep
  <2> QED BY <2>2, <2>3
<1>6. CASE t = Sweeper
  <2>1. pc[w] = "idle" /\ pc'[w] = "idle" /\ pc'[Sweeper] = "next"
    BY <1>1, <1>2, <1>6 DEF ListOK, OneByOne, AfterClose
  <2>2. Listed = OpenSessions
    BY <1>1, <1>2, <1>6, <2>1 DEF ListOK, Settled
  <2>3. ListOK'
    BY <1>1, <1>2, <1>4, <1>6, <2>1, <2>2
       DEF ListOK, OneByOne, AtHand, Victim, Removed, Settled, ClosesVictim, CloseStep
  <2> QED BY <1>1, <1>2, <1>3, <2>1, <2>3, QuietStep
<1> QED BY <1>1, <1>5, <1>6

LEMMA SweeperStepQuiet ==
  ASSUME NEW w, Worker = {w}, Base, FlushAll \/ \E s \in Session : CloseNext(s)
  PROVE  ListOK' /\ OrderOK'
<1> USE DEF Base
<1>1. w \in Worker /\ Thread = {w, Sweeper} /\ w # Sweeper
  BY TwoThreads
<1>2. /\ pc[Sweeper] \in {"idle", "next"} /\ pc'[Sweeper] \in {"next", "remove", "done"}
      /\ pc'[w] = pc[w] /\ job'[w] = job[w]
      /\ UNCHANGED <<buffers, lru, ev>>
      /\ phase \in {"cancelled", "stopped"} /\ phase' \in {"cancelled", "stopped"}
  BY <1>1, Functions DEF FlushAll, FlushAllBegin, FlushAllEnd, CloseNext, Goto, ListOK, OneByOne
<1>3. pc[w] = "idle"
  BY <1>1, <1>2 DEF ListOK, OneByOne
<1>4. Moving' = Moving
  BY <1>2, <1>3, MovingIs
<1>5. Listed' = Listed /\ OpenSessions' = OpenSessions /\ Listed = OpenSessions
  BY <1>1, <1>2, <1>3 DEF Listed, OpenSessions, ListOK, Settled
<1>6. ListOK'
  BY <1>1, <1>2, <1>3, <1>5
     DEF ListOK, OneByOne, AtHand, Victim, Removed, Settled, ClosesVictim, CloseStep
<1> QED BY <1>2, <1>3, <1>4, <1>6, QuietStep

LEMMA AdmitStep ==
  ASSUME NEW w, Worker = {w}, Base, Admit(w)
  PROVE  ListOK' /\ OrderOK'
<1> USE DEF Base
<1> DEFINE s == Own(w)
<1>1. w \in Worker /\ Thread = {w, Sweeper} /\ w # Sweeper
  BY TwoThreads
<1>2. /\ pc[w] = "admit" /\ pc'[Sweeper] = pc[Sweeper] /\ pc[Sweeper] = "idle"
      /\ UNCHANGED <<lru, ev, job, phase>> /\ pc'[w] \in {"check", "push"}
  BY <1>1, Functions DEF Admit, Goto, ListOK, OneByOne
<1>3. Moving' = {} /\ Moving = {}
  BY <1>2, MovingIs
<1>4. Listed = OpenSessions /\ Listed' = Listed /\ Own(w)' = s
  BY <1>1, <1>2 DEF ListOK, Settled, Listed, Own
<1>5. s \in Session
  <2>1. ev[w] # NoEvent /\ SessionOf[ev[w]] # NoSession
    BY <1>1, <1>2 DEF Inv, Control, Carries
  <2> QED BY <1>1, <2>1, Functions, ConstantsAssumption DEF Own
<1>6. CASE buffers[s].open
  <2>1. pc'[w] = "push" /\ UNCHANGED buffers
    BY <1>1, <1>2, <1>6, Functions DEF Admit, Goto, Own
  <2>2. s \in OpenSessions /\ OpenSessions' = OpenSessions
    BY <1>5, <1>6, <2>1 DEF OpenSessions
  <2>3. ListOK'
    BY <1>1, <1>2, <1>4, <2>1, <2>2
       DEF ListOK, OneByOne, AtHand, Victim, Removed, Settled, ClosesVictim, CloseStep
  <2> QED BY <1>2, <1>3, <2>1, <2>3, QuietStep
<1>7. CASE ~buffers[s].open
  <2>1. pc'[w] = "check" /\ buffers' = [buffers EXCEPT ![s] = Fresh]
    BY <1>1, <1>2, <1>7, Functions DEF Admit, Goto, Own
  <2>2. s \notin OpenSessions /\ OpenSessions' = OpenSessions \cup {s}
        /\ \A x \in Session \ {s} : buffers'[x] = buffers[x]
    BY <1>5, <1>7, <2>1, Functions DEF OpenSessions, Fresh, Closed
  <2>3. ListOK'
    BY <1>1, <1>2, <1>4, <2>1, <2>2
       DEF ListOK, OneByOne, AtHand, Victim, Removed, Settled, ClosesVictim, CloseStep
  <2>4. Ranked'
    <3>1. Within(lru', lru) /\ lru \in Seq(Session)
      BY <1>2, Functions DEF Within
    <3>2. \A x \in ToSet(lru') : x \in Session \ {s}
      BY <1>4, <2>2 DEF Listed, OpenSessions
    <3> QED BY <1>2, <1>3, <2>2, <3>1, <3>2, RankedStays DEF OrderOK
  <2> QED BY <1>1, <1>2, <2>1, <2>3, <2>4 DEF OrderOK, Unique, Youngest
<1> QED BY <1>6, <1>7

LEMMA TailIs ==
  ASSUME NEW S, NEW q \in Seq(S), q # <<>>, Unique(q)
  PROVE  /\ Tail(q) \in Seq(S) /\ Head(q) \in S /\ Head(q) = q[1] /\ Len(q) >= 1
         /\ ToSet(Tail(q)) = ToSet(q) \ {Head(q)}
         /\ Unique(Tail(q)) /\ Within(Tail(q), q)
<1> DEFINE r == Tail(q)
<1>1. /\ r \in Seq(S) /\ Len(q) \in Nat /\ Len(q) >= 1 /\ Len(r) = Len(q) - 1
      /\ Head(q) = q[1] /\ q[1] \in S /\ \A i \in 1..Len(r) : r[i] = q[i + 1]
  BY HeadTailProperties
<1> HIDE DEF r
<1>2. Unique(r)
  BY <1>1 DEF Unique
<1>3. Within(r, q)
  <2> SUFFICES ASSUME NEW i \in 1..Len(r), NEW j \in 1..Len(r), i < j
               PROVE  \E k, l \in 1..Len(q) : k < l /\ r[i] = q[k] /\ r[j] = q[l]
    BY DEF Within
  <2>1. i + 1 \in 1..Len(q) /\ j + 1 \in 1..Len(q) /\ i + 1 < j + 1
    BY <1>1
  <2> QED BY <1>1, <2>1
<1>4. ToSet(r) = ToSet(q) \ {q[1]}
  <2>1. ToSet(r) = {r[i] : i \in 1..Len(r)} /\ ToSet(q) = {q[i] : i \in 1..Len(q)}
    BY <1>1, ToSetIs
  <2>2. ASSUME NEW i \in 1..Len(r) PROVE r[i] \in ToSet(q) \ {q[1]}
    <3>1. i + 1 \in 1..Len(q) /\ i + 1 # 1 /\ r[i] = q[i + 1] /\ 1 \in 1..Len(q)
      BY <1>1
    <3> QED BY <2>1, <3>1 DEF Unique
  <2>3. ASSUME NEW i \in 1..Len(q), q[i] # q[1] PROVE q[i] \in ToSet(r)
    <3>1. i - 1 \in 1..Len(r) /\ i - 1 + 1 = i
      BY <1>1, <2>3
    <3>2. r[i - 1] = q[i]
      BY <1>1, <3>1
    <3> QED BY <2>1, <3>1, <3>2
  <2> QED BY <2>1, <2>2, <2>3
<1> QED BY <1>1, <1>2, <1>3, <1>4 DEF r

LEMMA PopStep ==
  ASSUME NEW w, Worker = {w}, Base, PopVictim(w)
  PROVE  ListOK' /\ OrderOK'
<1> USE DEF Base
<1>1. w \in Worker /\ Thread = {w, Sweeper} /\ w # Sweeper
  BY TwoThreads
<1>2. /\ pc[w] = "evict" /\ pc'[Sweeper] = pc[Sweeper] /\ pc[Sweeper] = "idle"
      /\ pc'[w] \in {"push", "remove"} /\ UNCHANGED <<buffers, ev, phase>>
  BY <1>1, Functions DEF PopVictim, Goto, ListOK, OneByOne
<1>3. Moving' = {} /\ Moving = {}
  BY <1>2, MovingIs
<1>4. OpenSessions' = OpenSessions /\ Own(w)' = Own(w)
  BY <1>2 DEF OpenSessions, Own
<1>5. Own(w) \in OpenSessions /\ Listed = OpenSessions \ {Own(w)}
  BY <1>1, <1>2 DEF ListOK, AtHand
<1>6. CASE lru = <<>>
  <2>1. pc'[w] = "push" /\ UNCHANGED <<lru, job>>
    BY <1>1, <1>2, <1>6, Functions DEF PopVictim, Goto
  <2>2. Listed' = Listed
    BY <2>1 DEF Listed
  <2>3. ListOK'
    BY <1>1, <1>2, <1>4, <1>5, <2>1, <2>2
       DEF ListOK, OneByOne, AtHand, Victim, Removed, Settled, ClosesVictim, CloseStep
  <2> QED BY <1>2, <1>3, <2>1, <2>3, QuietStep
<1>7. CASE lru # <<>>
  <2>1. /\ pc'[w] = "remove" /\ lru' = Tail(lru)
        /\ job'[w].sid = Head(lru) /\ job'[w].reason = "CapacityEvict"
    BY <1>1, <1>2, <1>7, Functions DEF PopVictim, Goto
  <2>2. /\ lru' \in Seq(Session) /\ lru \in Seq(Session)
        /\ Listed' = Listed \ {Head(lru)} /\ Unique(lru') /\ Within(lru', lru)
    BY <1>7, <2>1, TailIs, Functions DEF OrderOK, Listed
  <2>3. Head(lru) \in Listed
    <3>1. lru[1] = Head(lru) /\ 1 \in DOMAIN lru
      BY <1>7, <2>2, HeadTailProperties
    <3> QED BY <3>1, ToSetIs DEF Listed
  <2>4. ListOK'
    BY <1>1, <1>2, <1>4, <1>5, <2>1, <2>2, <2>3
       DEF ListOK, OneByOne, AtHand, Victim, Removed, Settled, ClosesVictim, CloseStep
  <2>5. Ranked'
    BY <1>2, <1>3, <2>2, RankedStays DEF OrderOK
  <2> QED BY <1>1, <2>1, <2>2, <2>4, <2>5 DEF OrderOK, Youngest
<1> QED BY <1>6, <1>7

LEMMA PushStep ==
  ASSUME NEW w, Worker = {w}, Base, Push(w)
  PROVE  ListOK' /\ OrderOK' /\ OpenSessions' = OpenSessions
<1> USE DEF Base
<1> DEFINE s == Own(w)
<1>1. w \in Worker /\ Thread = {w, Sweeper} /\ w # Sweeper
  BY TwoThreads
<1>2. /\ pc[w] = "push" /\ pc'[w] = "touch" /\ pc'[Sweeper] = pc[Sweeper] /\ pc[Sweeper] = "idle"
      /\ UNCHANGED <<lru, phase>>
  BY <1>1, Functions DEF Push, Goto, ListOK, OneByOne
<1>3. s \in OpenSessions /\ Listed \cup {s} = OpenSessions /\ Listed' = Listed /\ s \in Session
  BY <1>1, <1>2 DEF ListOK, AtHand, Listed, OpenSessions
<1>4. buffers' = [buffers EXCEPT ![s] = Pushed(buffers[s], ev[w])] /\ job'[w].sid = s
  BY <1>1, Functions DEF Push, Own
<1>5. /\ buffers'[s].age = 0 /\ \A x \in Session \ {s} : buffers'[x] = buffers[x]
      /\ OpenSessions' = OpenSessions
  BY <1>3, <1>4, Functions DEF OpenSessions, Pushed
<1>6. Moving = {} /\ Moving' = {s}
  BY <1>2, <1>4, MovingIs
<1>7. ListOK'
  BY <1>1, <1>2, <1>3, <1>4, <1>5
     DEF ListOK, OneByOne, AtHand, Victim, Removed, Settled, ClosesVictim, CloseStep
<1>8. Ranked'
  <2>1. Within(lru', lru) /\ lru \in Seq(Session)
    BY <1>2, Functions DEF Within
  <2>2. \A x \in ToSet(lru') : x \in Session
    BY <1>3 DEF Listed, OpenSessions
  <2> QED BY <1>2, <1>5, <1>6, <2>1, <2>2, RankedStays DEF OrderOK
<1>9. Youngest'
  <2>1. \A x \in Session : buffers'[x].age >= 0
    BY <1>5, Functions
  <2> QED BY <1>1, <1>4, <1>5, <2>1 DEF Youngest, OpenSessions
<1> QED BY <1>2, <1>5, <1>7, <1>8, <1>9 DEF OrderOK, Unique

LEMMA TouchStep ==
  ASSUME NEW w, Worker = {w}, Base, TouchLru(w)
  PROVE  ListOK' /\ OrderOK'
<1> USE DEF Base
<1> DEFINE s == job[w].sid
<1>1. w \in Worker /\ Thread = {w, Sweeper} /\ w # Sweeper
  BY TwoThreads
<1>2. /\ pc[w] = "touch" /\ pc'[Sweeper] = pc[Sweeper] /\ pc[Sweeper] = "idle"
      /\ (pc'[w] = "idle" \/ (pc'[w] = "remove" /\ job' = job))
      /\ UNCHANGED <<buffers, ev, phase>> /\ lru' = TouchedIn(lru, s)
  BY <1>1, Functions DEF TouchLru, Goto, ListOK, OneByOne
<1>3. s \in OpenSessions /\ Listed \cup {s} = OpenSessions /\ s \in Session
  BY <1>1, <1>2 DEF ListOK, AtHand, OpenSessions
<1>4. lru \in Seq(Session) /\ Unique(lru)
  BY Functions DEF OrderOK
<1>5. Listed' = OpenSessions /\ OpenSessions' = OpenSessions /\ Unique(lru')
  BY <1>2, <1>3, <1>4, TouchedInIs DEF Listed, OpenSessions
<1>6. Moving = {s} /\ Moving' = {}
  BY <1>2, MovingIs
<1>7. job[w].reason # "CapacityEvict"
  BY <1>1, <1>2 DEF Inv, Control, Carries
<1>8. ListOK'
  BY <1>1, <1>2, <1>3, <1>5, <1>7
     DEF ListOK, OneByOne, AtHand, Victim, Removed, Settled, ClosesVictim, CloseStep
<1>9. Ranked'
  <2> SUFFICES ASSUME NEW i \in 1..Len(lru'), NEW j \in 1..Len(lru'), i < j
               PROVE  buffers[lru'[i]].age >= buffers[lru'[j]].age
    BY <1>2 DEF Ranked
  <2>1. CASE lru'[i] \in ToSet(lru) \ {s} /\ lru'[j] = s
    BY <1>1, <1>2, <1>3, <2>1 DEF OrderOK, Youngest, Listed
  <2>2. CASE \E k, l \in 1..Len(lru) : /\ k < l /\ lru[k] # s /\ lru[l] # s
                                       /\ lru'[i] = lru[k] /\ lru'[j] = lru[l]
    BY <1>6, <2>2 DEF OrderOK, Ranked
  <2> QED BY <1>2, <1>3, <1>4, <2>1, <2>2, TouchedInIs
<1> QED BY <1>1, <1>2, <1>5, <1>8, <1>9 DEF OrderOK, Youngest

(* A close that finds its buffer, by either thread: the map loses the       *)
(* session, whose place in the list is then out of date.                    *)
LEMMA RemoveStep ==
  ASSUME NEW w, Worker = {w}, Base, NEW t \in Thread, RemoveBuffer(t)
  PROVE  ListOK' /\ OrderOK'
<1> USE DEF Base
<1> DEFINE s == job[t].sid
<1>1. w \in Worker /\ Thread = {w, Sweeper} /\ w # Sweeper
  BY TwoThreads
<1>2. /\ pc[t] = "remove" /\ pc'[t] \in {"unlist", "unlist_absent"}
      /\ \A u \in Thread \ {t} : pc'[u] = pc[u]
      /\ UNCHANGED <<lru, ev, job, phase>>
  BY Functions DEF RemoveBuffer, Goto
<1>3. /\ t = w => pc[Sweeper] = "idle" /\ pc'[Sweeper] = "idle"
      /\ t = Sweeper => pc[w] = "idle" /\ pc'[w] = "idle"
      /\ OneByOne'
  BY <1>1, <1>2 DEF ListOK, OneByOne
<1>4. s \in Session /\ Moving = {}
  <2>1. s \in Session
    BY <1>1, <1>2 DEF Inv, Control, Closes, CloseStep
  <2>2. Moving = {}
    BY <1>1, <1>2, <1>3, MovingIs
  <2> QED BY <2>1, <2>2
<1>5. Listed' = Listed /\ Own(w)' = Own(w)
  BY <1>2 DEF Listed, Own
<1>6. CASE buffers[s].open
  <2>1. pc'[t] = "unlist" /\ buffers' = [buffers EXCEPT ![s] = Closed]
    BY <1>2, <1>6, Functions DEF RemoveBuffer, Goto
  <2>2. /\ s \in OpenSessions /\ OpenSessions' = OpenSessions \ {s}
        /\ \A x \in Session \ {s} : buffers'[x] = buffers[x]
    BY <1>4, <1>6, <2>1, Functions DEF OpenSessions, Closed
  <2>3. Moving' = {s}
    <3>1. CASE t = w
      BY <1>1, <1>2, <1>3, <2>1, <3>1, MovingIs
    <3>2. CASE t = Sweeper
      BY <1>1, <1>2, <1>3, <2>1, <3>2, MovingIs
    <3> QED BY <1>1, <3>1, <3>2
  <2>4. ListOK'
    <3>1. CASE t = w /\ job[w].reason = "CapacityEvict"
      <4>1. /\ ClosesVictim(w) /\ Own(w) \in OpenSessions /\ s # Own(w)
            /\ Listed = OpenSessions \ {Own(w), s}
        BY <1>1, <1>2, <3>1 DEF ClosesVictim, CloseStep, ListOK, Victim
      <4> QED BY <1>1, <1>2, <1>3, <1>5, <2>1, <2>2, <3>1, <4>1
              DEF ListOK, AtHand, Victim, Removed, Settled, ClosesVictim, CloseStep
    <3>2. CASE ~(t = w /\ job[w].reason = "CapacityEvict")
      <4>1. Listed = OpenSessions
        BY <1>1, <1>2, <1>3, <3>2 DEF ListOK, Settled, ClosesVictim, CloseStep
      <4>2. CASE t = w
        BY <1>1, <1>2, <1>3, <1>5, <2>1, <2>2, <3>2, <4>1, <4>2
           DEF ListOK, AtHand, Victim, Removed, Settled, ClosesVictim, CloseStep
      <4>3. CASE t = Sweeper
        BY <1>1, <1>2, <1>3, <1>5, <2>1, <2>2, <4>1, <4>3
           DEF ListOK, AtHand, Victim, Removed, Settled, ClosesVictim, CloseStep
      <4> QED BY <1>1, <4>2, <4>3
    <3> QED BY <3>1, <3>2
  <2>5. Ranked'
    <3>1. Within(lru', lru) /\ lru \in Seq(Session)
      BY <1>2, Functions DEF Within
    <3>2. \A x \in ToSet(lru') : x \in Session
      BY <1>2, Functions, ToSetIs
    <3> QED BY <1>2, <1>4, <2>2, <2>3, <3>1, <3>2, RankedStays DEF OrderOK
  <2>6. pc'[w] # "touch"
    BY <1>1, <1>2, <1>3
  <2> QED BY <1>1, <1>2, <2>4, <2>5, <2>6 DEF OrderOK, Unique, Youngest
<1>7. CASE ~buffers[s].open
  <2>1. pc'[t] = "unlist_absent" /\ UNCHANGED buffers
    BY <1>2, <1>7, Functions DEF RemoveBuffer, Goto
  <2>2. s \notin OpenSessions /\ OpenSessions' = OpenSessions
    BY <1>7, <2>1 DEF OpenSessions
  <2>3. t = Sweeper
    BY <1>1, <1>2, <2>2 DEF ListOK, AtHand
  <2>4. Moving' = Moving
    BY <1>1, <1>2, <1>3, <1>4, <2>1, <2>3, MovingIs
  <2>5. Listed = OpenSessions
    BY <1>1, <1>2, <1>3, <2>3 DEF ListOK, Settled
  <2>6. ListOK'
    BY <1>1, <1>2, <1>3, <1>5, <2>1, <2>2, <2>3, <2>5
       DEF ListOK, AtHand, Victim, Removed, Settled, ClosesVictim, CloseStep
  <2> QED BY <1>1, <1>2, <1>3, <2>1, <2>3, <2>4, <2>6, QuietStep
<1> QED BY <1>6, <1>7

LEMMA UnlistStep ==
  ASSUME NEW w, Worker = {w}, Base, NEW t \in Thread, Unlist(t)
  PROVE  ListOK' /\ OrderOK'
<1> USE DEF Base
<1> DEFINE s == job[t].sid
<1>1. w \in Worker /\ Thread = {w, Sweeper} /\ w # Sweeper
  BY TwoThreads
<1>2. /\ pc[t] \in {"unlist", "unlist_absent"}
      /\ pc[t] = "unlist" => pc'[t] = "flush" /\ job' = job
      /\ pc[t] = "unlist_absent" => pc'[t] = AfterClose(t)
      /\ \A u \in Thread \ {t} : pc'[u] = pc[u] /\ job'[u] = job[u]
      /\ lru' = EvictedFrom(lru, s) /\ UNCHANGED <<buffers, ev, phase>>
  BY Functions DEF Unlist, Goto
<1>3. /\ t = w => pc[Sweeper] = "idle" /\ pc'[Sweeper] = "idle" /\ pc[w] = "unlist"
      /\ t = Sweeper => pc[w] = "idle" /\ pc'[w] = "idle" /\ pc'[Sweeper] \in {"flush", "next"}
      /\ OneByOne'
  BY <1>1, <1>2 DEF ListOK, OneByOne, AtHand, AfterClose
<1>4. OpenSessions' = OpenSessions /\ Own(w)' = Own(w)
  BY <1>2 DEF OpenSessions, Own
<1>5. /\ lru \in Seq(Session) /\ lru' \in Seq(Session) /\ Unique(lru') /\ Within(lru', lru)
      /\ Listed' = Listed \ {s}
  BY <1>2, Functions, EvictedFromIs DEF OrderOK, Listed
<1>6. Moving \subseteq {s} /\ Moving' = {}
  <2>1. CASE t = w
    BY <1>1, <1>2, <1>3, <2>1, MovingIs
  <2>2. CASE t = Sweeper
    BY <1>1, <1>2, <1>3, <2>2, MovingIs
  <2> QED BY <1>1, <2>1, <2>2
<1>7. s \notin OpenSessions
  <2>1. CASE t = w /\ job[w].reason = "CapacityEvict"
    BY <1>1, <1>3, <2>1 DEF ClosesVictim, CloseStep, ListOK, Victim
  <2>2. CASE ~(t = w /\ job[w].reason = "CapacityEvict")
    BY <1>1, <1>2, <1>3, <2>2 DEF ClosesVictim, ListOK, Removed
  <2> QED BY <2>1, <2>2
<1>8. ListOK'
  <2>1. CASE t = w /\ job[w].reason = "CapacityEvict"
    <3>1. ClosesVictim(w) /\ Own(w) \in OpenSessions /\ s # Own(w) /\ Listed = OpenSessions \ {Own(w)}
      BY <1>1, <1>3, <2>1 DEF ClosesVictim, CloseStep, ListOK, Victim
    <3>2. pc'[w] = "flush" /\ job'[w] = job[w]
      BY <1>2, <1>3, <2>1
    <3> QED BY <1>1, <1>3, <1>4, <1>5, <1>7, <2>1, <3>1, <3>2
            DEF ListOK, AtHand, Victim, Removed, Settled, ClosesVictim, CloseStep
  <2>2. CASE t = w /\ job[w].reason # "CapacityEvict"
    <3>1. Listed = OpenSessions \cup {s}
      BY <1>1, <1>3, <2>2 DEF ClosesVictim, ListOK, Removed
    <3>2. pc'[w] = "flush" /\ job'[w] = job[w] /\ Listed' = OpenSessions
      BY <1>2, <1>3, <1>5, <1>7, <2>2, <3>1
    <3> QED BY <1>1, <1>3, <1>4, <2>2, <3>2
            DEF ListOK, AtHand, Victim, Removed, Settled, ClosesVictim, CloseStep
  <2>3. CASE t = Sweeper
    <3>1. Listed \ {s} = OpenSessions
      <4>1. CASE pc[Sweeper] = "unlist"
        <5>1. Listed = OpenSessions \cup {s}
          BY <1>1, <2>3, <4>1, ConstantsAssumption DEF ListOK, Removed
        <5> QED BY <5>1, <1>7
      <4>2. CASE pc[Sweeper] = "unlist_absent"
        <5>1. Listed = OpenSessions
          BY <1>1, <1>3, <2>3, <4>2 DEF ListOK, Settled
        <5> QED BY <5>1, <1>7
      <4> QED BY <1>2, <2>3, <4>1, <4>2
    <3> QED BY <1>1, <1>3, <1>4, <1>5, <2>3, <3>1
            DEF ListOK, AtHand, Victim, Removed, Settled, ClosesVictim, CloseStep
  <2> QED BY <1>1, <2>1, <2>2, <2>3
<1>9. Ranked'
  <2>1. ToSet(lru') = ToSet(lru) \ {s}
    BY <1>5 DEF Listed
  <2>2. \A x \in ToSet(lru') \ Moving' : x \notin Moving /\ buffers'[x].age = buffers[x].age
    BY <1>2, <1>6, <2>1
  <2> QED BY <1>5, <2>2, RankedStays DEF OrderOK
<1>10. pc'[w] # "touch"
  BY <1>1, <1>2, <1>3
<1> QED BY <1>1, <1>5, <1>8, <1>9, <1>10 DEF OrderOK, Youngest

(* Time passes for every open session alike.                                *)
LEMMA TickStep ==
  ASSUME NEW w, Worker = {w}, Base, Tick
  PROVE  ListOK' /\ OrderOK' /\ OpenSessions' = OpenSessions
<1> USE DEF Base
<1>1. UNCHANGED <<lru, pc, ev, job, phase>>
  BY DEF Tick
<1>2. \A x \in Session : /\ buffers'[x].open = buffers[x].open
                         /\ buffers'[x].age = IF buffers[x].open /\ buffers[x].age <= IdleTimeout
                                              THEN buffers[x].age + 1 ELSE buffers[x].age
  <2> SUFFICES ASSUME NEW x \in Session
               PROVE  /\ buffers'[x].open = buffers[x].open
                      /\ buffers'[x].age = IF buffers[x].open /\ buffers[x].age <= IdleTimeout
                                           THEN buffers[x].age + 1 ELSE buffers[x].age
    OBVIOUS
  <2>1. buffers[x] \in Buffer /\ buffers[x].age \in Nat /\ IdleTimeout \in Nat
    BY Functions, ConstantsAssumption
  <2>2. buffers'[x] = IF buffers[x].open /\ ~(buffers[x].age > IdleTimeout)
                      THEN [buffers[x] EXCEPT !.age = @ + 1] ELSE buffers[x]
    BY DEF Tick, Stale
  <2>3. [buffers[x] EXCEPT !.age = @ + 1].open = buffers[x].open
        /\ [buffers[x] EXCEPT !.age = @ + 1].age = buffers[x].age + 1
    BY <2>1 DEF Buffer
  <2>4. ~(buffers[x].age > IdleTimeout) <=> buffers[x].age <= IdleTimeout
    BY <2>1
  <2> QED BY <2>2, <2>3, <2>4
<1>3. OpenSessions' = OpenSessions
  BY <1>2 DEF OpenSessions
<1>4. \A x, y \in OpenSessions : buffers[x].age >= buffers[y].age => buffers'[x].age >= buffers'[y].age
  <2> SUFFICES ASSUME NEW x \in OpenSessions, NEW y \in OpenSessions, buffers[x].age >= buffers[y].age
               PROVE  buffers'[x].age >= buffers'[y].age
    OBVIOUS
  <2>1. x \in Session /\ y \in Session /\ buffers[x].open /\ buffers[y].open
    BY DEF OpenSessions
  <2>2. buffers[x].age \in Nat /\ buffers[y].age \in Nat /\ IdleTimeout \in Nat
    BY <2>1, Functions, ConstantsAssumption
  <2>3. /\ buffers'[x].age = IF buffers[x].age <= IdleTimeout THEN buffers[x].age + 1 ELSE buffers[x].age
        /\ buffers'[y].age = IF buffers[y].age <= IdleTimeout THEN buffers[y].age + 1 ELSE buffers[y].age
    BY <1>2, <2>1
  <2> QED BY <2>2, <2>3
<1>5. ListOK'
  BY <1>1, <1>3 DEF ListOK, OneByOne, AtHand, Victim, Removed, Settled, Listed, Own, ClosesVictim
<1>6. Moving' = Moving
  BY <1>1 DEF Moving
<1>7. Ranked'
  <2> SUFFICES ASSUME NEW i \in 1..Len(lru), NEW j \in 1..Len(lru), i < j,
                      lru[i] \notin Moving, lru[j] \notin Moving
               PROVE  buffers'[lru[i]].age >= buffers'[lru[j]].age
    BY <1>1, <1>6 DEF Ranked
  <2>1. lru[i] \in OpenSessions /\ lru[j] \in OpenSessions
    <3>1. lru[i] \in Listed /\ lru[j] \in Listed
      BY ToSetIs, Functions DEF Listed
    <3> QED BY <3>1, ListedAreOpen
  <2> QED BY <1>4, <2>1 DEF OrderOK, Ranked
<1>8. Youngest'
  BY <1>1, <1>3, <1>4 DEF OrderOK, Youngest, ListOK, AtHand
<1> QED BY <1>1, <1>3, <1>5, <1>7, <1>8 DEF OrderOK, Unique

(* With one worker and no sweep every step keeps the list in order.         *)
LEMMA OrderStep ==
  ASSUME NEW w, Worker = {w}, Base, [NoSweepNext]_vars
  PROVE  ListOK' /\ OrderOK'
<1>1. w \in Worker
  OBVIOUS
<1>2. ASSUME NEW v \in Worker, Ingest(v) PROVE ListOK' /\ OrderOK'
  <2>1. v = w
    OBVIOUS
  <2>2. ASSUME NEW e \in Event, DropEvent(w, e) PROVE ListOK' /\ OrderOK'
    <3>1. UNCHANGED <<buffers, lru, pc, ev, job>> /\ OneByOne'
      BY <2>2 DEF DropEvent, Base, ListOK, OneByOne
    <3> QED BY <3>1, PlaceKept
  <2> QED BY <1>2, <2>1, <2>2, TakeStep, AdmitStep, CheckStep, PopStep, PushStep, TouchStep DEF Ingest
<1>3. ASSUME NEW t \in Thread, CloseBuffer(t) PROVE ListOK' /\ OrderOK'
  BY <1>3, RemoveStep, UnlistStep, FlushStep DEF CloseBuffer
<1>4. CASE FlushAll \/ \E s \in Session : CloseNext(s)
  BY <1>4, SweeperStepQuiet
<1>5. CASE Shutdown
  <2>1. UNCHANGED <<buffers, lru, pc, ev, job>>
    BY <1>5 DEF Shutdown, StopListeners, CancelSweeper
  <2>2. OneByOne'
    BY <1>5 DEF Shutdown, StopListeners, CancelSweeper, Base, ListOK, OneByOne
  <2> QED BY <2>1, <2>2, PlaceKept
<1>6. CASE UNCHANGED vars
  <2>1. UNCHANGED <<buffers, lru, pc, ev, job>> /\ OneByOne'
    BY <1>6 DEF vars, Base, ListOK, OneByOne
  <2> QED BY <2>1, PlaceKept
<1> QED BY <1>2, <1>3, <1>4, <1>5, <1>6, TickStep DEF NoSweepNext, Stopped

-----------------------------------------------------------------------------
(* How many sessions are open.                                              *)
OverCap(w) == pc[w] \in {"check", "evict"} \/ (ClosesVictim(w) /\ pc[w] = "remove")

LEMMA SameOpen ==
  ASSUME NEW w, Worker = {w}, CapOK, OpenSessions' = OpenSessions,
         OverCap(w)' \/ ~OverCap(w) \/ Cardinality(OpenSessions) <= MaxOpenSessions
  PROVE  CapOK'
  BY DEF CapOK, OverCap

LEMMA CapStep ==
  ASSUME NEW w, Worker = {w}, MaxOpenSessions > 0, Base, CapOK, [NoSweepNext]_vars
  PROVE  CapOK'
<1> USE DEF Base
<1>1. w \in Worker /\ Thread = {w, Sweeper} /\ w # Sweeper /\ MaxOpenSessions \in Nat
  BY TwoThreads, ConstantsAssumption
<1>2. IsFiniteSet(OpenSessions) /\ Cardinality(OpenSessions) \in Nat
  BY FS_CardinalityType DEF CapOK
<1>3. ASSUME NEW e \in Event, DropEvent(w, e) \/ TakeEvent(w, e) PROVE CapOK'
  <2>1. ~OverCap(w) /\ OpenSessions' = OpenSessions
    BY <1>3 DEF DropEvent, TakeEvent, OverCap, ClosesVictim, CloseStep, OpenSessions
  <2> QED BY <2>1, SameOpen
<1>4. CASE Admit(w)
  <2>1. /\ pc[w] = "admit" /\ pc'[w] \in {"check", "push"}
        /\ \/ pc'[w] = "push" /\ UNCHANGED buffers
           \/ /\ pc'[w] = "check" /\ ~buffers[Own(w)].open
              /\ buffers' = [buffers EXCEPT ![Own(w)] = Fresh]
    BY <1>1, <1>4, Functions DEF Admit, Goto, Own
  <2>2. ~OverCap(w) /\ Cardinality(OpenSessions) <= MaxOpenSessions
    BY <1>1, <2>1 DEF OverCap, ClosesVictim, CloseStep, CapOK
  <2>3. CASE UNCHANGED buffers
    BY <2>2, <2>3, SameOpen DEF OpenSessions
  <2>4. CASE /\ pc'[w] = "check" /\ ~buffers[Own(w)].open
             /\ buffers' = [buffers EXCEPT ![Own(w)] = Fresh]
    <3>1. Own(w) \in Session
      <4>1. ev[w] # NoEvent /\ SessionOf[ev[w]] # NoSession
        BY <1>1, <2>1 DEF Inv, Control, Carries
      <4> QED BY <1>1, <4>1, Functions, ConstantsAssumption DEF Own
    <3>2. OpenSessions' = OpenSessions \cup {Own(w)} /\ Own(w) \notin OpenSessions
      BY <2>4, <3>1, Functions DEF OpenSessions, Fresh, Closed
    <3>3. /\ IsFiniteSet(OpenSessions')
          /\ Cardinality(OpenSessions') = Cardinality(OpenSessions) + 1
      BY <1>2, <3>2, FS_AddElement
    <3> QED BY <1>1, <1>2, <2>2, <2>4, <3>3 DEF CapOK
  <2> QED BY <2>1, <2>3, <2>4
<1>5. CASE CheckCap(w)
  <2>1. OpenSessions' = OpenSessions
        /\ pc'[w] = IF Cardinality(OpenSessions) > MaxOpenSessions THEN "evict" ELSE "push"
    BY <1>1, <1>5, Functions DEF CheckCap, Goto, OpenSessions
  <2>2. OverCap(w)' \/ Cardinality(OpenSessions) <= MaxOpenSessions
    BY <1>1, <1>2, <2>1 DEF OverCap
  <2> QED BY <2>1, <2>2, SameOpen
<1>6. CASE PopVictim(w)
  <2>1. OpenSessions' = OpenSessions /\ pc[w] = "evict"
    BY <1>6 DEF PopVictim, OpenSessions
  <2>2. CASE lru = <<>>
    <3>1. Listed = {} /\ Listed = OpenSessions \ {Own(w)} /\ Own(w) \in OpenSessions
      BY <1>1, <2>1, <2>2, ToSetIs DEF ListOK, AtHand, Listed
    <3>2. OpenSessions = {Own(w)}
      BY <3>1
    <3>3. Cardinality(OpenSessions) = 1
      BY <3>2, FS_Singleton
    <3> QED BY <1>1, <2>1, <3>3, SameOpen
  <2>3. CASE lru # <<>>
    <3>1. pc'[w] = "remove" /\ job'[w].reason = "CapacityEvict"
      BY <1>1, <1>6, <2>3, Functions DEF PopVictim, Goto
    <3>2. OverCap(w)'
      BY <3>1 DEF OverCap, ClosesVictim, CloseStep
    <3> QED BY <2>1, <3>2, SameOpen
  <2> QED BY <2>2, <2>3
<1>7. CASE Push(w)
  <2>1. ~OverCap(w)
    BY <1>7 DEF Push, OverCap, ClosesVictim, CloseStep
  <2> QED BY <1>7, <2>1, PushStep, SameOpen
<1>8. CASE TouchLru(w)
  BY <1>8, SameOpen DEF TouchLru, OverCap, ClosesVictim, CloseStep, OpenSessions
<1>9. ASSUME NEW t \in Thread, RemoveBuffer(t) PROVE CapOK'
  <2>1. /\ pc[t] = "remove" /\ pc'[t] \in {"unlist", "unlist_absent"}
        /\ \A u \in Thread \ {t} : pc'[u] = pc[u]
        /\ job[t].sid \in Session
    <3>1. /\ pc[t] = "remove" /\ pc'[t] \in {"unlist", "unlist_absent"}
          /\ \A u \in Thread \ {t} : pc'[u] = pc[u]
      BY <1>9, Functions DEF RemoveBuffer, Goto
    <3>2. job[t].sid \in Session
      BY <1>1, <3>1 DEF Inv, Control, Closes, CloseStep
    <3> QED BY <3>1, <3>2
  <2>2. t = Sweeper => pc[w] = "idle" /\ pc'[w] = "idle"
    BY <1>1, <2>1 DEF ListOK, OneByOne
  <2>3. CASE buffers[job[t].sid].open
    <3>1. buffers' = [buffers EXCEPT ![job[t].sid] = Closed]
      BY <1>9, <2>3 DEF RemoveBuffer
    <3>2. job[t].sid \in OpenSessions /\ OpenSessions' = OpenSessions \ {job[t].sid}
      BY <2>1, <2>3, <3>1, Functions DEF OpenSessions, Closed
    <3>3. /\ IsFiniteSet(OpenSessions')
          /\ Cardinality(OpenSessions') = Cardinality(OpenSessions) - 1
      BY <1>2, <3>2, FS_RemoveElement
    <3> QED BY <1>1, <1>2, <3>3 DEF CapOK
  <2>4. CASE ~buffers[job[t].sid].open
    <3>1. UNCHANGED buffers /\ job[t].sid \notin OpenSessions
      BY <1>9, <2>4 DEF RemoveBuffer, OpenSessions
    <3>2. t = Sweeper
      BY <1>1, <2>1, <3>1 DEF ListOK, AtHand
    <3>3. OpenSessions' = OpenSessions /\ ~OverCap(w)
      BY <2>2, <3>1, <3>2 DEF OpenSessions, OverCap, ClosesVictim, CloseStep
    <3> QED BY <3>3, SameOpen
  <2> QED BY <2>3, <2>4
<1>10. ASSUME NEW t \in Thread, Unlist(t) \/ Flush(t) PROVE CapOK'
  <2>1. OpenSessions' = OpenSessions /\ pc[t] \in {"unlist", "unlist_absent", "flush"}
    BY <1>10 DEF Unlist, Flush, OpenSessions
  <2>2. ~OverCap(w)
    <3>1. t = Sweeper => pc[w] = "idle"
      BY <1>1, <2>1 DEF ListOK, OneByOne
    <3> QED BY <1>1, <2>1, <3>1 DEF OverCap, ClosesVictim, CloseStep
  <2> QED BY <2>1, <2>2, SameOpen
<1>11. CASE FlushAll \/ \E s \in Session : CloseNext(s)
  <2>1. pc[Sweeper] = "next" \/ phase = "cancelled"
    BY <1>11 DEF FlushAll, FlushAllBegin, FlushAllEnd, CloseNext
  <2>2. OpenSessions' = OpenSessions
    BY <1>11 DEF FlushAll, FlushAllBegin, FlushAllEnd, CloseNext, OpenSessions
  <2>3. pc[w] = "idle"
    BY <1>1, <2>1 DEF ListOK, OneByOne
  <2>4. ~OverCap(w)
    BY <2>3 DEF OverCap, ClosesVictim, CloseStep
  <2> QED BY <2>2, <2>4, SameOpen
<1>12. CASE Tick
  <2>1. OverCap(w)' = OverCap(w)
    BY <1>12 DEF Tick, OverCap, ClosesVictim
  <2> QED BY <1>12, <2>1, TickStep, SameOpen
<1>13. CASE Shutdown \/ UNCHANGED vars
  <2>1. OpenSessions' = OpenSessions /\ OverCap(w)' = OverCap(w)
    BY <1>13 DEF Shutdown, StopListeners, CancelSweeper, vars, OverCap, ClosesVictim, OpenSessions
  <2> QED BY <2>1, SameOpen
<1> QED BY <1>1, <1>3, <1>4, <1>5, <1>6, <1>7, <1>8, <1>9, <1>10, <1>11, <1>12, <1>13
        DEF NoSweepNext, Ingest, CloseBuffer, Stopped

-----------------------------------------------------------------------------
(* The invariant of the half without a sweep.                               *)
RestInv == Inv /\ alone \in BOOLEAN /\ (alone => ListOK /\ OrderOK)

LEMMA RestIsNext == [RestNext]_restVars => [Next]_vars
  BY DEF RestNext, NoSweepNext, Next, Sweep, restVars

LEMMA RestInitial ==
  ASSUME RestInit
  PROVE  RestInv /\ CapOK
<1>1. Init /\ alone \in BOOLEAN /\ Inv
  BY InvInit DEF RestInit
<1>2. OpenSessions = {} /\ Listed = {} /\ \A t \in Thread : pc[t] = "idle"
  <2>1. OpenSessions = {}
    BY <1>1 DEF Init, Closed, OpenSessions
  <2>2. Listed = {}
    BY <1>1, ToSetIs DEF Init, Listed
  <2> QED BY <1>1, <2>1, <2>2 DEF Init
<1>3. ListOK
  BY <1>1, <1>2 DEF Init, Thread, ListOK, OneByOne, AtHand, Victim, Removed, Settled, ClosesVictim, CloseStep
<1>4. OrderOK
  BY <1>1, <1>2 DEF Init, Thread, OrderOK, Unique, Ranked, Youngest
<1>5. CapOK
  BY <1>2, FS_EmptySet, ConstantsAssumption DEF CapOK
<1> QED BY <1>1, <1>3, <1>4, <1>5 DEF RestInv

LEMMA RestInvStep ==
  ASSUME NEW w, Worker = {w}, RestInv, [RestNext]_restVars
  PROVE  RestInv'
<1>1. Inv' /\ alone' = alone
  BY RestIsNext, InvStep DEF RestInv, RestNext, restVars
<1>2. CASE alone
  <2>1. Base /\ [NoSweepNext]_vars
    BY <1>2 DEF RestInv, Base, RestNext, restVars
  <2> QED BY <1>1, <1>2, <2>1, OrderStep DEF RestInv
<1> QED BY <1>1, <1>2 DEF RestInv

(* With one worker and no sweep, and a cap of at least one, the LRU list    *)
(* names exactly the open buffers between two requests and the cap holds,   *)
(* for any sessions and events.                                             *)
THEOREM LruStaysFaithful ==
  ASSUME NEW w, Worker = {w}, MaxOpenSessions > 0
  PROVE  RestSpec => []LruIsFaithful
<1> DEFINE I == RestInv /\ (alone => CapOK)
<1>1. RestInit => I
  BY RestInitial
<1>2. I /\ [RestNext]_restVars => I'
  <2> SUFFICES ASSUME I, [RestNext]_restVars PROVE I'
    OBVIOUS
  <2>1. RestInv' /\ alone' = alone
    BY RestInvStep DEF RestNext, restVars
  <2>2. ASSUME alone PROVE CapOK'
    <3>1. Base /\ CapOK /\ [NoSweepNext]_vars
      BY <2>2 DEF RestInv, Base, RestNext, restVars
    <3> QED BY <3>1, CapStep
  <2> QED BY <2>1, <2>2
<1>3. I => LruIsFaithful
  <2> SUFFICES ASSUME I, alone, Quiescent
               PROVE  /\ Cardinality(OpenSessions) <= MaxOpenSessions
                      /\ ToSet(lru) = OpenSessions /\ Len(lru) = Cardinality(OpenSessions)
    BY DEF LruIsFaithful, CapAtRest, LruMirrorsBuffers
  <2>1. Inv /\ ListOK /\ OrderOK /\ CapOK
    BY DEF RestInv
  <2>2. ToSet(lru) = OpenSessions
    BY <2>1 DEF Quiescent, ListOK, Settled, Listed
  <2>3. Cardinality(OpenSessions) <= MaxOpenSessions
    BY <2>1 DEF Quiescent, Thread, CapOK, ClosesVictim, CloseStep
  <2>4. Cardinality(ToSet(lru)) = Len(lru)
    <3>1. lru \in Seq(Session) /\ Unique(lru)
      BY <2>1, Functions DEF OrderOK
    <3> QED BY <3>1, UniqueCounts
  <2> QED BY <2>2, <2>3, <2>4
<1> HIDE DEF I
<1> QED BY <1>1, <1>2, <1>3, PTL DEF RestSpec

(* With one worker and no sweep the victim of the cap is, among the other   *)
(* open sessions, one whose last event is the oldest, whatever the cap.     *)
THEOREM VictimStaysOldest ==
  ASSUME NEW w, Worker = {w}
  PROVE  RestSpec => VictimIsOldest
<1>1. RestInit => RestInv
  BY RestInitial
<1>2. RestInv /\ [RestNext]_restVars => RestInv'
  BY RestInvStep
<1>3. RestInv /\ [RestNext]_restVars => [alone => EvictsOldest]_vars
  <2> SUFFICES ASSUME RestInv, alone, [NoSweepNext]_vars, pc[w] = "evict", pc'[w] = "remove",
                      NEW s \in OpenSessions \ {Own(w)}
               PROVE  buffers[job'[w].sid].age >= buffers[s].age
    BY DEF RestNext, restVars, EvictsOldest, Own
  <2>1. Base /\ w \in Worker /\ Thread = {w, Sweeper} /\ w # Sweeper
    BY TwoThreads DEF RestInv, Base
  <2>2. PopVictim(w)
    <3>1. pc[Sweeper] = "idle" /\ phase \notin {"cancelled", "stopped"}
      BY <2>1 DEF Base, ListOK, OneByOne
    <3>2. ~\E t \in Thread : CloseBuffer(t)
      <4>1. ASSUME NEW t \in Thread PROVE pc[t] \notin CloseStep
        BY <2>1, <3>1 DEF CloseStep
      <4> QED BY <4>1 DEF CloseBuffer, RemoveBuffer, Unlist, Flush, CloseStep
    <3>3. ~(FlushAll \/ (\E x \in Session : CloseNext(x)) \/ Stopped)
      BY <3>1 DEF FlushAll, FlushAllBegin, FlushAllEnd, CloseNext, Stopped
    <3>4. ~(Shutdown \/ Tick \/ UNCHANGED vars)
      BY DEF Shutdown, StopListeners, CancelSweeper, Tick, vars
    <3>5. Ingest(w)
      BY <2>1, <3>2, <3>3, <3>4 DEF NoSweepNext
    <3> QED BY <3>5 DEF Ingest, DropEvent, TakeEvent, Admit, CheckCap, Push, TouchLru
  <2>3. lru # <<>> /\ job'[w].sid = Head(lru)
    BY <2>1, <2>2, Functions DEF Base, PopVictim, Goto
  <2>4. lru \in Seq(Session) /\ Head(lru) = lru[1] /\ 1 \in 1..Len(lru)
    BY <2>1, <2>3, Functions, HeadTailProperties DEF Base
  <2>5. Moving = {} /\ s \in Listed
    <3>1. pc[Sweeper] = "idle"
      BY <2>1 DEF Base, ListOK, OneByOne
    <3>2. Moving = {}
      BY <3>1, MovingIs
    <3>3. Listed = OpenSessions \ {Own(w)}
      BY <2>1 DEF Base, ListOK, AtHand
    <3> QED BY <3>2, <3>3
  <2>6. PICK j \in 1..Len(lru) : s = lru[j]
    BY <2>4, <2>5, ToSetIs DEF Listed
  <2>7. CASE j = 1
    <3>1. buffers[s].age \in Nat
      BY <2>1, Functions DEF Base, OpenSessions
    <3> QED BY <2>3, <2>4, <2>6, <2>7, <3>1
  <2>8. CASE j # 1
    <3>1. 1 < j
      BY <2>4, <2>8
    <3> QED BY <2>1, <2>3, <2>4, <2>5, <2>6, <3>1 DEF Base, OrderOK, Ranked
  <2> QED BY <2>7, <2>8
<1> QED BY <1>1, <1>2, <1>3, PTL DEF RestSpec, VictimIsOldest
=============================================================================
