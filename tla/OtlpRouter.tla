----------------------------- MODULE OtlpRouter -----------------------------
(***************************************************************************)
(* The session router of the OTLP receiver (otlp/router.rs), the sweeper   *)
(* task that drives its time-based flushes (otlp/sweeper.rs), the storage  *)
(* sink at its end (otlp/sink_storage.rs) and the clean shutdown order of  *)
(* `agentprof ingest-otlp` (cmd/ingest_otlp.rs).                           *)
(*                                                                         *)
(* A worker is one thread running SessionRouter::ingest for one request.   *)
(* A step of a thread is what it does under one lock: a shard of the       *)
(* `buffers` DashMap, the `lru` mutex, or the database mutex.              *)
(***************************************************************************)
EXTENDS Integers, Sequences, FiniteSets, SequencesExt

CONSTANTS
  Session,          \* session ids
  Event,            \* the events clients send, each one a distinct value
  SessionOf,        \* [Event -> Session \cup {NoSession}]
  Ends,             \* the events that are SessionEnd
  Bytes,            \* [Event -> Nat], estimate_bytes of an event
  NoSession, NoEvent,
  Worker,           \* threads that run ingest
  Sweeper,          \* the thread of the sweeper task
  MaxOpenSessions, MaxEvents, MaxBytes, IdleTimeout,  \* SessionBufferCaps
  SinkMayFail       \* whether the database may refuse a write

ASSUME ConstantsAssumption ==
  /\ SessionOf \in [Event -> Session \cup {NoSession}]
  /\ Bytes \in [Event -> Nat]
  /\ Ends \subseteq Event
  /\ NoSession \notin Session
  /\ NoEvent \notin Event
  /\ Sweeper \notin Worker
  /\ MaxOpenSessions \in Nat /\ MaxEvents \in Nat
  /\ MaxBytes \in Nat /\ IdleTimeout \in Nat
  /\ SinkMayFail \in BOOLEAN

(* The runtime has finitely many threads.                                  *)
ASSUME WorkersAssumption == IsFiniteSet(Worker)

VARIABLES
  supply,     \* events not yet taken by a worker
  buffers,    \* the DashMap: one SessionBuffer per session, open or not
  lru,        \* the LRU index, oldest session first
  pc,         \* where each thread is
  ev,         \* the event a worker has taken and not yet pushed
  job,        \* the close a thread is to run: its session and CloseReason
  held,       \* the events of the buffer a thread removed and not yet flushed
  todo,       \* the sessions the sweeper has listed and not yet closed
  row,        \* per session, the events the stored report was computed from
  persisted,  \* events that were in some committed write
  failed,     \* events that were in a write the database refused
  phase       \* the lifecycle of the receiver

vars == <<supply, buffers, lru, pc, ev, job, held, todo, row, persisted, failed, phase>>

Thread == Worker \cup {Sweeper}

CloseReason == {"ExplicitEnd", "OomBytes", "OomEvents", "Idle", "Shutdown", "CapacityEvict"}

Job == [sid : Session \cup {NoSession}, reason : CloseReason \cup {"none"}]
NoJob == [sid |-> NoSession, reason |-> "none"]

(* `age` is now - last_seen, counted in ticks up to the first value that   *)
(* exceeds the idle timeout.                                               *)
Buffer == [open : BOOLEAN, events : SUBSET Event, bytes : Nat, age : 0..(IdleTimeout + 1)]
Closed == [open |-> FALSE, events |-> {}, bytes |-> 0, age |-> 0]
Fresh == [Closed EXCEPT !.open = TRUE]

OpenSessions == {s \in Session : buffers[s].open}
Stale(s) == buffers[s].open /\ buffers[s].age > IdleTimeout

(* Definitions named Wrong... are plausible mistakes in the definition they *)
(* precede; nothing but a mutation run uses them.                          *)

WrongPushedReopens(b, e) ==
  [open |-> TRUE, events |-> {e}, bytes |-> Bytes[e], age |-> 0]
(* SessionBuffer::push, on the buffer of the event's session. *)
Pushed(b, e) == [open   |-> TRUE,
                 events |-> b.events \cup {e},
                 bytes  |-> b.bytes + Bytes[e],
                 age    |-> 0]

WrongTriggerNoEnd(b, e) == IF b.bytes > MaxBytes THEN "OomBytes"
                           ELSE IF Cardinality(b.events) > MaxEvents
                                THEN "OomEvents" ELSE "none"
WrongTriggerAtExactLimit(b, e) ==
  IF e \in Ends THEN "ExplicitEnd"
  ELSE IF Cardinality(b.events) = MaxEvents + 1 THEN "OomEvents" ELSE "none"

(* The immediate close triggers of ingest, in their order of priority. *)
Trigger(b, e) == CASE e \in Ends                       -> "ExplicitEnd"
                   [] e \notin Ends /\ b.bytes > MaxBytes -> "OomBytes"
                   [] e \notin Ends /\ b.bytes <= MaxBytes
                        /\ Cardinality(b.events) > MaxEvents -> "OomEvents"
                   [] OTHER                            -> "none"

WrongEvictedFrom(queue, s) == queue
WrongTouchedIn(queue, s) == IF Contains(queue, s) THEN queue ELSE Append(queue, s)
(* evict_from_lru; touch_lru also appends the session. *)
EvictedFrom(queue, s) == RemoveFirst(queue, s)
TouchedIn(queue, s) == Append(RemoveFirst(queue, s), s)

Init ==
  /\ supply = Event
  /\ buffers = [s \in Session |-> Closed]
  /\ lru = <<>>
  /\ pc = [t \in Thread |-> "idle"]
  /\ ev = [w \in Worker |-> NoEvent]
  /\ job = [t \in Thread |-> NoJob]
  /\ held = [t \in Thread |-> {}]
  /\ todo = {}
  /\ row = [s \in Session |-> {}]
  /\ persisted = {}
  /\ failed = {}
  /\ phase = "serving"

CloseStep == {"remove", "unlist", "unlist_absent", "flush"}
WorkerStep == {"idle", "admit", "check", "evict", "push", "touch"} \cup CloseStep
SweeperStep == {"idle", "collect", "next", "done"} \cup CloseStep

Goto(t, label) == pc' = [pc EXCEPT ![t] = label]

-----------------------------------------------------------------------------
(* SessionRouter::ingest, one event at a time. *)

(* A mapper error, or an event without a session id, is dropped. *)
DropEvent(w, e) ==
  /\ phase = "serving"
  /\ pc[w] = "idle"
  /\ e \in supply
  /\ SessionOf[e] = NoSession
  /\ supply' = supply \ {e}
  /\ UNCHANGED <<buffers, lru, pc, ev, job, held, todo, row, persisted, failed, phase>>

TakeEvent(w, e) ==
  /\ phase = "serving"
  /\ pc[w] = "idle"
  /\ e \in supply
  /\ SessionOf[e] # NoSession
  /\ supply' = supply \ {e}
  /\ ev' = [ev EXCEPT ![w] = e]
  /\ Goto(w, "admit")
  /\ UNCHANGED <<buffers, lru, job, held, todo, row, persisted, failed, phase>>

(* Under the shard lock: open an empty buffer if there is none. *)
Admit(w) ==
  LET s == SessionOf[ev[w]] IN
  /\ pc[w] = "admit"
  /\ \/ /\ ~buffers[s].open
        /\ buffers' = [buffers EXCEPT ![s] = Fresh]
        /\ Goto(w, "check")
     \/ /\ buffers[s].open
        /\ Goto(w, "push")
        /\ UNCHANGED buffers
  /\ UNCHANGED <<supply, lru, ev, job, held, todo, row, persisted, failed, phase>>

(* After an admission: is the router over its cap?  No lock is held. *)
CheckCap(w) ==
  /\ pc[w] = "check"
  /\ Goto(w, IF Cardinality(OpenSessions) > MaxOpenSessions THEN "evict" ELSE "push")
  /\ UNCHANGED <<supply, buffers, lru, ev, job, held, todo, row, persisted, failed, phase>>

(* Under the LRU lock: take the oldest session, if any, as the victim. *)
PopVictim(w) ==
  /\ pc[w] = "evict"
  /\ \/ /\ lru = <<>>
        /\ Goto(w, "push")
        /\ UNCHANGED <<lru, job>>
     \/ /\ lru # <<>>
        /\ lru' = Tail(lru)
        /\ job' = [job EXCEPT ![w] = [sid |-> Head(lru), reason |-> "CapacityEvict"]]
        /\ Goto(w, "remove")
  /\ UNCHANGED <<supply, buffers, ev, held, todo, row, persisted, failed, phase>>

(* Under the shard lock: push into the buffer, opening one again if it was *)
(* removed since the admission, and decide whether to close it.            *)
Push(w) ==
  LET s == SessionOf[ev[w]]
      b == Pushed(buffers[s], ev[w])
  IN
  /\ pc[w] = "push"
  /\ buffers' = [buffers EXCEPT ![s] = b]
  /\ job' = [job EXCEPT ![w] = [sid |-> s, reason |-> Trigger(b, ev[w])]]
  /\ ev' = [ev EXCEPT ![w] = NoEvent]
  /\ Goto(w, "touch")
  /\ UNCHANGED <<supply, lru, held, todo, row, persisted, failed, phase>>

(* Under the LRU lock. *)
TouchLru(w) ==
  /\ pc[w] = "touch"
  /\ lru' = TouchedIn(lru, job[w].sid)
  /\ \/ /\ job[w].reason = "none"
        /\ Goto(w, "idle")
        /\ job' = [job EXCEPT ![w] = NoJob]
     \/ /\ job[w].reason # "none"
        /\ Goto(w, "remove")
        /\ UNCHANGED job
  /\ UNCHANGED <<supply, buffers, ev, held, todo, row, persisted, failed, phase>>

-----------------------------------------------------------------------------
(* SessionRouter::close_buffer, run by any thread for its job. *)

(* Where close_buffer returns to. *)
AfterClose(t) == IF t = Sweeper THEN "next"
                 ELSE IF job[t].reason = "CapacityEvict" THEN "push" ELSE "idle"
JobAfterClose(t) == IF t = Sweeper THEN [job[t] EXCEPT !.sid = NoSession] ELSE NoJob

WrongRemoveBufferByCopy(t) ==
  LET s == job[t].sid IN
  /\ pc[t] = "remove"
  /\ held' = [held EXCEPT ![t] = buffers[s].events]
  /\ Goto(t, "unlist")
  /\ UNCHANGED <<supply, buffers, lru, ev, job, todo, row, persisted, failed, phase>>

(* buffers.remove, under the shard lock. *)
RemoveBuffer(t) ==
  LET s == job[t].sid IN
  /\ pc[t] = "remove"
  /\ \/ /\ buffers[s].open
        /\ held' = [held EXCEPT ![t] = buffers[s].events]
        /\ buffers' = [buffers EXCEPT ![s] = Closed]
        /\ Goto(t, "unlist")
     \/ /\ ~buffers[s].open
        /\ Goto(t, "unlist_absent")
        /\ UNCHANGED <<held, buffers>>
  /\ UNCHANGED <<supply, lru, ev, job, todo, row, persisted, failed, phase>>

(* evict_from_lru, under the LRU lock; with no buffer the close ends here. *)
Unlist(t) ==
  /\ \/ /\ pc[t] = "unlist"
        /\ Goto(t, "flush")
        /\ UNCHANGED job
     \/ /\ pc[t] = "unlist_absent"
        /\ Goto(t, AfterClose(t))
        /\ job' = [job EXCEPT ![t] = JobAfterClose(t)]
  /\ lru' = EvictedFrom(lru, job[t].sid)
  /\ UNCHANGED <<supply, buffers, ev, held, todo, row, persisted, failed, phase>>

(* FlushSink::flush: one report is computed from the removed buffer and    *)
(* upserted over the session's row.  An error is only logged.              *)
Flush(t) ==
  /\ pc[t] = "flush"
  /\ \/ /\ row' = [row EXCEPT ![job[t].sid] = held[t]]
        /\ persisted' = persisted \cup held[t]
        /\ UNCHANGED failed
     \/ /\ SinkMayFail
        /\ failed' = failed \cup held[t]
        /\ UNCHANGED <<row, persisted>>
  /\ held' = [held EXCEPT ![t] = {}]
  /\ Goto(t, AfterClose(t))
  /\ job' = [job EXCEPT ![t] = JobAfterClose(t)]
  /\ UNCHANGED <<supply, buffers, lru, ev, todo, phase>>

-----------------------------------------------------------------------------
(* The sweeper task. *)

(* A tick of its interval: sweep_idle reads the clock and starts to list.  *)
SweepBegin ==
  /\ pc[Sweeper] = "idle"
  /\ phase \in {"serving", "draining"}
  /\ todo' = {s \in Session : Stale(s)}
  /\ Goto(Sweeper, "collect")
  /\ UNCHANGED <<supply, buffers, lru, ev, job, held, row, persisted, failed, phase>>

(* The listing walks the shards one by one: it misses a session that was   *)
(* refreshed or closed before the walk reached it.                         *)
SweepCollect ==
  /\ pc[Sweeper] = "collect"
  /\ \E missed \in SUBSET {s \in todo : ~Stale(s)} : todo' = todo \ missed
  /\ job' = [job EXCEPT ![Sweeper] = [sid |-> NoSession, reason |-> "Idle"]]
  /\ Goto(Sweeper, "next")
  /\ UNCHANGED <<supply, buffers, lru, ev, held, row, persisted, failed, phase>>

WrongCloseNextKeepsListed(s) ==
  /\ pc[Sweeper] = "next"
  /\ s \in todo
  /\ job' = [job EXCEPT ![Sweeper].sid = s]
  /\ Goto(Sweeper, "remove")
  /\ UNCHANGED <<supply, buffers, lru, ev, held, todo, row, persisted, failed, phase>>

(* Both sweep_idle and flush_all close the listed sessions one by one. *)
CloseNext(s) ==
  /\ pc[Sweeper] = "next"
  /\ s \in todo
  /\ todo' = todo \ {s}
  /\ job' = [job EXCEPT ![Sweeper].sid = s]
  /\ Goto(Sweeper, "remove")
  /\ UNCHANGED <<supply, buffers, lru, ev, held, row, persisted, failed, phase>>

WrongSweepEndBreaks ==
  /\ pc[Sweeper] = "next"
  /\ todo = {}
  /\ job[Sweeper].reason = "Idle"
  /\ job' = [job EXCEPT ![Sweeper] = NoJob]
  /\ Goto(Sweeper, "done")
  /\ UNCHANGED <<supply, buffers, lru, ev, held, todo, row, persisted, failed, phase>>

SweepEnd ==
  /\ pc[Sweeper] = "next"
  /\ todo = {}
  /\ job[Sweeper].reason = "Idle"
  /\ job' = [job EXCEPT ![Sweeper] = NoJob]
  /\ Goto(Sweeper, "idle")
  /\ UNCHANGED <<supply, buffers, lru, ev, held, todo, row, persisted, failed, phase>>

(* The cancel branch of the biased select: flush_all(Shutdown). *)
FlushAllBegin ==
  /\ pc[Sweeper] = "idle"
  /\ phase = "cancelled"
  /\ todo' = OpenSessions
  /\ job' = [job EXCEPT ![Sweeper] = [sid |-> NoSession, reason |-> "Shutdown"]]
  /\ Goto(Sweeper, "next")
  /\ UNCHANGED <<supply, buffers, lru, ev, held, row, persisted, failed, phase>>

(* The task ends and SweeperHandle::shutdown returns. *)
FlushAllEnd ==
  /\ pc[Sweeper] = "next"
  /\ todo = {}
  /\ job[Sweeper].reason = "Shutdown"
  /\ job' = [job EXCEPT ![Sweeper] = NoJob]
  /\ Goto(Sweeper, "done")
  /\ phase' = "stopped"
  /\ UNCHANGED <<supply, buffers, lru, ev, held, todo, row, persisted, failed>>

-----------------------------------------------------------------------------
(* The shutdown order of run_async, and time. *)

(* The listeners are told to stop: no further request is taken. *)
StopListeners ==
  /\ phase = "serving"
  /\ phase' = "draining"
  /\ UNCHANGED <<supply, buffers, lru, pc, ev, job, held, todo, row, persisted, failed>>

WrongCancelSweeperEarly ==
  /\ phase = "draining"
  /\ phase' = "cancelled"
  /\ UNCHANGED <<supply, buffers, lru, pc, ev, job, held, todo, row, persisted, failed>>

(* Both listener tasks are joined, every request is answered; then the     *)
(* sweeper is cancelled.                                                   *)
CancelSweeper ==
  /\ phase = "draining"
  /\ \A w \in Worker : pc[w] = "idle"
  /\ phase' = "cancelled"
  /\ UNCHANGED <<supply, buffers, lru, pc, ev, job, held, todo, row, persisted, failed>>

(* One tick passes for every open buffer. *)
Tick ==
  /\ phase # "stopped"
  /\ \E s \in OpenSessions : ~Stale(s)
  /\ buffers' = [s \in Session |->
                   IF buffers[s].open /\ ~Stale(s)
                   THEN [buffers[s] EXCEPT !.age = @ + 1] ELSE buffers[s]]
  /\ UNCHANGED <<supply, lru, pc, ev, job, held, todo, row, persisted, failed, phase>>

Stopped == phase = "stopped" /\ UNCHANGED vars

-----------------------------------------------------------------------------
Ingest(w) == \/ \E e \in Event : DropEvent(w, e) \/ TakeEvent(w, e)
             \/ Admit(w) \/ CheckCap(w) \/ PopVictim(w) \/ Push(w) \/ TouchLru(w)

CloseBuffer(t) == RemoveBuffer(t) \/ Unlist(t) \/ Flush(t)

Sweep == \/ SweepBegin \/ SweepCollect \/ SweepEnd
         \/ \E s \in Session : CloseNext(s)

FlushAll == FlushAllBegin \/ FlushAllEnd

Shutdown == StopListeners \/ CancelSweeper

Next == \/ \E w \in Worker : Ingest(w)
        \/ \E t \in Thread : CloseBuffer(t)
        \/ Sweep \/ FlushAll \/ Shutdown \/ Tick \/ Stopped

Spec == Init /\ [][Next]_vars

(* A thread that has started does not stop between two locks, time passes, *)
(* and the interval of the sweeper keeps firing.                           *)
Fairness ==
  /\ \A w \in Worker : WF_vars(Admit(w) \/ CheckCap(w) \/ PopVictim(w) \/ Push(w)
                                 \/ TouchLru(w) \/ CloseBuffer(w))
  /\ WF_vars(Sweep \/ FlushAll \/ CloseBuffer(Sweeper))
  /\ WF_vars(CancelSweeper)
  /\ WF_vars(Tick)

FairSpec == Spec /\ Fairness

-----------------------------------------------------------------------------
(* Where an event can be. *)
Carried == {ev[w] : w \in Worker} \ {NoEvent}
Buffered == UNION {buffers[s].events : s \in Session}
InClose == UNION {held[t] : t \in Thread}
Accepted == Carried \cup Buffered \cup InClose
Routable == {e \in Event : SessionOf[e] # NoSession}

(* The variables range over what the types of router.rs allow. *)
TypeOK ==
  /\ supply \subseteq Event
  /\ buffers \in [Session -> Buffer]
  /\ lru \in Seq(Session)
  /\ pc \in [Thread -> WorkerStep \cup SweeperStep]
  /\ ev \in [Worker -> Event \cup {NoEvent}]
  /\ job \in [Thread -> Job]
  /\ held \in [Thread -> SUBSET Event]
  /\ todo \subseteq Session
  /\ row \in [Session -> SUBSET Event]
  /\ persisted \subseteq Event
  /\ failed \subseteq Event
  /\ phase \in {"serving", "draining", "cancelled", "stopped"}

(* What a thread carries, holds and is about to close follows from where   *)
(* it is: an event is carried from the take to the push, a victim's close  *)
(* included, a removed buffer is held until its flush, and a buffer that   *)
(* is not open is empty.                                                   *)
Steps == /\ pc[Sweeper] \in SweeperStep
         /\ \A w \in Worker : pc[w] \in WorkerStep

ClosesVictim(w) == pc[w] \in CloseStep /\ job[w].reason = "CapacityEvict"

Carries == \A w \in Worker :
             /\ ev[w] # NoEvent <=> pc[w] \in {"admit", "check", "evict", "push"} \/ ClosesVictim(w)
             /\ ev[w] # NoEvent => SessionOf[ev[w]] # NoSession
             /\ pc[w] = "touch" => job[w].reason # "CapacityEvict"

Closes == /\ \A w \in Worker : pc[w] \in CloseStep \cup {"touch"} => job[w].sid \in Session
          /\ pc[Sweeper] \in CloseStep => job[Sweeper].sid \in Session

Holds == /\ \A t \in Thread : held[t] # {} => pc[t] \in {"unlist", "flush"}
         /\ \A s \in Session : ~buffers[s].open => buffers[s].events = {}

Control == Steps /\ Carries /\ Closes /\ Holds

(* The workers are out of the way once the sweeper is cancelled, and its   *)
(* final list covers every session that is still open.                     *)
FlushingAll == pc[Sweeper] \in CloseStep \cup {"next"} /\ job[Sweeper].reason = "Shutdown"
Draining ==
  /\ phase \in {"cancelled", "stopped"} => \A w \in Worker : pc[w] = "idle"
  /\ FlushingAll => /\ phase = "cancelled"
                    /\ OpenSessions \subseteq todo \cup
                         (IF pc[Sweeper] = "remove" THEN {job[Sweeper].sid} ELSE {})
  /\ phase = "stopped" <=> pc[Sweeper] = "done"
  /\ phase = "stopped" => OpenSessions = {}

(* However ingest, eviction, sweep and shutdown interleave, every event    *)
(* with a session is still to come, in memory, or was part of a write.     *)
NoEventLost == Routable \subseteq supply \cup Accepted \cup persisted \cup failed

(* An event is in one place only: no two threads flush the same buffer and *)
(* no event is flushed and buffered at once (close_buffer is idempotent).  *)
OnePlace ==
  /\ supply \cap Accepted = {} /\ supply \cap (persisted \cup failed) = {}
  /\ Accepted \cap (persisted \cup failed) = {} /\ persisted \cap failed = {}
  /\ Carried \cap (Buffered \cup InClose) = {} /\ Buffered \cap InClose = {}
  /\ \A w, v \in Worker : w # v /\ ev[w] = ev[v] => ev[w] = NoEvent
  /\ \A t, u \in Thread : t # u => held[t] \cap held[u] = {}

(* What is buffered, removed or stored under a session id came with it,    *)
(* also when a worker closes a victim in the middle of its own event.      *)
NoCrossSession ==
  /\ \A s \in Session : \A e \in buffers[s].events \cup row[s] : SessionOf[e] = s
  /\ \A t \in Thread : \A e \in held[t] : SessionOf[e] = job[t].sid

(* However ingest, eviction, sweep and shutdown interleave, an event that  *)
(* was accepted is in exactly one place of its own session: a buffer, a    *)
(* close under way, or a write to the store.                               *)
EventsAreSafe == NoEventLost /\ OnePlace /\ NoCrossSession

(* A buffer that holds a SessionEnd is about to be closed by the worker    *)
(* that pushed it: an ended session never stays open.                      *)
EndedSessionCloses ==
  \A s \in Session : buffers[s].events \cap Ends # {} =>
    \E w \in Worker : /\ pc[w] \in {"touch", "remove"}
                      /\ job[w] = [sid |-> s, reason |-> "ExplicitEnd"]

(* The cap on events per session is exceeded by at most one event per      *)
(* worker that is on its way to close the session.                         *)
EventCapOvershoot ==
  \A s \in Session :
    Cardinality(buffers[s].events) <=
      MaxEvents + Cardinality({w \in Worker : /\ pc[w] \in {"touch", "remove"}
                                              /\ job[w].sid = s
                                              /\ job[w].reason # "none"})

(* After a clean shutdown nothing that was accepted is left in memory.     *)
DrainedAtStop == phase = "stopped" => Accepted = {} /\ OpenSessions = {}

Quiescent == \A t \in Thread : pc[t] \in {"idle", "done"}

(* Between two operations no more sessions are open than the cap allows.   *)
CapAtRest == Quiescent => Cardinality(OpenSessions) <= MaxOpenSessions

(* Between two operations the LRU index lists the open sessions, once.     *)
LruMirrorsBuffers == Quiescent => /\ ToSet(lru) = OpenSessions
                                  /\ Len(lru) = Cardinality(OpenSessions)

(* The session evicted for capacity is the one seen least recently.        *)
EvictsOldest ==
  \A w \in Worker :
    pc[w] = "evict" /\ pc'[w] = "remove" =>
      \A s \in OpenSessions \ {SessionOf[ev[w]]} : buffers[job'[w].sid].age >= buffers[s].age

(* An acknowledged event is in memory or in the stored report.             *)
AcknowledgedIsKept == Routable \subseteq supply \cup Accepted \cup UNION {row[s] : s \in Session}

(* An event the router has accepted does not stay in memory for ever.      *)
EventsLeaveMemory == \A e \in Event : e \in Accepted ~> e \notin Accepted

(* Once the listeners are told to stop, the receiver stops.                *)
ShutdownCompletes == phase = "draining" ~> phase = "stopped"

(* The receiver keeps the promise of the ledger.                           *)
Ledger == INSTANCE EventLedger
            WITH unsent <- supply, accepted <- Accepted, stopped <- phase = "stopped"
KeepsLedger == Ledger!Spec
=============================================================================
