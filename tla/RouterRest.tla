----------------------------- MODULE RouterRest -----------------------------
(* What the router keeps between two requests, and what it owes after the  *)
(* last one, in one specification of two halves.  alone: no idle sweep,    *)
(* for the cap and the order of the LRU list (a sweep may catch a session  *)
(* between the two locks of touch_lru and leave the list behind).          *)
(* Otherwise: the sweeper and the events in Few, for the liveness          *)
(* properties, whose fairness asks for the sweep.                          *)
EXTENDS OtlpRouter

CONSTANT Few    \* the events of the half with the sweeper

(* The receiver with no idle sweep: what ingest alone guarantees.          *)
NoSweepNext == \/ \E w \in Worker : Ingest(w)
               \/ \E t \in Thread : CloseBuffer(t)
               \/ \E s \in Session : CloseNext(s)
               \/ FlushAll \/ Shutdown \/ Tick \/ Stopped

VARIABLE alone
restVars == <<vars, alone>>
RestInit == /\ Init
            /\ alone \in BOOLEAN
RestNext == /\ \/ alone /\ NoSweepNext
               \/ ~alone /\ Next /\ \A w \in Worker : ev'[w] \in {NoEvent} \cup Few
            /\ UNCHANGED alone
RestSpec == RestInit /\ [][RestNext]_restVars /\ Fairness

(* Between two requests of a single worker the LRU list names exactly the  *)
(* open buffers, once each, and they are no more than max_open_sessions,   *)
(* although ingest touches map and list under different locks.             *)
LruIsFaithful == alone => CapAtRest /\ LruMirrorsBuffers

(* The victim ingest takes from the front of the LRU list is, among the    *)
(* other open sessions, one whose last event is the oldest.                *)
VictimIsOldest == [][alone => EvictsOldest]_vars
=============================================================================
