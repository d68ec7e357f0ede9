---------------------------- MODULE EventLedger ----------------------------
(***************************************************************************)
(* What the OTLP receiver promises about the events it is sent, without    *)
(* buffers, locks, threads or LRU lists.  Every event is accepted at most  *)
(* once, leaves the receiver at most once, leaves together with events of  *)
(* its own session only, and the receiver stops only with nothing left.    *)
(***************************************************************************)
CONSTANTS Event,      \* the events clients may send
          Session,    \* the session ids
          SessionOf   \* the session of an event, or a value that is no session

VARIABLES unsent,     \* events no request has delivered yet
          accepted,   \* events the receiver holds in memory
          persisted,  \* events a committed write contained
          failed,     \* events a failed write contained
          stopped     \* the receiver has shut down cleanly

ledger == <<unsent, accepted, persisted, failed, stopped>>

Init == /\ unsent = Event
        /\ accepted = {}
        /\ persisted = {}
        /\ failed = {}
        /\ stopped = FALSE

(* A request brings an event of a known session. *)
Accept(e) == /\ ~stopped
             /\ e \in unsent
             /\ SessionOf[e] \in Session
             /\ unsent' = unsent \ {e}
             /\ accepted' = accepted \cup {e}
             /\ UNCHANGED <<persisted, failed, stopped>>

(* A request brings an event that belongs to no session. *)
Ignore(e) == /\ ~stopped
             /\ e \in unsent
             /\ SessionOf[e] \notin Session
             /\ unsent' = unsent \ {e}
             /\ UNCHANGED <<accepted, persisted, failed, stopped>>

(* One fragment of session s leaves memory, written or lost as a whole. *)
Release(s, fragment) ==
  /\ ~stopped
  /\ fragment \subseteq accepted
  /\ \A e \in fragment : SessionOf[e] = s
  /\ accepted' = accepted \ fragment
  /\ \/ persisted' = persisted \cup fragment /\ UNCHANGED failed
     \/ failed' = failed \cup fragment /\ UNCHANGED persisted
  /\ UNCHANGED <<unsent, stopped>>

Stop == /\ accepted = {}
        /\ stopped' = TRUE
        /\ UNCHANGED <<unsent, accepted, persisted, failed>>

Next == \/ \E e \in Event : Accept(e) \/ Ignore(e)
        \/ \E s \in Session : \E fragment \in SUBSET accepted : Release(s, fragment)
        \/ Stop

Spec == Init /\ [][Next]_ledger
=============================================================================
