---------------------------- MODULE MCOtlpRouter ----------------------------
(* Small instances of the session router for TLC.  An event is a record    *)
(* that names its session, a number, and whether it is a SessionEnd.       *)
EXTENDS OtlpRouter, TLC

CONSTANTS sA, sB, sC, w1, w2

Data(s, n) == [of |-> s, n |-> n, end |-> FALSE]
End(s) == [of |-> s, n |-> 0, end |-> TRUE]

\* Two sessions, one of them ended, and an event without a session.
EventsWithEnd == {Data(sA, 1), Data(sA, 2), End(sA), Data(sB, 1), Data(NoSession, 1)}
\* Three sessions, a refresh of the first one, an event without a session.
EventsThreeSessions == {Data(sA, 1), Data(sA, 2), Data(sB, 1), Data(sC, 1), Data(NoSession, 1)}
\* One session, two events.
EventsOneSession == {Data(sA, 1), Data(sA, 2)}

MCSessionOf == [e \in Event |-> e.of]
MCEnds == {e \in Event : e.end}
MCBytes == [e \in Event |-> IF e.n = 2 THEN 3 ELSE 1]
Symmetry == Permutations(Worker)
\* To drop an event touches nothing else, so it is done before all the rest.
DropsFirst == (\E e \in supply : SessionOf[e] = NoSession) => supply = Event
=============================================================================
