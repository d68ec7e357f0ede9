-------------------------- MODULE OtlpReceiverProofs --------------------------
(***************************************************************************)
(* Proofs about OtlpReceiver, for any number of requests, events, sessions *)
(* and command lines.  The inductive invariant adds to the type invariant  *)
(* what run_async has reached: which servers are down (ServersOK) and how  *)
(* far the final flush is (FlushOK), and where the records of a request    *)
(* are while it is handled (RequestsOK).                                   *)
(***************************************************************************)
EXTENDS OtlpReceiver, TLAPS

Held == memory \cup Flushed

(* run_async goes past the join of a server only when it is down or was    *)
(* never started, and such a server has no request.                        *)
GrpcJoined == {"stop_http", "join_http", "stop_sweeper", "join_sweeper", "ok"}
HttpJoined == {"stop_sweeper", "join_sweeper", "ok"}
Serving == {"up", "draining", "failed"}

ServersOK ==
  /\ \A r \in Request : Active(r) => server[r.via] \in Serving
  /\ pc \in GrpcJoined => server["grpc"] \notin Serving
  /\ pc \in HttpJoined => server["http"] \notin Serving

(* Until the sweeper is told to stop, no flush has begun.  After it, on    *)
(* the way of no error, every session with events is still to be closed.   *)
FlushOK ==
  /\ pc \notin {"join_sweeper", "ok", "error", "ended"} => sweeper \in {"off", "ticking", "panicked"}
  /\ pc \in {"join_sweeper", "ok"} =>
       /\ sweeper = "flushing" => \A e \in memory : SessionOf[e] \in todo
       /\ sweeper = "done" => memory = {}
  /\ pc = "ok" => sweeper = "done"
  /\ exit = "ok" => memory = {}

(* What a request has handed over is held or was flushed, what it has not  *)
(* is neither, and only a request with the demanded token gets that far.   *)
RequestOK(r) ==
  /\ rest[r] \subseteq Records[r]
  /\ rest[r] \cap Held = {}
  /\ stage[r] \in {"ingest", "ok"} => Routable(r) \subseteq Held \cup rest[r]
  /\ stage[r] = "ok" => rest[r] = {}
  /\ stage[r] \notin {"ingest", "ok"} => Records[r] \cap Held = {}
  /\ ~Trusted(r) => stage[r] \in {"unsent", "sent", "unauthenticated", "gone"}

RequestsOK == \A r \in Request : RequestOK(r)

RoutedOK == \A e \in memory : SessionOf[e] \in Session

IInv == TypeOK /\ ServersOK /\ FlushOK /\ RequestsOK /\ RoutedOK

-----------------------------------------------------------------------------
(* The steps of Next, in groups by what they move.                         *)

(* run_async before the shutdown, and the ways out of it.                  *)
Startup == ComeUp \/ Signal \/ Kill

(* A request before its records, and after the last of them.               *)
Handling(r) == Send(r) \/ Authenticate(r) \/ Disconnect(r) \/ Answer(r)

LEMMA NextCases ==
  ASSUME [Next]_vars
  PROVE  \/ Startup \/ StopListeners \/ StopSweeper \/ JoinSweeper \/ DropSweeper \/ DropRuntime
         \/ \E l \in Listener : ServerDrained(l) \/ ServerFails(l)
         \/ \E r \in Request : Handling(r) \/ ReadBody(r) \/ \E e \in Event : IngestRecord(r, e)
         \/ FlushAllBegin \/ FlushAllEnd
         \/ \E s \in Session : FlushAll(s) \/ CloseSession(s)
         \/ UNCHANGED vars
  BY DEF Next, Startup, ComeDown, Serve, Handling, Sweeper

(* What run_async does to the rest of the process.                         *)
LEMMA StartupMoves ==
  ASSUME TypeOK, Startup
  PROVE  /\ UNCHANGED <<config, stage, rest, todo, ledger>>
         /\ pc # "ended"
         /\ pc \notin GrpcJoined \cup HttpJoined \cup {"error"} \/ pc' = "ended"
         /\ pc' \in {"open", "spawn", "bind_grpc", "bind_http", "handlers", "wait", "stop_grpc",
                     "error", "ended"}
         /\ exit' \in {"none", "error", "killed"} /\ (exit' # "none" <=> pc' = "ended")
         /\ \/ server' = server
            \/ \E l \in Listener : server' = [server EXCEPT ![l] = "up"]
         /\ sweeper' = sweeper \/ sweeper' \in {"panicked", "ticking"}
<1>1. CASE Configure \/ OpenStore \/ InstallHandlers
  BY <1>1 DEF Configure, OpenStore, InstallHandlers, Go, Fail, Return, TypeOK, Ended, GrpcJoined, HttpJoined
<1>2. CASE SpawnSweeper
  BY <1>2 DEF SpawnSweeper, Go, TypeOK, Ended, GrpcJoined, HttpJoined
<1>3. CASE BindGrpc \/ BindHttp
  BY <1>3 DEF BindGrpc, BindHttp, Bind, Go, Return, TypeOK, Ended, GrpcJoined, HttpJoined, Listener
<1>4. CASE Signal \/ Kill
  BY <1>4 DEF Signal, Kill, Go, TypeOK, Ended, GrpcJoined, HttpJoined
<1> QED
  BY <1>1, <1>2, <1>3, <1>4 DEF Startup, ComeUp

LEMMA StopListenersMoves ==
  ASSUME TypeOK, StopListeners
  PROVE  /\ UNCHANGED <<config, exit, sweeper, stage, rest, todo, ledger>>
         /\ pc \in {"stop_grpc", "join_grpc", "stop_http", "join_http"}
         /\ pc' \in {"join_grpc", "stop_http", "join_http", "stop_sweeper", "error"}
         /\ pc' \in GrpcJoined => pc \in GrpcJoined \/ server["grpc"] \notin Serving
         /\ pc' \in HttpJoined => server["http"] \notin Serving
         /\ \/ server' = server
            \/ \E l \in Listener : server[l] = "up" /\ server' = [server EXCEPT ![l] = "draining"]
<1>1. CASE StopServer("grpc", "stop_grpc", "join_grpc", "stop_http")
  BY <1>1 DEF StopServer, Go, TypeOK, GrpcJoined, HttpJoined, Serving, Listener
<1>2. CASE JoinServer("grpc", "join_grpc", "stop_http")
  BY <1>2 DEF JoinServer, Go, Return, TypeOK, GrpcJoined, HttpJoined, Serving
<1>3. CASE StopServer("http", "stop_http", "join_http", "stop_sweeper")
  BY <1>3 DEF StopServer, Go, TypeOK, GrpcJoined, HttpJoined, Serving, Listener
<1>4. CASE JoinServer("http", "join_http", "stop_sweeper")
  BY <1>4 DEF JoinServer, Go, Return, TypeOK, GrpcJoined, HttpJoined, Serving
<1> QED
  BY <1>1, <1>2, <1>3, <1>4 DEF StopListeners

LEMMA EndingMoves ==
  ASSUME TypeOK, StopSweeper \/ JoinSweeper \/ DropSweeper
  PROVE  UNCHANGED <<config, exit, server, stage, rest, todo, ledger>>
  BY DEF StopSweeper, JoinSweeper, DropSweeper, Go, Return, config, ledger

LEMMA HandlingMoves ==
  ASSUME TypeOK, NEW r \in Request, Handling(r)
  PROVE  /\ UNCHANGED <<config, pc, exit, server, sweeper, rest, todo, ledger>>
         /\ exit = "none"
         /\ stage' = [stage EXCEPT ![r] = stage'[r]]
         /\ \/ stage[r] = "unsent" /\ stage'[r] = "sent" /\ server[r.via] = "up"
            \/ stage[r] = "sent" /\ stage'[r] \in {"admitted", "unauthenticated", "gone"}
            \/ stage[r] = "admitted" /\ stage'[r] = "gone"
            \/ stage[r] = "ingest" /\ stage'[r] = "ok" /\ rest[r] = {}
         /\ stage'[r] = "admitted" => cfg.token \in {"none", r.auth}
  BY DEF Handling, Send, Authenticate, Disconnect, Answer, TypeOK, Ended

LEMMA ReadBodyMoves ==
  ASSUME TypeOK, NEW r \in Request, ReadBody(r)
  PROVE  /\ UNCHANGED <<config, pc, exit, server, sweeper, todo, ledger>>
         /\ exit = "none" /\ stage[r] = "admitted"
         /\ stage' = [stage EXCEPT ![r] = stage'[r]]
         /\ stage'[r] \in {"ingest", "too_large", "unsupported", "undecodable"}
         /\ rest' = [rest EXCEPT ![r] = IF stage'[r] = "ingest" THEN Records[r] ELSE {}]
  BY DEF ReadBody, Defect, HttpDefect, GrpcDefect, TypeOK, Ended

LEMMA FlushMoves ==
  ASSUME TypeOK, NEW s \in Session, FlushAll(s) \/ CloseSession(s)
  PROVE  /\ UNCHANGED <<config, pc, exit, server, sweeper, stage, rest>>
         /\ exit = "none"
         /\ memory' = memory \ InMemory(s)
         /\ InMemory(s) \subseteq memory
         /\ Held' = Held
         /\ persisted' \subseteq Event /\ failed' \subseteq Event
         /\ todo' \in {todo, todo \ {s}}
  BY DEF FlushAll, CloseSession, FlushSession, InMemory, Held, Flushed, TypeOK, Ended, config

-----------------------------------------------------------------------------
LEMMA TypeStep == ASSUME TypeOK, [Next]_vars PROVE TypeOK'
<1> USE ReceiverAssumption
<1>1. CASE Startup
  BY <1>1, StartupMoves DEF TypeOK, Ended, config, ledger, Listener, GrpcJoined, HttpJoined
<1>2. CASE StopListeners
  BY <1>2, StopListenersMoves DEF TypeOK, Ended, config, ledger, Listener
<1>3. CASE StopSweeper \/ JoinSweeper \/ DropSweeper
  BY <1>3 DEF StopSweeper, JoinSweeper, DropSweeper, Go, Return, TypeOK, Ended, config, ledger
<1>4. CASE DropRuntime
  BY <1>4 DEF DropRuntime, TypeOK, Ended, config, ledger
<1>5. CASE \E l \in Listener : ServerDrained(l) \/ ServerFails(l)
  BY <1>5 DEF ServerDrained, ServerFails, TypeOK, Ended, config, ledger
<1>6. ASSUME NEW r \in Request, Handling(r) PROVE TypeOK'
  BY <1>6, HandlingMoves DEF TypeOK, Ended, config, ledger
<1>7. ASSUME NEW r \in Request, ReadBody(r) PROVE TypeOK'
  BY <1>7, ReadBodyMoves DEF TypeOK, Ended, config, ledger
<1>8. ASSUME NEW r \in Request, NEW e \in Event, IngestRecord(r, e) PROVE TypeOK'
  BY <1>8 DEF IngestRecord, TypeOK, Ended, config
<1>9. CASE FlushAllBegin \/ FlushAllEnd
  BY <1>9 DEF FlushAllBegin, FlushAllEnd, TypeOK, Ended, config, ledger
<1>10. ASSUME NEW s \in Session, FlushAll(s) \/ CloseSession(s) PROVE TypeOK'
  BY <1>10, FlushMoves DEF TypeOK, Ended, config
<1>11. CASE UNCHANGED vars
  BY <1>11 DEF vars, TypeOK, Ended, config, ledger
<1> QED
  BY <1>1, <1>2, <1>3, <1>4, <1>5, <1>6, <1>7, <1>8, <1>9, <1>10, <1>11, NextCases

LEMMA ViaListener == \A r \in Request : r.via \in Listener
  BY ReceiverAssumption DEF RequestFields

LEMMA ServersStep == ASSUME TypeOK, ServersOK, [Next]_vars PROVE ServersOK'
<1> USE DEF ServersOK, Active
<1>1. CASE Startup
  BY <1>1, StartupMoves, ViaListener DEF GrpcJoined, HttpJoined, Serving, TypeOK
<1>2. CASE StopListeners
  <2>1. \A l \in Listener : server'[l] \in Serving <=> server[l] \in Serving
    BY <1>2, StopListenersMoves DEF Serving, TypeOK
  <2>2. \A r \in Request : Active(r)' => server'[r.via] \in Serving
    BY <1>2, <2>1, StopListenersMoves, ViaListener
  <2>3. pc' \in GrpcJoined => server'["grpc"] \notin Serving
    BY <1>2, <2>1, StopListenersMoves DEF Listener
  <2>4. pc' \in HttpJoined => server'["http"] \notin Serving
    BY <1>2, <2>1, StopListenersMoves DEF Listener
  <2> QED
    BY <2>2, <2>3, <2>4
<1>3. CASE StopSweeper \/ JoinSweeper \/ DropSweeper
  <2>1. UNCHANGED <<server, stage>>
    BY <1>3, EndingMoves
  <2>2. pc' = pc \/ pc \in HttpJoined
    BY <1>3 DEF StopSweeper, JoinSweeper, DropSweeper, HttpJoined
  <2> QED
    BY <2>1, <2>2 DEF GrpcJoined, HttpJoined
<1>4. CASE DropRuntime
  BY <1>4 DEF DropRuntime, GrpcJoined, HttpJoined, TypeOK
<1>5. ASSUME NEW l \in Listener, ServerDrained(l) \/ ServerFails(l) PROVE ServersOK'
  <2>1. UNCHANGED <<pc, stage>>
    BY <1>5 DEF ServerDrained, ServerFails
  <2>2. \A k \in Listener : server'[k] \in Serving => server[k] \in Serving
    BY <1>5 DEF ServerDrained, ServerFails, Serving, TypeOK
  <2>3. \A r \in Request : Active(r) => server'[r.via] \in Serving
    BY <1>5, ViaListener DEF ServerDrained, ServerFails, Serving, TypeOK
  <2> QED
    BY <2>1, <2>2, <2>3 DEF Listener
<1>6. ASSUME NEW r \in Request, Handling(r) PROVE ServersOK'
  BY <1>6, HandlingMoves DEF Serving, TypeOK
<1>7. ASSUME NEW r \in Request, ReadBody(r) PROVE ServersOK'
  BY <1>7, ReadBodyMoves DEF TypeOK
<1>8. ASSUME NEW r \in Request, NEW e \in Event, IngestRecord(r, e) PROVE ServersOK'
  BY <1>8 DEF IngestRecord
<1>9. CASE FlushAllBegin \/ FlushAllEnd
  BY <1>9 DEF FlushAllBegin, FlushAllEnd
<1>10. ASSUME NEW s \in Session, FlushAll(s) \/ CloseSession(s) PROVE ServersOK'
  BY <1>10, FlushMoves
<1>11. CASE UNCHANGED vars
  BY <1>11 DEF vars
<1> QED
  BY <1>1, <1>2, <1>3, <1>4, <1>5, <1>6, <1>7, <1>8, <1>9, <1>10, <1>11, NextCases

(* Once both servers are joined no request is being handled.               *)
LEMMA NobodyActive ==
  ASSUME TypeOK, ServersOK, pc \in HttpJoined
  PROVE  \A r \in Request : ~Active(r)
  BY ViaListener DEF ServersOK, GrpcJoined, HttpJoined, Listener

LEMMA RoutedStep == ASSUME TypeOK, RoutedOK, [Next]_vars PROVE RoutedOK'
<1> USE DEF RoutedOK
<1>1. CASE memory' \subseteq memory
  BY <1>1
<1>2. ASSUME NEW r \in Request, NEW e \in Event, IngestRecord(r, e) PROVE RoutedOK'
  BY <1>2 DEF IngestRecord
<1>3. CASE Startup
  BY <1>1, <1>3, StartupMoves DEF ledger
<1>4. CASE StopListeners
  BY <1>1, <1>4, StopListenersMoves DEF ledger
<1>5. CASE StopSweeper \/ JoinSweeper \/ DropSweeper
  BY <1>1, <1>5, EndingMoves DEF ledger
<1>6. CASE \/ DropRuntime \/ FlushAllBegin \/ FlushAllEnd
          \/ \E l \in Listener : ServerDrained(l) \/ ServerFails(l)
  BY <1>1, <1>6 DEF DropRuntime, FlushAllBegin, FlushAllEnd, ServerDrained, ServerFails, ledger
<1>7. ASSUME NEW r \in Request, Handling(r) \/ ReadBody(r) PROVE RoutedOK'
  BY <1>1, <1>7, HandlingMoves, ReadBodyMoves DEF ledger
<1>8. ASSUME NEW s \in Session, FlushAll(s) \/ CloseSession(s) PROVE RoutedOK'
  BY <1>1, <1>8, FlushMoves
<1>9. CASE UNCHANGED vars
  BY <1>1, <1>9 DEF vars, ledger
<1> QED
  BY <1>2, <1>3, <1>4, <1>5, <1>6, <1>7, <1>8, <1>9, NextCases

LEMMA FlushStep == ASSUME TypeOK, ServersOK, FlushOK, RoutedOK, [Next]_vars PROVE FlushOK'
<1> USE DEF FlushOK
<1>1. CASE Startup
  BY <1>1, StartupMoves DEF ledger, GrpcJoined, HttpJoined, TypeOK
<1>2. CASE StopListeners
  BY <1>2, StopListenersMoves DEF ledger
<1>3. CASE StopSweeper \/ JoinSweeper \/ DropSweeper
  BY <1>3 DEF StopSweeper, JoinSweeper, DropSweeper, Go, Return, ledger, TypeOK, Ended
<1>4. CASE DropRuntime
  BY <1>4 DEF DropRuntime, ledger
<1>5. CASE \E l \in Listener : ServerDrained(l) \/ ServerFails(l)
  BY <1>5 DEF ServerDrained, ServerFails, ledger
<1>6. ASSUME NEW r \in Request, Handling(r) \/ ReadBody(r) PROVE FlushOK'
  BY <1>6, HandlingMoves, ReadBodyMoves DEF ledger
<1>8. ASSUME NEW r \in Request, NEW e \in Event, IngestRecord(r, e) PROVE FlushOK'
  <2>1. pc \notin HttpJoined
    BY <1>8, NobodyActive DEF IngestRecord, Active
  <2>2. UNCHANGED <<pc, exit, sweeper>> /\ exit = "none"
    BY <1>8 DEF IngestRecord, Ended
  <2> QED
    BY <2>1, <2>2 DEF HttpJoined
<1>9. CASE FlushAllBegin
  <2>1. \A e \in memory : SessionOf[e] \in todo'
    BY <1>9 DEF FlushAllBegin, InMemory, RoutedOK
  <2> QED
    BY <1>9, <2>1 DEF FlushAllBegin, ledger, Ended
<1>10. CASE FlushAllEnd
  BY <1>10 DEF FlushAllEnd, ledger, Ended
<1>11. ASSUME NEW s \in Session, FlushAll(s) \/ CloseSession(s) PROVE FlushOK'
  <2>1. \A e \in memory' : e \in memory /\ SessionOf[e] # s
    BY <1>11, FlushMoves DEF InMemory
  <2> QED
    BY <1>11, <2>1, FlushMoves
<1>12. CASE UNCHANGED vars
  BY <1>12 DEF vars, ledger
<1> QED
  BY <1>1, <1>2, <1>3, <1>4, <1>5, <1>6, <1>8, <1>9, <1>10, <1>11, <1>12, NextCases
-----------------------------------------------------------------------------
(* What authentication compares with is the demanded token.                *)
LEMMA AdmittedIsTrusted ==
  ASSUME TypeOK, NEW r \in Request, cfg.token \in {"none", r.auth}
  PROVE  Trusted(r)
<1>1. cmd.token \in Secret \cup {"unset"} /\ file.token \in Secret \cup {"unset"}
  BY ReceiverAssumption DEF TypeOK, CmdFields, FileFields
<1>2. cfg.token = IF cmd.token # "unset" THEN cmd.token
                  ELSE IF file.token \in {"unset", "empty"} THEN "none" ELSE file.token
  BY DEF cfg, Merged, FromPartial
<1>3. "none" \notin Secret \cup {"unset"} /\ "unset" \notin Token /\ "empty" \notin Token
  BY ReceiverAssumption DEF Secret
<1> QED
  BY <1>1, <1>2, <1>3 DEF Trusted, Demanded, Secret

LEMMA RequestsUntouched ==
  ASSUME RequestsOK, UNCHANGED <<config, stage, rest>>, Held' = Held
  PROVE  RequestsOK'
  BY DEF RequestsOK, RequestOK, Routable, Trusted, Demanded, config

LEMMA HandlingKeeps == ASSUME TypeOK, RequestsOK, NEW r \in Request, Handling(r) PROVE RequestsOK'
<1>1. UNCHANGED <<config, rest, ledger>> /\ Held' = Held
  BY HandlingMoves DEF Held, Flushed, ledger
<1>2. \A q \in Request : (Routable(q)' = Routable(q)) /\ (Trusted(q)' = Trusted(q))
  BY <1>1 DEF Routable, Trusted, Demanded, config
<1>3. \A q \in Request \ {r} : stage'[q] = stage[q]
  BY HandlingMoves DEF TypeOK
<1>4. stage'[r] = "admitted" => Trusted(r)
  BY HandlingMoves, AdmittedIsTrusted
<1>5. \A q \in Request \ {r} : RequestOK(q)'
  BY <1>1, <1>2, <1>3 DEF RequestsOK, RequestOK
<1>6. RequestOK(r)'
  BY <1>1, <1>2, <1>4, HandlingMoves DEF RequestsOK, RequestOK
<1> QED
  BY <1>5, <1>6 DEF RequestsOK

LEMMA ReadBodyKeeps == ASSUME TypeOK, RequestsOK, NEW r \in Request, ReadBody(r) PROVE RequestsOK'
<1>1. UNCHANGED <<config, ledger>> /\ Held' = Held
  BY ReadBodyMoves DEF Held, Flushed, ledger
<1>2. \A q \in Request : (Routable(q)' = Routable(q)) /\ (Trusted(q)' = Trusted(q))
  BY <1>1 DEF Routable, Trusted, Demanded, config
<1>3. \A q \in Request \ {r} : stage'[q] = stage[q] /\ rest'[q] = rest[q]
  BY ReadBodyMoves DEF TypeOK
<1>4. \A q \in Request \ {r} : RequestOK(q)'
  BY <1>1, <1>2, <1>3 DEF RequestsOK, RequestOK
<1>5. rest'[r] = IF stage'[r] = "ingest" THEN Records[r] ELSE {}
  BY ReadBodyMoves DEF TypeOK
<1>6. RequestOK(r)'
  BY <1>1, <1>2, <1>5, ReadBodyMoves DEF RequestsOK, RequestOK, Routable
<1> QED
  BY <1>4, <1>6 DEF RequestsOK

(* No other request has the record, so only this request's books move.     *)
LEMMA IngestKeeps ==
  ASSUME TypeOK, RequestsOK, NEW r \in Request, NEW e \in Event, IngestRecord(r, e)
  PROVE  RequestsOK'
<1>1. /\ UNCHANGED <<config, stage, persisted, failed>>
      /\ stage[r] = "ingest" /\ e \in rest[r]
      /\ memory' = IF SessionOf[e] \in Session THEN memory \cup {e} ELSE memory
  BY DEF IngestRecord
<1>2. Held' = IF SessionOf[e] \in Session THEN Held \cup {e} ELSE Held
  BY <1>1 DEF Held, Flushed
<1>3. \A q \in Request : (Routable(q)' = Routable(q)) /\ (Trusted(q)' = Trusted(q))
  BY <1>1 DEF Routable, Trusted, Demanded, config
<1>4. rest'[r] = rest[r] \ {e} /\ \A q \in Request \ {r} : rest'[q] = rest[q]
  BY DEF IngestRecord, TypeOK
<1>5. ASSUME NEW q \in Request \ {r} PROVE RequestOK(q)'
  <2>1. e \notin Records[q] /\ e \notin rest[q]
    BY <1>1, ReceiverAssumption DEF RequestsOK, RequestOK
  <2> QED
    BY <1>1, <1>2, <1>3, <1>4, <2>1 DEF RequestsOK, RequestOK
<1>6. RequestOK(r)'
  BY <1>1, <1>2, <1>3, <1>4 DEF RequestsOK, RequestOK, Routable
<1> QED
  BY <1>5, <1>6 DEF RequestsOK

LEMMA RequestsStep == ASSUME TypeOK, RequestsOK, [Next]_vars PROVE RequestsOK'
<1> USE DEF config, ledger, Held, Flushed
<1>1. CASE Startup
  BY <1>1, StartupMoves, RequestsUntouched
<1>2. CASE StopListeners
  BY <1>2, StopListenersMoves, RequestsUntouched
<1>3. CASE StopSweeper \/ JoinSweeper \/ DropSweeper
  BY <1>3, EndingMoves, RequestsUntouched
<1>4. CASE DropRuntime
  <2>1. UNCHANGED <<config, rest, ledger>> /\ Held' = Held
    BY <1>4 DEF DropRuntime
  <2>2. \A q \in Request : (Routable(q)' = Routable(q)) /\ (Trusted(q)' = Trusted(q))
    BY <2>1 DEF Routable, Trusted, Demanded
  <2>3. \A q \in Request : \/ stage'[q] = stage[q]
                           \/ stage[q] \in {"sent", "admitted"} /\ stage'[q] = "gone"
    BY <1>4 DEF DropRuntime, Active
  <2> QED
    BY <2>1, <2>2, <2>3 DEF RequestsOK, RequestOK
<1>5. CASE FlushAllBegin \/ FlushAllEnd \/ \E l \in Listener : ServerDrained(l) \/ ServerFails(l)
  BY <1>5, RequestsUntouched DEF FlushAllBegin, FlushAllEnd, ServerDrained, ServerFails
<1>6. ASSUME NEW r \in Request, Handling(r) PROVE RequestsOK'
  BY <1>6, HandlingKeeps
<1>7. ASSUME NEW r \in Request, ReadBody(r) PROVE RequestsOK'
  BY <1>7, ReadBodyKeeps
<1>8. ASSUME NEW r \in Request, NEW e \in Event, IngestRecord(r, e) PROVE RequestsOK'
  BY <1>8, IngestKeeps
<1>9. ASSUME NEW s \in Session, FlushAll(s) \/ CloseSession(s) PROVE RequestsOK'
  BY <1>9, FlushMoves, RequestsUntouched
<1>10. CASE UNCHANGED vars
  BY <1>10, RequestsUntouched DEF vars
<1> QED
  BY <1>1, <1>2, <1>3, <1>4, <1>5, <1>6, <1>7, <1>8, <1>9, <1>10, NextCases

-----------------------------------------------------------------------------
LEMMA InitIInv == Init => IInv
<1> SUFFICES ASSUME Init PROVE IInv
  OBVIOUS
<1>1. TypeOK
  BY DEF Init, TypeOK, Ended
<1>2. ServersOK
  BY DEF Init, ServersOK, Active, GrpcJoined, HttpJoined
<1>3. FlushOK /\ RoutedOK
  BY DEF Init, FlushOK, RoutedOK
<1>4. RequestsOK
  BY DEF Init, RequestsOK, RequestOK, Held, Flushed
<1> QED
  BY <1>1, <1>2, <1>3, <1>4 DEF IInv

LEMMA IInvStep == IInv /\ [Next]_vars => IInv'
  BY TypeStep, ServersStep, FlushStep, RequestsStep, RoutedStep DEF IInv

LEMMA IInvIsSafe == ASSUME IInv PROVE ReceiverIsSafe
<1>1. FinalFlushIsAlone
  BY NobodyActive DEF IInv, FinalFlushIsAlone, HttpJoined
<1>2. AnsweredIsKept
  BY DEF IInv, RequestsOK, RequestOK, FlushOK, AnsweredIsKept, Held
<1>3. StrangersAreNotRead
  BY DEF IInv, RequestsOK, RequestOK, StrangersAreNotRead, Held
<1> QED
  BY <1>1, <1>2, <1>3 DEF IInv, ReceiverIsSafe

(* However the process is configured, fails, is stopped or is killed: the  *)
(* final flush of a clean shutdown races with no request, an answer of     *)
(* success holds, and what was refused leaves no trace.                    *)
THEOREM ReceiverStaysSafe == Spec => []ReceiverIsSafe
<1>1. IInv => ReceiverIsSafe
  BY IInvIsSafe
<1> QED
  BY <1>1, InitIInv, IInvStep, PTL DEF Spec

-----------------------------------------------------------------------------
(* The refinement: the events without a session that a request has handed  *)
(* over are gone from the ledger's supply, though nobody holds them.       *)
Dropped(r) == Records[r] \ (rest[r] \cup Routable(r))
Handed == {q \in Request : stage[q] \in {"ingest", "ok"}}
Gone == UNION {Dropped(r) : r \in Handed}
Unsent == Event \ (Held \cup Gone)

LEMMA LedgerUntouched ==
  ASSUME UNCHANGED ledger, Gone' = Gone, (exit = "ok") <=> (exit' = "ok")
  PROVE  UNCHANGED Ledger!ledger
  BY DEF Ledger!ledger, ledger, Gone, Handed, Dropped, Flushed

LEMMA LedgerInit == Init => Ledger!Init
  BY DEF Init, Ledger!Init, Flushed

(* Only a step of a request can change what has been handed over.          *)
LEMMA GoneUntouched ==
  ASSUME UNCHANGED rest, Handed' = Handed
  PROVE  Gone' = Gone
  BY DEF Gone, Dropped, Routable

LEMMA IngestLedger ==
  ASSUME IInv, NEW r \in Request, NEW e \in Event, IngestRecord(r, e)
  PROVE  Ledger!Accept(e) \/ Ledger!Ignore(e)
<1>1. /\ UNCHANGED <<stage, persisted, failed, exit>>
      /\ exit = "none" /\ stage[r] = "ingest" /\ e \in rest[r]
      /\ memory' = IF SessionOf[e] \in Session THEN memory \cup {e} ELSE memory
  BY DEF IngestRecord, Ended
<1>2. rest'[r] = rest[r] \ {e} /\ \A q \in Request \ {r} : rest'[q] = rest[q]
  BY DEF IngestRecord, IInv, TypeOK
<1>3. e \in Records[r] /\ e \notin Held /\ \A q \in Request \ {r} : e \notin Records[q]
  BY <1>1, ReceiverAssumption DEF IInv, RequestsOK, RequestOK
<1>4. e \notin Gone
  <2>1. \A q \in Request : e \notin Dropped(q)
    BY <1>1, <1>3 DEF Dropped
  <2> QED
    BY <2>1 DEF Gone, Handed
<1>5. Handed' = Handed /\ r \in Handed
  BY <1>1 DEF Handed
<1>6. CASE SessionOf[e] \in Session
  <2>1. \A q \in Request : Dropped(q)' = Dropped(q)
    BY <1>2, <1>3, <1>6 DEF Dropped, Routable
  <2>2. Gone' = Gone
    BY <1>5, <2>1 DEF Gone, Handed
  <2>3. Unsent' = Unsent \ {e} /\ e \in Unsent
    BY <1>1, <1>3, <1>4, <1>6, <2>2 DEF Unsent, Held, Flushed
  <2> QED
    BY <1>1, <1>6, <2>3 DEF Ledger!Accept, Unsent, Held, Gone, Handed, Dropped
<1>7. CASE SessionOf[e] \notin Session
  <2>1. Dropped(r)' = Dropped(r) \cup {e} /\ \A q \in Request \ {r} : Dropped(q)' = Dropped(q)
    BY <1>2, <1>3, <1>7 DEF Dropped, Routable
  <2>2. Gone' = Gone \cup {e}
    BY <1>5, <2>1 DEF Gone, Handed
  <2>3. Unsent' = Unsent \ {e} /\ e \in Unsent
    BY <1>1, <1>3, <1>4, <1>7, <2>2 DEF Unsent, Held, Flushed
  <2> QED
    BY <1>1, <1>7, <2>3 DEF Ledger!Ignore, Unsent, Held, Gone, Handed, Dropped
<1> QED
  BY <1>6, <1>7

LEMMA FlushLedger ==
  ASSUME IInv, NEW s \in Session, FlushAll(s) \/ CloseSession(s)
  PROVE  Ledger!Release(s, InMemory(s))
<1>1. UNCHANGED <<exit, stage, rest>> /\ exit = "none" /\ Held' = Held
  BY FlushMoves DEF IInv
<1>2. Gone' = Gone
  BY <1>1, GoneUntouched DEF Handed
<1>3. Unsent' = Unsent
  BY <1>1, <1>2 DEF Unsent
<1>4. InMemory(s) \subseteq memory /\ \A e \in InMemory(s) : SessionOf[e] = s
  BY DEF InMemory
<1>5. FlushSession(s)
  BY DEF FlushAll, CloseSession
<1> QED
  BY <1>1, <1>3, <1>4, <1>5 DEF Ledger!Release, FlushSession, Unsent, Held, Gone, Handed, Dropped
LEMMA LedgerStep == IInv /\ [Next]_vars => [Ledger!Next]_(Ledger!ledger)
<1> SUFFICES ASSUME IInv, [Next]_vars PROVE [Ledger!Next]_(Ledger!ledger)
  OBVIOUS
<1> USE DEF IInv
<1>1. CASE Startup
  <2>1. Gone' = Gone
    BY <1>1, StartupMoves, GoneUntouched DEF Handed
  <2> QED
    BY <1>1, <2>1, StartupMoves, LedgerUntouched DEF TypeOK, Ended
<1>2. CASE StopListeners
  <2>1. Gone' = Gone
    BY <1>2, StopListenersMoves, GoneUntouched DEF Handed
  <2> QED
    BY <1>2, <2>1, StopListenersMoves, LedgerUntouched
<1>3. CASE StopSweeper \/ JoinSweeper \/ DropSweeper
  <2>1. Gone' = Gone
    BY <1>3, EndingMoves, GoneUntouched DEF Handed
  <2> QED
    BY <1>3, <2>1, EndingMoves, LedgerUntouched
<1>4. CASE DropRuntime
  <2>1. UNCHANGED <<rest, ledger>> /\ exit' = pc
    BY <1>4 DEF DropRuntime
  <2>2. Handed' = Handed
    BY <1>4 DEF DropRuntime, Handed, Active
  <2>3. Gone' = Gone /\ Unsent' = Unsent
    BY <2>1, <2>2, GoneUntouched DEF Unsent, Held, Flushed, ledger
  <2>4. CASE pc = "ok"
    <3>1. memory = {}
      BY <1>4, <2>4 DEF FlushOK
    <3>2. Ledger!Stop
      BY <2>1, <2>3, <2>4, <3>1 DEF Ledger!Stop, ledger, Unsent, Held, Gone, Handed, Dropped
    <3> QED
      BY <3>2 DEF Ledger!Next
  <2>5. CASE pc # "ok"
    <3>1. exit # "ok"
      BY <1>4 DEF DropRuntime, TypeOK, Ended
    <3> QED
      BY <2>1, <2>3, <2>5, <3>1, LedgerUntouched
  <2> QED
    BY <2>4, <2>5
<1>5. CASE FlushAllBegin \/ FlushAllEnd \/ \E l \in Listener : ServerDrained(l) \/ ServerFails(l)
  <2>1. UNCHANGED <<rest, stage, ledger, exit>>
    BY <1>5 DEF FlushAllBegin, FlushAllEnd, ServerDrained, ServerFails, ledger
  <2>2. Gone' = Gone
    BY <2>1, GoneUntouched DEF Handed
  <2> QED
    BY <2>1, <2>2, LedgerUntouched
<1>6. ASSUME NEW r \in Request, Handling(r) PROVE UNCHANGED Ledger!ledger
  <2>1. UNCHANGED <<rest, ledger, exit>>
    BY <1>6, HandlingMoves
  <2>2. Handed' = Handed
    BY <1>6, HandlingMoves DEF Handed, TypeOK
  <2>3. Gone' = Gone
    BY <2>1, <2>2, GoneUntouched
  <2> QED
    BY <2>1, <2>3, LedgerUntouched
<1>7. ASSUME NEW r \in Request, ReadBody(r) PROVE UNCHANGED Ledger!ledger
  <2>1. UNCHANGED <<ledger, exit>>
    BY <1>7, ReadBodyMoves
  <2>2. \A q \in Request \ {r} : stage'[q] = stage[q] /\ rest'[q] = rest[q]
    BY <1>7, ReadBodyMoves DEF TypeOK
  <2>3. /\ r \notin Handed
        /\ r \in Handed' => rest'[r] = Records[r]
    BY <1>7, ReadBodyMoves DEF Handed, TypeOK
  <2>4. r \in Handed' => Dropped(r)' = {}
    BY <2>3 DEF Dropped
  <2>5. \A q \in Request \ {r} : (Dropped(q)' = Dropped(q)) /\ (q \in Handed' <=> q \in Handed)
    BY <2>2 DEF Dropped, Routable, Handed
  <2>6. Gone' = Gone
    <3>1. Handed \subseteq Request /\ Handed' \subseteq Request
      BY DEF Handed
    <3> QED
      BY <2>3, <2>4, <2>5, <3>1 DEF Gone
  <2> QED
    BY <2>1, <2>6, LedgerUntouched
<1>8. ASSUME NEW r \in Request, NEW e \in Event, IngestRecord(r, e) PROVE Ledger!Next
  BY <1>8, IngestLedger DEF Ledger!Next
<1>9. ASSUME NEW s \in Session, FlushAll(s) \/ CloseSession(s) PROVE Ledger!Next
  <2>1. Ledger!Release(s, InMemory(s))
    BY <1>9, FlushLedger
  <2>2. InMemory(s) \in SUBSET memory
    BY DEF InMemory
  <2> QED
    BY <2>1, <2>2 DEF Ledger!Next
<1>10. CASE UNCHANGED vars
  <2>1. UNCHANGED <<rest, stage, ledger, exit>>
    BY <1>10 DEF vars
  <2>2. Gone' = Gone
    BY <2>1, GoneUntouched DEF Handed
  <2> QED
    BY <2>1, <2>2, LedgerUntouched
<1> QED
  BY <1>1, <1>2, <1>3, <1>4, <1>5, <1>6, <1>7, <1>8, <1>9, <1>10, NextCases

(* The process accepts an event at most once, lets it go at most once and  *)
(* together with events of its own session only, and ends cleanly only     *)
(* with nothing left in memory.                                            *)
THEOREM ReceiverKeepsLedger == Spec => KeepsLedger
<1> QED
  BY LedgerInit, LedgerStep, InitIInv, IInvStep, PTL DEF Spec, KeepsLedger, Ledger!Spec
=============================================================================
