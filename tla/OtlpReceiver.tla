---------------------------- MODULE OtlpReceiver ----------------------------
(***************************************************************************)
(* The process of `agentprof ingest-otlp` (cmd/ingest_otlp.rs): how it     *)
(* comes up, takes export requests on its gRPC and HTTP listeners          *)
(* (otlp/server_grpc.rs, server_http.rs, auth.rs, pipeline.rs), and comes  *)
(* down on a signal, on a failure or by being killed.                      *)
(*                                                                         *)
(* The router behind the pipeline is abstracted to the events it holds in  *)
(* memory; OtlpRouter models it in detail, and both implement EventLedger. *)
(* Once the process has ended, memory is what it held at that moment: the  *)
(* events that are lost.                                                   *)
(***************************************************************************)
EXTENDS Naturals, FiniteSets

CONSTANTS Event, Session, NoSession,
          SessionOf,     \* the session id the mapper finds, or NoSession
          Request,       \* export requests, records (see RequestFields)
          Records,       \* the events in the body of a request
          Token,         \* bearer tokens
          Cmd, File,     \* command lines and [otlp] blocks (see CmdFields, FileFields)
          ServersMayFail \* do the tasks of the two servers end by themselves?

Listener == {"grpc", "http"}
Secret == Token \cup {"empty"}

RequestFields == [id : 1 .. 9, via : Listener, auth : Token \cup {"missing", "malformed"},
                  cert : BOOLEAN, fits : BOOLEAN, media : BOOLEAN, decodes : BOOLEAN]
CmdFields == [on : SUBSET Listener, off : SUBSET Listener, token : Secret \cup {"unset"},
              tls : BOOLEAN, ca : BOOLEAN, interval : {"unset", "zero", "some"}]
FileFields == [listen : [Listener -> {"unset", "empty", "addr", "bad"}],
               token : Secret \cup {"unset"}, cert : BOOLEAN, key : BOOLEAN, ca : BOOLEAN]

ASSUME ReceiverAssumption ==
  /\ NoSession \notin Session
  /\ SessionOf \in [Event -> Session \cup {NoSession}]
  /\ Request \subseteq RequestFields
  /\ Records \in [Request -> SUBSET Event]
  /\ \A q, r \in Request : q # r => Records[q] \cap Records[r] = {}
  /\ Token \cap {"empty", "none", "unset", "missing", "malformed"} = {}
  /\ Cmd \subseteq CmdFields
  /\ \A c \in Cmd : c.on \cap c.off = {} /\ (c.ca => c.tls)
  /\ File \subseteq FileFields
  /\ ServersMayFail \in BOOLEAN

VARIABLES cmd, file,  \* how the process was started
          pc,         \* where run_async is
          exit,       \* how the process ended
          server,     \* the two server tasks
          sweeper,    \* the sweeper task
          stage,      \* where a request is, or what it was answered
          rest,       \* the records a request has still to hand to the router
          todo,       \* the sessions flush_all has still to close
          memory,     \* the events the router holds
          persisted,  \* the events of committed writes
          failed      \* the events of failed writes

config == <<cmd, file>>
ledger == <<memory, persisted, failed>>
vars == <<config, pc, exit, server, sweeper, stage, rest, todo, ledger>>

-----------------------------------------------------------------------------
(* OtlpServerConfig, resolved from the file and then from the flags. *)

(* OtlpServerConfig::from_partial: an empty address disables a listener,   *)
(* an empty token disables authentication.                                 *)
FromPartial(f) ==
  [listen |-> {l \in Listener : f.listen[l] \in {"unset", "addr"}},
   token  |-> IF f.token \in {"unset", "empty"} THEN "none" ELSE f.token,
   cert   |-> f.cert, key |-> f.key, ca |-> f.ca]

Parses(f) == \A l \in Listener : f.listen[l] # "bad"

(* build_otlp_server_config: a flag overrides the file. *)
Merged(c, f) ==
  LET p == FromPartial(f) IN
  [listen |-> (p.listen \cup c.on) \ c.off,
   token  |-> IF c.token = "unset" THEN p.token ELSE c.token,
   cert   |-> p.cert \/ c.tls, key |-> p.key \/ c.tls, ca |-> p.ca \/ c.ca]

(* OtlpServerConfig::validate. *)
Valid(cfg) == /\ cfg.listen # {}
              /\ cfg.cert <=> cfg.key
              /\ cfg.ca => cfg.cert

cfg == Merged(cmd, file)

-----------------------------------------------------------------------------
Init == /\ cmd \in Cmd
        /\ file \in File
        /\ pc = "config"
        /\ exit = "none"
        /\ server = [l \in Listener |-> "off"]
        /\ sweeper = "off"
        /\ stage = [r \in Request |-> "unsent"]
        /\ rest = [r \in Request |-> {}]
        /\ todo = {}
        /\ memory = {}
        /\ persisted = {}
        /\ failed = {}

Active(r) == stage[r] \in {"sent", "admitted", "ingest"}
Ended == exit # "none"

Go(next) == pc' = next /\ UNCHANGED exit

(* `?` before the sweeper exists: nothing runs yet. *)
Fail == pc' = "ended" /\ exit' = "error"

(* `?` or the end of run_async after that: the locals are dropped, which   *)
(* cancels the sweeper, and then the runtime.                              *)
Return(how) == pc' = how /\ UNCHANGED exit

(* Both --no-... flags are refused before the file is looked at. *)
Configure ==
  /\ pc = "config"
  /\ \/ /\ cmd.off # Listener
        /\ Parses(file)
        /\ Valid(cfg)
        /\ Go("open")
     \/ /\ cmd.off = Listener \/ ~Parses(file) \/ ~Valid(cfg)
        /\ Fail
  /\ UNCHANGED <<config, server, sweeper, stage, rest, todo, ledger>>

OpenStore ==
  /\ pc = "open"
  /\ Go("spawn") \/ Fail
  /\ UNCHANGED <<config, server, sweeper, stage, rest, todo, ledger>>

(* spawn_idle_sweeper: the task panics at once on an interval of zero,     *)
(* which nobody sees before the task is joined.                            *)
SpawnSweeper ==
  /\ pc = "spawn"
  /\ sweeper' = IF cmd.interval = "zero" THEN "panicked" ELSE "ticking"
  /\ Go("bind_grpc")
  /\ UNCHANGED <<config, server, stage, rest, todo, ledger>>

(* serve_grpc and serve_http: bind, load the TLS files, spawn the server. *)
Bind(l, here, next) ==
  /\ pc = here
  /\ \/ /\ l \in cfg.listen
        /\ server' = [server EXCEPT ![l] = "up"]
        /\ Go(next)
     \/ /\ l \in cfg.listen
        /\ Return("error")
        /\ UNCHANGED server
     \/ /\ l \notin cfg.listen
        /\ Go(next)
        /\ UNCHANGED server
  /\ UNCHANGED <<config, sweeper, stage, rest, todo, ledger>>

BindGrpc == Bind("grpc", "bind_grpc", "bind_http")
BindHttp == Bind("http", "bind_http", "handlers")

(* wait_for_shutdown installs its signal handlers only now. *)
InstallHandlers ==
  /\ pc = "handlers"
  /\ Go("wait") \/ Return("error")
  /\ UNCHANGED <<config, server, sweeper, stage, rest, todo, ledger>>

(* SIGINT or SIGTERM.  Until the handlers are installed it ends the        *)
(* process; later ones are swallowed.                                      *)
Signal ==
  /\ ~Ended
  /\ \/ /\ pc = "wait"
        /\ Go("stop_grpc")
     \/ /\ pc \in {"config", "open", "spawn", "bind_grpc", "bind_http", "handlers"}
        /\ pc' = "ended"
        /\ exit' = "killed"
  /\ UNCHANGED <<config, server, sweeper, stage, rest, todo, ledger>>

Kill ==
  /\ ~Ended
  /\ pc' = "ended"
  /\ exit' = "killed"
  /\ UNCHANGED <<config, server, sweeper, stage, rest, todo, ledger>>

(* The oneshot of a server is sent; the other server keeps serving. *)
StopServer(l, here, join, next) ==
  /\ pc = here
  /\ Go(IF server[l] = "off" THEN next ELSE join)
  /\ server' = IF server[l] = "up" THEN [server EXCEPT ![l] = "draining"] ELSE server
  /\ UNCHANGED <<config, sweeper, stage, rest, todo, ledger>>

WrongJoinServer(l, join, next) ==
  /\ pc = join
  /\ \/ server[l] \in {"draining", "down"} /\ Go(next)
     \/ server[l] = "failed" /\ Return("error")
  /\ UNCHANGED <<config, server, sweeper, stage, rest, todo, ledger>>

WrongJoinServerIgnores(l, join, next) ==
  /\ pc = join
  /\ server[l] = "down"
  /\ Go(next)
  /\ UNCHANGED <<config, server, sweeper, stage, rest, todo, ledger>>

JoinServer(l, join, next) ==
  /\ pc = join
  /\ \/ server[l] = "down" /\ Go(next)
     \/ server[l] = "failed" /\ Return("error")
  /\ UNCHANGED <<config, server, sweeper, stage, rest, todo, ledger>>

StopListeners ==
  \/ StopServer("grpc", "stop_grpc", "join_grpc", "stop_http")
  \/ JoinServer("grpc", "join_grpc", "stop_http")
  \/ StopServer("http", "stop_http", "join_http", "stop_sweeper")
  \/ JoinServer("http", "join_http", "stop_sweeper")

(* SweeperHandle::shutdown sends the cancel signal and joins the task. *)
StopSweeper ==
  /\ pc = "stop_sweeper"
  /\ sweeper' = IF sweeper = "ticking" THEN "cancelled" ELSE sweeper
  /\ Go("join_sweeper")
  /\ UNCHANGED <<config, server, stage, rest, todo, ledger>>

JoinSweeper ==
  /\ pc = "join_sweeper"
  /\ \/ sweeper = "done" /\ Return("ok")
     \/ sweeper = "panicked" /\ Return("error")
  /\ UNCHANGED <<config, server, sweeper, stage, rest, todo, ledger>>

(* After an error the sweeper's cancel channel is dropped: the task        *)
(* flushes if a worker thread polls it before the runtime aborts it.       *)
DropSweeper ==
  /\ pc = "error"
  /\ sweeper = "ticking"
  /\ sweeper' \in {"cancelled", "aborted"}
  /\ UNCHANGED <<config, pc, exit, server, stage, rest, todo, ledger>>

(* The runtime waits for polls that are under way, drops every other task  *)
(* and the process exits.                                                  *)
DropRuntime ==
  /\ pc \in {"ok", "error"}
  /\ sweeper \notin {"ticking", "cancelled", "flushing"}
  /\ \A r \in Request : stage[r] # "ingest"
  /\ pc' = "ended"
  /\ exit' = pc
  /\ stage' = [r \in Request |-> IF Active(r) THEN "gone" ELSE stage[r]]
  /\ UNCHANGED <<config, server, sweeper, rest, todo, ledger>>

-----------------------------------------------------------------------------
(* The server tasks and the requests on their connections. *)

(* A graceful shutdown ends when the last request is answered; there is no *)
(* deadline.                                                               *)
ServerDrained(l) ==
  /\ ~Ended
  /\ server[l] = "draining"
  /\ \A r \in Request : ~(r.via = l /\ Active(r))
  /\ server' = [server EXCEPT ![l] = "down"]
  /\ UNCHANGED <<config, pc, exit, sweeper, stage, rest, todo, ledger>>

(* A server task ends with an error or a panic; its connections live on.   *)
ServerFails(l) ==
  /\ ServersMayFail
  /\ ~Ended
  /\ server[l] \in {"up", "draining"}
  /\ server' = [server EXCEPT ![l] = "failed"]
  /\ UNCHANGED <<config, pc, exit, sweeper, stage, rest, todo, ledger>>

(* With a client CA the handshake already asks for a certificate. *)
Handshake(r) == cfg.ca => r.cert

Send(r) ==
  /\ ~Ended
  /\ stage[r] = "unsent"
  /\ server[r.via] = "up"
  /\ Handshake(r)
  /\ stage' = [stage EXCEPT ![r] = "sent"]
  /\ UNCHANGED <<config, pc, exit, server, sweeper, rest, todo, ledger>>

(* bearer_interceptor and bearer_middleware look at the headers only. *)
Authenticate(r) ==
  /\ ~Ended
  /\ stage[r] = "sent"
  /\ stage' = [stage EXCEPT ![r] =
                 IF cfg.token \in {"none", r.auth} THEN "admitted" ELSE "unauthenticated"]
  /\ UNCHANGED <<config, pc, exit, server, sweeper, rest, todo, ledger>>

(* What is wrong with a body.  The size limit of the route or service acts *)
(* while it is read; HTTP then asks for protobuf; then it is decoded.      *)
GrpcDefect(r) == IF ~r.fits THEN "too_large"
                 ELSE IF ~r.decodes THEN "undecodable" ELSE "ingest"
HttpDefect(r) == IF r.fits /\ ~r.media THEN "unsupported" ELSE GrpcDefect(r)
Defect(r) == IF r.via = "grpc" THEN GrpcDefect(r) ELSE HttpDefect(r)

ReadBody(r) ==
  /\ ~Ended
  /\ stage[r] = "admitted"
  /\ stage' = [stage EXCEPT ![r] = Defect(r)]
  /\ rest' = [rest EXCEPT ![r] = IF Defect(r) = "ingest" THEN Records[r] ELSE {}]
  /\ UNCHANGED <<config, pc, exit, server, sweeper, todo, ledger>>

(* A client that gives up while its request is read: the handler is        *)
(* dropped.  From the decoding on there is no await left.                  *)
Disconnect(r) ==
  /\ ~Ended
  /\ stage[r] \in {"sent", "admitted"}
  /\ stage' = [stage EXCEPT ![r] = "gone"]
  /\ UNCHANGED <<config, pc, exit, server, sweeper, rest, todo, ledger>>

(* SessionRouter::ingest takes the mapped records one by one; a record     *)
(* without a session is only counted.                                      *)
IngestRecord(r, e) ==
  /\ ~Ended
  /\ stage[r] = "ingest"
  /\ e \in rest[r]
  /\ rest' = [rest EXCEPT ![r] = @ \ {e}]
  /\ memory' = IF SessionOf[e] \in Session THEN memory \cup {e} ELSE memory
  /\ UNCHANGED <<config, pc, exit, server, sweeper, stage, todo, persisted, failed>>

(* The answer is a success whatever the mapper refused. *)
Answer(r) ==
  /\ ~Ended
  /\ stage[r] = "ingest"
  /\ rest[r] = {}
  /\ stage' = [stage EXCEPT ![r] = "ok"]
  /\ UNCHANGED <<config, pc, exit, server, sweeper, rest, todo, ledger>>

-----------------------------------------------------------------------------
InMemory(s) == {e \in memory : SessionOf[e] = s}

(* A session leaves the router: its write is committed, or it fails. *)
FlushSession(s) ==
  /\ memory' = memory \ InMemory(s)
  /\ \/ persisted' = persisted \cup InMemory(s) /\ UNCHANGED failed
     \/ failed' = failed \cup InMemory(s) /\ UNCHANGED persisted
  /\ UNCHANGED <<config, pc, exit, server, stage, rest>>

(* While serving: an idle session, or one closed by an event of a request. *)
CloseSession(s) ==
  /\ ~Ended
  /\ sweeper = "ticking" \/ \E r \in Request : stage[r] = "ingest"
  /\ InMemory(s) # {}
  /\ FlushSession(s)
  /\ UNCHANGED <<sweeper, todo>>

WrongFlushAllBegin ==
  /\ ~Ended
  /\ sweeper = "cancelled"
  /\ sweeper' = "flushing"
  /\ todo' = {s \in Session : Cardinality(InMemory(s)) > 1}
  /\ UNCHANGED <<config, pc, exit, server, stage, rest, ledger>>

(* flush_all(Shutdown) lists the open sessions and closes them one by one. *)
FlushAllBegin ==
  /\ ~Ended
  /\ sweeper = "cancelled"
  /\ sweeper' = "flushing"
  /\ todo' = {s \in Session : InMemory(s) # {}}
  /\ UNCHANGED <<config, pc, exit, server, stage, rest, ledger>>

FlushAll(s) ==
  /\ ~Ended
  /\ s \in todo
  /\ todo' = todo \ {s}
  /\ FlushSession(s)
  /\ UNCHANGED sweeper

FlushAllEnd ==
  /\ ~Ended
  /\ sweeper = "flushing"
  /\ todo = {}
  /\ sweeper' = "done"
  /\ UNCHANGED <<config, pc, exit, server, stage, rest, todo, ledger>>

-----------------------------------------------------------------------------
ComeUp == Configure \/ OpenStore \/ SpawnSweeper \/ BindGrpc \/ BindHttp \/ InstallHandlers

ComeDown == StopListeners \/ StopSweeper \/ JoinSweeper \/ DropSweeper \/ DropRuntime

Serve(r) == \/ Authenticate(r) \/ ReadBody(r) \/ Answer(r)
            \/ \E e \in Event : IngestRecord(r, e)

Sweeper == FlushAllBegin \/ FlushAllEnd \/ \E s \in Session : FlushAll(s)

Next == \/ ComeUp \/ Signal \/ Kill \/ ComeDown
        \/ \E l \in Listener : ServerDrained(l) \/ ServerFails(l)
        \/ \E r \in Request : Send(r) \/ Serve(r) \/ Disconnect(r)
        \/ Sweeper
        \/ \E s \in Session : CloseSession(s)
        \/ (Ended /\ UNCHANGED vars)

Spec == Init /\ [][Next]_vars

(* What the steps of one thread owe each other.  A client either sends its *)
(* whole request or hangs up: the code has no deadline for it.             *)
Fairness ==
  /\ WF_vars(ComeDown)
  /\ WF_vars(Sweeper)
  /\ \A l \in Listener : WF_vars(ServerDrained(l))
  /\ \A r \in Request : WF_vars(Serve(r) \/ Disconnect(r))

FairSpec == Spec /\ Fairness

-----------------------------------------------------------------------------
TypeOK ==
  /\ cmd \in Cmd /\ file \in File
  /\ pc \in {"config", "open", "spawn", "bind_grpc", "bind_http", "handlers", "wait",
             "stop_grpc", "join_grpc", "stop_http", "join_http", "stop_sweeper",
             "join_sweeper", "ok", "error", "ended"}
  /\ exit \in {"none", "ok", "error", "killed"} /\ (Ended <=> pc = "ended")
  /\ server \in [Listener -> {"off", "up", "draining", "down", "failed"}]
  /\ sweeper \in {"off", "ticking", "panicked", "cancelled", "flushing", "done", "aborted"}
  /\ stage \in [Request -> {"unsent", "sent", "admitted", "ingest", "ok", "gone", "unauthenticated",
                            "too_large", "unsupported", "undecodable"}]
  /\ rest \in [Request -> SUBSET Event]
  /\ todo \subseteq Session
  /\ memory \subseteq Event /\ persisted \subseteq Event /\ failed \subseteq Event

Routable(r) == {e \in Records[r] : SessionOf[e] \in Session}
Flushed == persisted \cup failed

(* The final flush of a clean shutdown races with no request, on either    *)
(* listener: this is what the order stop, join, flush is for               *)
(* (ingest_otlp.rs:20).                                                    *)
FinalFlushIsAlone ==
  pc = "join_sweeper" => \A r \in Request : ~Active(r)

(* A client that was answered with success can forget its events: they     *)
(* are in memory or were written, and after a clean exit all were written. *)
AnsweredIsKept ==
  \A r \in Request : stage[r] = "ok" =>
    /\ Routable(r) \subseteq memory \cup Flushed
    /\ exit = "ok" => Routable(r) \subseteq Flushed

(* The token the operator asked for: on the command line or, without one,  *)
(* in the file.                                                            *)
Demanded == IF cmd.token # "unset" THEN {cmd.token}
            ELSE IF file.token \in Token THEN {file.token} ELSE {}
Trusted(r) == Demanded = {} \/ r.auth \in Demanded

(* Nothing of a request that does not carry the demanded token, not even   *)
(* its body, gets past the headers, and nothing of a refused request       *)
(* reaches the router, whichever listener took it.                         *)
StrangersAreNotRead ==
  \A r \in Request :
    /\ ~Trusted(r) => stage[r] \in {"unsent", "sent", "unauthenticated", "gone"}
    /\ stage[r] \in {"unauthenticated", "too_large", "unsupported", "undecodable"} =>
         Records[r] \cap (memory \cup Flushed) = {}

(* Until the process exits, from its command line on and whatever fails:   *)
(* what a client was told holds, what was refused leaves no trace, and the *)
(* final flush races with no request.                                      *)
ReceiverIsSafe == TypeOK /\ FinalFlushIsAlone /\ AnsweredIsKept /\ StrangersAreNotRead

(* Once the signal has been taken the process ends, if clients do not      *)
(* stall.                                                                  *)
ShutdownCompletes == pc = "stop_grpc" ~> Ended

(* The receiver keeps the promise of the ledger on every way out: only a   *)
(* clean exit counts as a stop, and it leaves nothing in memory.           *)
Ledger == INSTANCE EventLedger
            WITH accepted <- memory, stopped <- exit = "ok",
                 unsent <- Event \ (memory \cup Flushed
                                    \cup UNION {Records[r] \ (rest[r] \cup Routable(r)) :
                                                  r \in {q \in Request : stage[q] \in {"ingest", "ok"}}})
KeepsLedger == Ledger!Spec
=============================================================================
