----------------------------- MODULE MCDashboard -----------------------------
(* One recent and one older session; two browsers that may ask for         *)
(* anything, with and without the suffix of a chunk; two other processes.  *)
EXTENDS Dashboard, TLC

CONSTANTS recent, older, good, bad, here, q1, q2

MCAge == (recent :> 3) @@ (older :> 20)
MCServersOf == (recent :> {"github"}) @@ (older :> {})
MCWithin == ("7d" :> 7) @@ ("all" :> 1000)
MCDefaultPath == ("cache" :> "cache.sqlite") @@ ("store" :> "store.sqlite")

Settings(path, bind, interval, auto_open) ==
  [mode |-> None, path |-> path, bind |-> bind, interval |-> interval, auto_open |-> auto_open]
MCEdits == {Settings(None, bad, None, None), Settings(None, good, 0, TRUE), Settings(here, None, 9, FALSE)}
MCFiles == {NoFile, Malformed} \cup MCEdits

Line(bind, interval, no_open, path) ==
  [bind |-> bind, interval |-> interval, no_open |-> no_open, storage_path |-> path]
MCCommandLines ==
  {Line(None, None, TRUE, None), Line(None, None, FALSE, here), Line(good, 7, TRUE, here)}

Ask(kind, chunk, ext, id, by, since) ==
  [kind |-> kind, chunk |-> chunk, ext |-> ext, id |-> id, by |-> by, since |-> since]
AnyAsk ==
  { Ask("sessions", TRUE, FALSE, None, "", ""),
    Ask("session", FALSE, TRUE, recent, "", ""),
    Ask("aggregate", FALSE, FALSE, None, "model", "7d"), Ask("aggregate", TRUE, FALSE, None, "mcp-server", "7d"),
    Ask("server", TRUE, TRUE, "github", "", "all"), Ask("static", FALSE, FALSE, None, "", "") }
OtherAsk == {Ask("session", TRUE, TRUE, recent, "", "")}
MCAsks == (q1 :> AnyAsk) @@ (q2 :> OtherAsk)

(* Every file and command line is tried up to the listening socket, and    *)
(* every race to make the store; one of them goes on to serve requests,    *)
(* from a store in which the older session is absent or whole.  After      *)
(* config commands the server is followed until it has read the file.      *)
Configured == user # [t \in Terminal |-> NoCommand] \/ printed # None
Explored ==
  /\ phase = "serving" =>
       /\ conf = NoFile /\ cli.bind = None /\ opening["init"].at = "closed"
       /\ row[older] \in {NoRow, [report |-> 1, episodes |-> 1]}
  /\ Configured => phase \in {"off", "path"} /\ opening["init"].at = "closed" /\ row[older] = NoRow
=============================================================================
