--------------------------- MODULE MCBatchCommand ---------------------------
(* Three sessions: one that is still running and calls an MCP tool of two   *)
(* servers in two turns, one with another model of the same family, and one *)
(* on another day that only announces tools, whose first turn names no model*)
(* and whose second has the earlier time.                                   *)
EXTENDS BatchCommand, TLC

CONSTANTS s1, s2, s3, bash, srv, web, query, list, fetch, sonnet, gpt, a, b

Sonnet(v) == <<sonnet, v>>
Query == <<srv, query>>
Fetch == <<web, fetch>>
Bash == <<bash>>
Names == <<Bash, <<srv, fetch>>, <<srv, list>>, Query, Fetch>>
Order == Names \o [i \in DOMAIN Tail(Names) |-> HashedName(Tail(Names)[i])]
           \o <<<<srv>>, <<web>>, <<gpt>>, <<gpt, a>>, <<sonnet>>, Sonnet(a), Sonnet(b)>>
InOrder(x, y) == \E i, j \in DOMAIN Order : i < j /\ Order[i] = x /\ Order[j] = y

Turn(k, from, to, model, calls) ==
  [id |-> k, from |-> from, to |-> to, status |-> IF to = None THEN "open" ELSE "complete",
   model |-> model, mode |-> None, tokens |-> k, tool_calls |-> calls, hook_calls |-> <<>>, skill_calls |-> <<>>]
Call(from, to, turn, status) ==
  [from |-> from, to |-> to, turn |-> turn, status |-> status, requested |-> FALSE]
Ref(n) == [name |-> n, index |-> 1]
Tokens(n) == [input |-> n, output |-> n + 1, read |-> n - 1, write |-> 2]
Seen(start, turns, tools, usage, loaded) ==
  [start |-> start, turns |-> turns, tools |-> tools, hooks |-> <<>>, skills |-> <<>>,
   segments |-> <<[from |-> start, to |-> None]>>, aborts |-> <<start>>,
   usage |-> usage, loaded |-> loaded]

First == Seen(1, <<Turn(1, 1, 3, Sonnet(a), <<Ref(Query), Ref(Bash)>>)>>,
              Query :> <<Call(1, 2, 1, "success")>> @@ Bash :> <<Call(2, 3, 1, "failure")>>,
              Sonnet(a) :> Tokens(2) @@ Sonnet(b) :> Tokens(4), {Query, <<srv, list>>})
Grown == [First EXCEPT
           !.turns = Append(@, Turn(2, 4, None, Sonnet(b), <<Ref(Fetch)>>)),
           !.tools = @ @@ Fetch :> <<Call(4, 6, 2, "success"), Call(6, 7, 0, "open")>>,
           !.loaded = @ \cup {Fetch}]
Second == Seen(2, <<Turn(1, 2, 5, Sonnet(b), <<Ref(Query)>>)>>,
               Query :> <<Call(2, 5, 1, "success")>>, Sonnet(b) :> Tokens(1) @@ <<gpt, a>> :> Tokens(3), {Fetch})
Third == Seen(11, <<Turn(1, 12, 13, None, <<>>), Turn(2, 11, 12, <<gpt, a>>, <<>>)>>, <<>>, <<>>, {Query})

MCSession == {s1, s2, s3}
MCRoots == {SelectSeq(<<s3, s2, s1>>, LAMBDA s : s \in p) : p \in SUBSET MCSession}
MCContent == s1 :> <<First, Grown>> @@ s2 :> <<Second>> @@ s3 :> <<Third>>
MCBlocking == {Bash}
MCO200k == {<<gpt, a>>}

NoFile == [shape |-> "absent", servers |-> <<>>]
Listed == [shape |-> "servers",
           servers |-> <<srv>> :> <<{<<query>>, <<fetch>>}>> @@ <<web>> :> <<>>]
NamesOnly == [shape |-> "mcpServers", servers |-> <<srv>> :> <<{<<query>>}>>]

Text(old, new) == [cl100k_base |-> old, o200k_base |-> new]
File(server, state, tools) == [server |-> server, state |-> state, tools |-> tools]
Tool(name, text) == [name |-> name, text |-> text]
NoText == [kind |-> "none", servers |-> <<>>]
Broken == [kind |-> "malformed", servers |-> <<>>]
OneFile == [kind |-> "file", servers |-> <<File(<<srv>>, "list", <<Tool(<<query>>, Text(7, 5)), Tool(<<list>>, Text(4, 6))>>)>>]
Folder == [kind |-> "dir", servers |->
  <<File(<<srv>>, "wrapped", <<Tool(<<query>>, Text(7, 5))>>),
    File(<<web>>, "malformed", <<Tool(<<fetch>>, Text(9, 9))>>)>>]
Inputs == {<<NoFile, NoText>>, <<Listed, OneFile>>, <<NamesOnly, Folder>>, <<Listed, Broken>>,
           <<Listed, NoText>>}
With(commands, inputs) == {c @@ [mcp |-> f[1], descriptions |-> f[2]] : c \in commands, f \in inputs}

Aggregates == [kind : {"aggregate"}, by : {"tool", "day", "model"}, level : Level, tui : BOOLEAN,
               limit : 0..1, waste : {FALSE}]
ByServers == [kind : {"aggregate"}, by : {"mcp-server"}, level : Level, tui : {FALSE},
              limit : {0}, waste : {TRUE}]
Selectors == [by : {"latest", "previous"}] \cup [by : {"uuid"}, id : {s1}]
               \cup [by : {"path"}, id : {s1}, is : {"file", "missing"}]
Analyzes == [kind : {"analyze"}, by : {"none"}, level : Level, tui : {FALSE}, limit : {0},
             waste : BOOLEAN, session : Selectors]
             \cup {[kind |-> "analyze", by |-> "none", level |-> "none", tui |-> TRUE, limit |-> 0,
                    waste |-> TRUE, session |-> [by |-> "latest"]]}
Watches == [kind : {"watch"}, by : {"tool", "day", "model"}, level : {"none"}, tui : {TRUE}, limit : {0, 1},
            waste : {FALSE}]
Lists == [kind : {"list"}, by : {"none"}, level : Level, tui : {FALSE}, limit : {0, 2},
          waste : {FALSE}]
Wasteful == [kind : {"mcp-waste"}, by : {"none"}, level : {"none"}, tui : {FALSE}, limit : {0, 1, 9},
             waste : {TRUE}]
MCCommands ==
  With(Lists \cup Aggregates \cup Watches, {<<NoFile, NoText>>})
  \cup With(ByServers \cup Analyzes \cup Wasteful, Inputs)
=============================================================================
