------------------------------ MODULE Redaction -----------------------------
(***************************************************************************)
(* What --privacy replaces (agentprof-core, analyzer/redact.rs): ids by    *)
(* numbered aliases, models by their family and, when anonymizing, MCP     *)
(* servers by their hash and every instant by the epoch.                   *)
(*                                                                         *)
(* A context hands out aliases and remembers originals as the parts of a   *)
(* report are visited.  It only grows and the first original stays, so it  *)
(* is computed once from everything in the order of the visit.  Alias k is *)
(* the number -k, which no turn has; a hash is a part of a name of its own.*)
(***************************************************************************)
EXTENDS Aggregate

Level == {"none", "redact", "anonymize"}
Epoch == 0

(* model_family; hash_short; hash_mcp_tool_name.                           *)
Family(model) == IF model = None THEN None ELSE <<model[1]>>
Hash(server) == <<[hash |-> server]>>
HashedName(name) == IF IsMcp(name) THEN Hash(ServerOf(name)) \o Tail(name) ELSE name
HashedRow(row) == [row EXCEPT !.name = HashedName(@)]
HashedTool(t) == [t EXCEPT !.tool_name = HashedName(@)]

(* What s has, in the order of the first time.                             *)
Firsts(s) == PickedAt(s, {i \in DOMAIN s : \A j \in DOMAIN s : j < i => s[j] # s[i]})

(* RedactionContext: models maps a family to its first model.              *)
FirstOfFamily(models) ==
  [f \in {Family(m) : m \in ToSet(models)} |->
    PickedAt(models, {i \in DOMAIN models : Family(models[i]) = f})[1]]
HashesOf(servers) == [h \in {Hash(s) : s \in servers} |-> CHOOSE s \in servers : Hash(s) = h]
Servers(names) == {ServerOf(n) : n \in {m \in names : IsMcp(m)}}

(* UuidRedactor::redact                                                    *)
Alias(uuids, id) == -(CHOOSE k \in DOMAIN uuids : uuids[k] = id)

(* Everything of the episodes that is visited, in that order.              *)
CallsOf(byName) ==
  LET names == ByName(DOMAIN byName)
      upTo[k \in 0..Len(names)] == IF k = 0 THEN <<>> ELSE upTo[k - 1] \o byName[names[k]]
  IN  upTo[Len(names)]
InTurns(calls) == PickedAt(calls, {i \in DOMAIN calls : calls[i].turn # 0})
IdsOf(report, e) ==
  LET calls == CallsOf(e.tools) \o CallsOf(e.hooks) \o CallsOf(e.skills) IN
  <<report.id>> \o [k \in DOMAIN report.turns |-> report.turns[k].turn_id]
    \o [k \in DOMAIN e.turns |-> k]
    \o [k \in DOMAIN InTurns(calls) |-> InTurns(calls)[k].turn]
ModelsOf(report, e) ==
  LET all == [k \in DOMAIN report.turns |-> report.turns[k].model] \o ByName(DOMAIN report.usage)
               \o [k \in DOMAIN e.turns |-> e.turns[k].model]
  IN  PickedAt(all, {i \in DOMAIN all : all[i] # None})
NamesOf(report, e) ==
  {report.rank[i].name : i \in DOMAIN report.rank} \cup report.loaded
    \cup DOMAIN e.tools \cup DOMAIN e.hooks \cup DOMAIN e.skills

NewContext(report, e, wasted) ==
  [ uuids |-> Firsts(IdsOf(report, e)),
    models |-> FirstOfFamily(ModelsOf(report, e)),
    servers |-> HashesOf(Servers(NamesOf(report, e))
                  \cup UNION {{w.server} \cup Servers({t.tool_name : t \in w.tools}) : w \in wasted}) ]

-----------------------------------------------------------------------------
(* The counters of models of one family are merged.                        *)
FamilyUsage(usage) ==
  LET sum(f, c) == MapThenSumSet(LAMBDA m : usage[m][c], {m \in DOMAIN usage : Family(m) = f})
  IN  [f \in {Family(m) : m \in DOMAIN usage} |->
        [c \in {"input", "output", "read", "write"} |-> sum(f, c)]]

(* AnalysisReport::redact_with; private stands for cwd, branch, repository,*)
(* producer for the agent's version and producer.                          *)
RedactReport(r, level, uuids) ==
  LET anon == level = "anonymize"
      row(t) == [t EXCEPT !.turn_id = Alias(uuids, @), !.model = Family(@),
                          !.started_at = IF anon THEN Epoch ELSE @]
  IN  IF level = "none" THEN r
      ELSE [r EXCEPT
             !.private = "redacted", !.warnings = {},
             !.id = Alias(uuids, @),
             !.producer = IF anon THEN "redacted" ELSE @,
             !.started_at = IF anon THEN Epoch ELSE @,
             !.turns = [k \in DOMAIN @ |-> row(@[k])],
             !.usage = FamilyUsage(@),
             !.rank = IF anon THEN [i \in DOMAIN @ |-> HashedRow(@[i])] ELSE @,
             !.loaded = IF anon THEN {HashedName(n) : n \in @} ELSE @]

(* Episodes::redact_with; the mode segments stay as they are.              *)
WrongRedactCall(c, anon, uuids) == IF anon THEN [c EXCEPT !.from = Epoch, !.to = Epoch] ELSE c
RedactCall(c, anon, uuids) ==
  LET known == [c EXCEPT !.turn = IF @ = 0 THEN 0 ELSE Alias(uuids, @)]
  IN  IF anon THEN [known EXCEPT !.from = Epoch, !.to = Epoch] ELSE known
RedactSkill(c, anon, uuids) ==
  [c EXCEPT !.turn = IF @ = 0 THEN 0 ELSE Alias(uuids, @), !.at = IF anon THEN Epoch ELSE @]

Rekeyed(byName, anon, uuids, redact(_, _, _)) ==
  LET key(n) == IF anon THEN HashedName(n) ELSE n
      of(k) == byName[CHOOSE n \in DOMAIN byName : key(n) = k]
  IN  [k \in {key(n) : n \in DOMAIN byName} |-> [i \in DOMAIN of(k) |-> redact(of(k)[i], anon, uuids)]]

RedactEpisodes(e, level, uuids) ==
  LET anon == level = "anonymize"
      refs(s) == IF anon THEN [i \in DOMAIN s |-> HashedRow(s[i])] ELSE s
      turn(t, k) == [t EXCEPT !.id = Alias(uuids, k), !.model = Family(@),
                              !.from = IF anon THEN Epoch ELSE @,
                              !.to = IF anon /\ @ # None THEN Epoch ELSE @,
                              !.tool_calls = refs(@), !.hook_calls = refs(@), !.skill_calls = refs(@)]
  IN  IF level = "none" THEN e
      ELSE [e EXCEPT !.turns = [k \in DOMAIN @ |-> turn(@[k], k)],
                     !.tools = Rekeyed(@, anon, uuids, RedactCall),
                     !.hooks = Rekeyed(@, anon, uuids, RedactCall),
                     !.skills = Rekeyed(@, anon, uuids, RedactSkill),
                     !.aborts = [i \in DOMAIN @ |-> IF anon THEN Epoch ELSE @[i]],
                     !.usage = FamilyUsage(@),
                     !.loaded = IF anon THEN {HashedName(n) : n \in @} ELSE @]

(* WasteReport::redact_with                                                *)
RedactWaste(waste, level) ==
  LET row(w) == [w EXCEPT !.server = Hash(@), !.tools = {HashedTool(t) : t \in @}]
  IN  IF level # "anonymize" THEN waste
      ELSE [waste EXCEPT !.server_waste = [i \in DOMAIN @ |-> row(@[i])]]

-----------------------------------------------------------------------------
(* AggregateReport::redact: RedactBucket::redact_key, then consolidate.    *)
RedactKey(by, key, level) ==
  CASE by = "model" -> IF level = "none" THEN key ELSE Family(key)
    [] by = "mcp-server" -> IF level = "anonymize" THEN Hash(key) ELSE key
    [] by = "tool" -> IF level = "anonymize" THEN HashedName(key) ELSE key
    [] by = "day" -> key

Merged(a, b) == [f \in DOMAIN a |-> IF f = "key" THEN a[f] ELSE a[f] + b[f]]
WrongConsolidate(buckets) ==
  FoldLeft(LAMBDA out, b : IF \E i \in DOMAIN out : out[i].key = b.key THEN out ELSE Append(out, b),
           <<>>, buckets)
Consolidate(buckets) ==
  FoldLeft(LAMBDA out, b :
             IF \E i \in DOMAIN out : out[i].key = b.key
             THEN [i \in DOMAIN out |-> IF out[i].key = b.key THEN Merged(out[i], b) ELSE out[i]]
             ELSE Append(out, b),
           <<>>, buckets)

RedactAggregate(r, level) ==
  LET keyed == [i \in DOMAIN r.buckets |-> [r.buckets[i] EXCEPT !.key = RedactKey(r.by, @, level)]]
  IN  [r EXCEPT !.buckets = IF r.by = "model" /\ level # "none" THEN Consolidate(keyed) ELSE keyed]

NoMap == [uuids |-> <<>>, models |-> <<>>, servers |-> <<>>]
AggregateMap(r, level) ==
  LET keys == [i \in DOMAIN r.buckets |-> r.buckets[i].key] IN
  IF level # "anonymize" THEN NoMap
  ELSE [NoMap EXCEPT !.models = IF r.by = "model" THEN FirstOfFamily(keys) ELSE @,
                     !.servers = IF r.by = "mcp-server" THEN HashesOf(ToSet(keys))
                                 ELSE IF r.by = "tool" THEN HashesOf(Servers(ToSet(keys))) ELSE @]
=============================================================================
