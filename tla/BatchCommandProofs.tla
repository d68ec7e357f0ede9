------------------------- MODULE BatchCommandProofs -------------------------
(***************************************************************************)
(* Theorems about BatchCommand: whichever read or write fails, the exit    *)
(* code, the counts and the store tell what happened (IInv); and what      *)
(* analyze writes under --privacy joins (JoinInv): it is the redaction of  *)
(* one read of one session, so what remains is about RedactReport,         *)
(* RedactEpisodes, RedactWaste and NewContext of any session.              *)
(***************************************************************************)
EXTENDS BatchCommand, AnalyzerProofs

Places == {"start", "load", "episodes", "cache", "tui", "write", "map", "done"}

(* Where the report is there to be shown.                                  *)
Computed == pc \in {"tui", "write", "map"} \/ output # <<>>

(* Every session found is loaded, failed or still to come.                 *)
LoadsOK ==
  /\ refs \in Seq(Session)
  /\ at = Len(pairs) + failures + 1
  /\ at <= Len(refs) + 1
  /\ pc = "start" => at = 1
  /\ pc = "episodes" => at <= Len(refs)
  /\ Computed => at = Len(refs) + 1 /\ (pairs = <<>> => refs = <<>>)

(* What a report says of its sessions.                                     *)
Counts(report, loaded, failed) ==
  CASE cmd.kind \in {"aggregate", "watch"} ->
         /\ {"session_count", "failure_count"} \subseteq DOMAIN report
         /\ report.session_count = loaded /\ report.failure_count = failed
    [] cmd.kind = "list" -> DOMAIN report = 1..loaded /\ Len(report) = loaded
    [] OTHER -> TRUE
ReportOK ==
  /\ Computed => Counts(made, Len(pairs), failures)
  /\ output # <<>> => Counts(out, Len(pairs), failures)

(* The terminal or the writers: what each place has done.                  *)
PlaceOK ==
  /\ pc \in Places
  /\ pc = "episodes" => cmd.kind = "aggregate"
  /\ pc = "cache" => cmd.kind = "analyze"
  /\ pc = "tui" => cmd.tui
  /\ pc \in {"write", "map"} => ~cmd.tui
  /\ output # <<>> => pc \in {"map", "done"}
  /\ pc = "map" => output # <<>>
  /\ sidecar # <<>> => pc = "done"
  /\ ExitTellsTheTruth

CacheOK ==
  /\ DOMAIN cached = Session
  /\ pc = "cache" => pairs # <<>>
  /\ (\E s \in Session : cached[s] # None) => pairs # <<>>
  /\ CacheIsRaw

IInv ==
  /\ cmd \in Commands /\ root \in Roots
  /\ at \in Nat /\ failures \in Nat
  /\ \E S : pairs \in Seq(S)
  /\ cmd.kind # "analyze" => LoadsOK
  /\ ReportOK /\ PlaceOK /\ CacheOK

-----------------------------------------------------------------------------
LEMMA Told == IInv => OutcomeIsTold
<1> SUFFICES ASSUME IInv PROVE CountsAddUp
  BY DEF IInv, PlaceOK, CacheOK, OutcomeIsTold
<1>1. Len(pairs) \in Nat
  BY DEF IInv
<1>2. CASE cmd.kind \in {"aggregate", "watch"}
  BY <1>1, <1>2 DEF IInv, LoadsOK, ReportOK, Counts, CountsAddUp, Computed, Written
<1>3. CASE cmd.kind = "list"
  BY <1>1, <1>3 DEF IInv, LoadsOK, ReportOK, Counts, CountsAddUp, Computed, Written
<1> QED BY <1>2, <1>3 DEF CountsAddUp, Written

LEMMA InitOK == Init => IInv
<1> SUFFICES ASSUME Init PROVE IInv
  OBVIOUS
<1> USE DEF Init
<1>1. pairs \in Seq({}) /\ refs \in Seq(Session) /\ Len(refs) = 0 /\ Len(pairs) = 0
  OBVIOUS
<1>2. LoadsOK
  BY <1>1 DEF LoadsOK, Computed
<1>3. ReportOK /\ PlaceOK
  BY DEF ReportOK, PlaceOK, Places, Computed, ExitTellsTheTruth, Done
<1>4. CacheOK
  BY DEF CacheOK, CacheIsRaw
<1> QED BY <1>1, <1>2, <1>3, <1>4 DEF IInv

(* A step that leaves what is loaded, made and written alone.              *)
Same == UNCHANGED <<env, at, pairs, failures, made, output, sidecar, cached>>
LEMMA SameCounts ==
  ASSUME UNCHANGED <<env, made, output>>
  PROVE  /\ \A r, l, f : Counts(r, l, f)' <=> Counts(r, l, f)
         /\ MapOwed' <=> MapOwed
         /\ out' = out
BY DEF Counts, MapOwed, RedactionMap, Context, env, out

LEMMA RefusesInv == ASSUME IInv, pc = "start", NEW codes \in SUBSET {UserError, DataError, OutputError},
                           Refuses(codes), Keep PROVE IInv'
<1>1. pc' = "done" /\ exit' \in 1..3 /\ UNCHANGED refs /\ Same
  BY DEF Refuses, Exits, Keep, UserError, DataError, OutputError, Same
<1>2. output = <<>> /\ sidecar = <<>>
  BY DEF IInv, PlaceOK
<1>3. PlaceOK'
  BY <1>1, <1>2 DEF PlaceOK, Places, ExitTellsTheTruth, Done, Same, Success
<1>4. ReportOK'
  BY <1>1, <1>2 DEF ReportOK, Computed, Same
<1>5. CacheOK'
  BY <1>1 DEF IInv, CacheOK, CacheIsRaw, Same
<1>6. cmd'.kind # "analyze" => LoadsOK'
  BY <1>1, <1>2 DEF IInv, LoadsOK, Computed, Same, env
<1> QED BY <1>1, <1>3, <1>4, <1>5, <1>6 DEF IInv, Same, env

LEMMA FoundInv == ASSUME IInv, pc = "start", pc' = "load", Keep,
                         cmd.kind # "analyze" => refs' \in Seq(Session) PROVE IInv'
<1>1. Same
  BY DEF Keep, Same
<1>2. output = <<>> /\ sidecar = <<>>
  BY DEF IInv, PlaceOK
<1>3. PlaceOK'
  BY <1>1, <1>2 DEF PlaceOK, Places, ExitTellsTheTruth, Done, Same
<1>4. ReportOK'
  BY <1>1, <1>2 DEF ReportOK, Computed, Same
<1>5. CacheOK'
  BY <1>1 DEF IInv, CacheOK, CacheIsRaw, Same
<1>6. cmd'.kind # "analyze" => LoadsOK'
  BY <1>1, <1>2 DEF IInv, LoadsOK, Computed, Same, env
<1> QED BY <1>1, <1>3, <1>4, <1>5, <1>6 DEF IInv, Same, env

LEMMA TruncatedSeq == ASSUME cmd \in Commands, NEW s \in Seq(Session) PROVE Truncated(s) \in Seq(Session)
<1>1. CASE cmd.limit > 0
  <2> DEFINE n == Min({cmd.limit, Len(s)})
  <2>1. cmd.limit \in Nat /\ Len(s) \in Nat
    BY BatchAssumption
  <2>2. n \in {cmd.limit, Len(s)} /\ n <= Len(s)
    <3>1. \E x \in {cmd.limit, Len(s)} : \A y \in {cmd.limit, Len(s)} : x <= y
      BY <2>1
    <3> QED BY <3>1 DEF Min
  <2>3. n \in Nat
    BY <2>1, <2>2
  <2> HIDE DEF n
  <2>4. SubSeq(s, 1, n) \in Seq(Session)
    BY <2>1, <2>2, <2>3
  <2> QED BY <1>1, <2>4 DEF Truncated, n
<1> QED BY <1>1 DEF Truncated

LEMMA DiscoverInv == ASSUME IInv, Discover PROVE IInv'
<1>1. root \in Seq(Session)
  BY BatchAssumption DEF IInv
<1>2. pc = "start" /\ Keep
  BY DEF Discover, DiscoverList, DiscoverAggregate, DiscoverWatched, DiscoverWaste, ResolveSession
<1>3. CASE \E codes \in SUBSET {UserError, DataError, OutputError} : Refuses(codes)
  BY <1>2, <1>3, RefusesInv
<1>4. CASE pc' = "load" /\ (cmd.kind # "analyze" => refs' \in Seq(Session))
  BY <1>2, <1>4, FoundInv
<1> QED BY <1>1, <1>3, <1>4, TruncatedSeq DEF IInv,
            Discover, DiscoverList, DiscoverAggregate, DiscoverWatched, DiscoverWaste, ResolveSession, Goes

-----------------------------------------------------------------------------
(* The loads: one more pair or one more failure.                           *)

LEMMA PairsGrow ==
  ASSUME IInv, NEW p, pairs' = Append(pairs, p)
  PROVE  /\ \E S : pairs' \in Seq(S)
         /\ Len(pairs') = Len(pairs) + 1 /\ pairs' # <<>>
         /\ pairs # <<>> => pairs'[1] = pairs[1]
<1>1. PICK S : pairs \in Seq(S)
  BY DEF IInv
<1> DEFINE T == S \cup {p}
<1>2. pairs \in Seq(T) /\ p \in T
  BY <1>1
<1> HIDE DEF T
<1>3. pairs' \in Seq(T) /\ Len(pairs') = Len(pairs) + 1
  BY <1>2
<1>4. Len(pairs) \in Nat /\ (pairs # <<>> => Len(pairs) >= 1)
  BY <1>2
<1>5. pairs' # <<>>
  BY <1>3, <1>4
<1> QED BY <1>2, <1>3, <1>4, <1>5

LEMMA PairsStay == ASSUME IInv, UNCHANGED pairs PROVE (\E S : pairs \in Seq(S))' /\ Len(pairs) \in Nat
BY DEF IInv

(* A step of the loads, by what it does to the counts.                     *)
Loads ==
  /\ pc \in {"load", "episodes"} /\ pc' \in {"load", "episodes", "cache"}
  /\ UNCHANGED <<env, refs, made, output, sidecar, cached>>
  /\ at <= Len(refs)
  /\ \/ pc' = "episodes" /\ pc = "load" /\ UNCHANGED <<pairs, failures, at>>
     \/ pc' # "episodes" /\ at' = at + 1 /\ UNCHANGED failures /\ \E p : pairs' = Append(pairs, p)
     \/ pc' = "load" /\ at' = at + 1 /\ failures' = failures + 1 /\ UNCHANGED pairs
  /\ pc' = "cache" => pairs' # <<>> /\ cmd.kind = "analyze"
  /\ pc' = "episodes" => cmd.kind = "aggregate"

LEMMA LoadsInv == ASSUME IInv, Loads PROVE IInv'
<1>1. output = <<>> /\ sidecar = <<>>
  BY DEF IInv, PlaceOK, Loads
<1>2. PlaceOK'
  BY <1>1 DEF PlaceOK, Places, ExitTellsTheTruth, Done, Loads, env
<1>3. ReportOK'
  BY <1>1 DEF ReportOK, Computed, Loads
<1>4. /\ (\E S : pairs \in Seq(S))'
      /\ pairs # <<>> => pairs' # <<>> /\ pairs'[1] = pairs[1]
  BY PairsGrow, PairsStay DEF Loads
<1>5. CacheOK'
  BY <1>4 DEF IInv, CacheOK, CacheIsRaw, Loads
<1>6. at \in Nat /\ failures \in Nat /\ Len(pairs) \in Nat
  BY DEF IInv
<1>7. cmd'.kind # "analyze" => LoadsOK'
  <2> SUFFICES ASSUME cmd.kind # "analyze" PROVE LoadsOK'
    BY DEF Loads, env
  <2>1. refs' \in Seq(Session) /\ Len(refs) \in Nat /\ LoadsOK
    BY DEF IInv, LoadsOK, Loads
  <2>2. at' = Len(pairs') + failures' + 1 /\ at' <= Len(refs') + 1
    <3>1. CASE pc' = "episodes" /\ UNCHANGED <<pairs, failures, at>>
      BY <1>6, <2>1, <3>1 DEF Loads, LoadsOK
    <3>2. CASE at' = at + 1 /\ UNCHANGED failures /\ \E p : pairs' = Append(pairs, p)
      <4>1. PICK p : pairs' = Append(pairs, p)
        BY <3>2
      <4>2. Len(pairs') = Len(pairs) + 1
        BY <4>1, PairsGrow
      <4> QED BY <1>6, <2>1, <3>2, <4>2 DEF Loads, LoadsOK
    <3>3. CASE at' = at + 1 /\ failures' = failures + 1 /\ UNCHANGED pairs
      BY <1>6, <2>1, <3>3 DEF Loads, LoadsOK
    <3> QED BY <3>1, <3>2, <3>3 DEF Loads
  <2> QED BY <1>1, <1>6, <2>1, <2>2 DEF LoadsOK, Computed, Loads
<1>8. at' \in Nat /\ failures' \in Nat
  BY <1>6 DEF Loads
<1> QED BY <1>2, <1>3, <1>4, <1>5, <1>7, <1>8 DEF IInv, Loads, env

LEMMA LoadInv == ASSUME IInv, LoadReport \/ LoadEpisodes \/ LoadWhole, pc' # "done" PROVE IInv'
<1>1. CASE LoadReport
  <2>1. Loads
    BY <1>1 DEF LoadReport, Loads, Goes, env
  <2> QED BY <2>1, LoadsInv
<1>2. CASE LoadEpisodes
  <2>1. at <= Len(refs)
    BY <1>2 DEF IInv, LoadsOK, PlaceOK, LoadEpisodes
  <2>2. Loads
    BY <1>2, <2>1 DEF LoadEpisodes, Loads, Goes, env
  <2> QED BY <2>2, LoadsInv
<1>3. CASE LoadWhole
  <2>1. \A p : pairs' = Append(pairs, p) => pairs' # <<>>
    BY PairsGrow
  <2>2. pc' = "cache" => pairs' = Append(pairs, LoadAndAnalyze(refs[at])) /\ cmd.kind = "analyze"
    BY <1>3 DEF LoadWhole, Goes, Exits
  <2>3. pc' = "cache" => pairs' # <<>>
    BY <2>1, <2>2
  <2>4. \/ /\ \E p : pairs' = Append(pairs, p)
           /\ UNCHANGED failures /\ pc' \in {"load", "cache"}
        \/ failures' = failures + 1 /\ UNCHANGED pairs /\ pc' = "load"
    BY <1>3 DEF LoadWhole, Goes, Exits
  <2>5. Loads
    BY <1>3, <2>2, <2>3, <2>4 DEF LoadWhole, Loads, env
  <2> QED BY <2>5, LoadsInv
<1> QED BY <1>1, <1>2, <1>3

(* The one session of analyze does not load.                               *)
LEMMA LoadFailsInv == ASSUME IInv, LoadReport \/ LoadEpisodes \/ LoadWhole, pc' = "done" PROVE IInv'
<1>1. /\ pc = "load" /\ cmd.kind = "analyze" /\ exit' = DataError /\ at' = at + 1
      /\ failures' = failures + 1
      /\ UNCHANGED <<env, refs, pairs, made, output, sidecar, cached>>
  BY DEF LoadReport, LoadEpisodes, LoadWhole, Goes, Exits, env
<1>2. output = <<>> /\ sidecar = <<>>
  BY <1>1 DEF IInv, PlaceOK
<1>3. PlaceOK'
  BY <1>1, <1>2 DEF PlaceOK, Places, ExitTellsTheTruth, Done, Success, DataError
<1>4. ReportOK'
  BY <1>1, <1>2 DEF ReportOK, Computed
<1>5. CacheOK' /\ (\E S : pairs \in Seq(S))'
  BY <1>1, PairsStay DEF IInv, CacheOK, CacheIsRaw
<1> QED BY <1>1, <1>3, <1>4, <1>5 DEF IInv, env

LEMMA WriteThroughInv == ASSUME IInv, WriteThrough PROVE IInv'
<1> DEFINE p == pairs[1]
<1>1. /\ pc = "cache" /\ pc' = "load" /\ pairs # <<>> /\ cmd.kind = "analyze"
      /\ UNCHANGED <<env, refs, at, pairs, failures, made, output, sidecar, exit>>
  BY DEF IInv, CacheOK, PlaceOK, WriteThrough, Goes
<1>2. output = <<>> /\ sidecar = <<>>
  BY <1>1 DEF IInv, PlaceOK
<1>3. PlaceOK'
  BY <1>1, <1>2 DEF PlaceOK, Places, ExitTellsTheTruth, Done
<1>4. ReportOK'
  BY <1>1, <1>2 DEF ReportOK, Computed
<1>5. CacheOK'
  <2> DEFINE Row(stored) == IF stored = <<>> THEN None
                            ELSE NewRow(p.report, IF Len(stored) = 2 THEN p.episodes ELSE None)
  <2>0. PICK stored \in {<<>>, <<"report">>, <<"report", "episodes">>} :
               cached' = [cached EXCEPT ![p.report.id] = Row(stored)]
    BY DEF WriteThrough
  <2> DEFINE row == Row(stored)
  <2>1. /\ cached' = [cached EXCEPT ![p.report.id] = row]
        /\ row # None => row.report = p.report
    BY <2>0 DEF NewRow
  <2> HIDE DEF row
  <2>2. DOMAIN cached' = Session
    BY <2>1 DEF IInv, CacheOK
  <2>3. \A s \in Session : cached'[s] = IF s = p.report.id THEN row ELSE cached[s]
    BY <2>1 DEF IInv, CacheOK
  <2>4. CacheIsRaw'
    BY <1>1, <2>1, <2>3 DEF IInv, CacheOK, CacheIsRaw
  <2> QED BY <1>1, <2>2, <2>4 DEF CacheOK
<1> QED BY <1>1, <1>3, <1>4, <1>5, PairsStay DEF IInv, env

-----------------------------------------------------------------------------
(* What is computed has the counts of what was loaded.                     *)

LEMMA MadeCounts ==
  ASSUME IInv, Compute, pc' # "done" PROVE Counts(made', Len(pairs), failures)
<1>1. Len(pairs) \in Nat /\ DOMAIN pairs = 1..Len(pairs)
  BY DEF IInv
<1>2. CASE cmd.kind \in {"aggregate", "watch"}
  <2>1. made' = Aggregated
    BY <1>2 DEF Compute, Exits
  <2> QED BY <1>2, <2>1 DEF Counts, Aggregated
<1>3. CASE cmd.kind = "list"
  <2> DEFINE row(i) == ListRow(pairs[i].report)
  <2>1. made' = [i \in DOMAIN pairs |-> row(i)]
    BY <1>3 DEF Compute, Exits
  <2> HIDE DEF row
  <2>2. made' \in Seq({row(i) : i \in DOMAIN pairs})
    BY <1>1, <2>1, IsASeq
  <2> QED BY <1>1, <1>3, <2>1, <2>2 DEF Counts
<1> QED BY <1>2, <1>3 DEF Counts

LEMMA ComputeInv == ASSUME IInv, Compute PROVE IInv'
<1>1. pc = "load" /\ UNCHANGED <<env, refs, at, pairs, failures, output, sidecar, cached>>
  BY DEF Compute, env
<1>2. output = <<>> /\ sidecar = <<>>
  BY <1>1 DEF IInv, PlaceOK
<1>3. CASE pc' = "done"
  <2>1. exit' \in {UserError, DataError}
    BY <1>3 DEF Compute, Exits, Goes
  <2>2. PlaceOK'
    BY <1>1, <1>2, <1>3, <2>1 DEF PlaceOK, Places, ExitTellsTheTruth, Done, Success, UserError, DataError
  <2>3. ReportOK'
    BY <1>1, <1>2, <1>3 DEF ReportOK, Computed
  <2>4. CacheOK'
    BY <1>1, <1>3 DEF IInv, CacheOK, CacheIsRaw
  <2>5. cmd.kind # "analyze" => LoadsOK'
    BY <1>1, <1>2, <1>3 DEF IInv, LoadsOK, Computed
  <2> QED BY <1>1, <2>2, <2>3, <2>4, <2>5, PairsStay DEF IInv, env
<1>4. CASE pc' # "done"
  <2>1. /\ pc' = IF cmd.tui THEN "tui" ELSE "write"
        /\ at > Len(refs) /\ (pairs # <<>> \/ refs = <<>>)
    BY <1>4 DEF Compute, Exits, Goes
  <2>2. PlaceOK'
    BY <1>1, <1>2, <2>1 DEF PlaceOK, Places, ExitTellsTheTruth, Done, env
  <2>3. Counts(made, Len(pairs), failures)'
    BY <1>1, <1>4, MadeCounts DEF Counts, env
  <2>4. ReportOK'
    BY <1>1, <1>2, <2>3 DEF ReportOK
  <2>5. CacheOK'
    BY <1>1, <2>1 DEF IInv, CacheOK, CacheIsRaw
  <2>6. cmd.kind # "analyze" => LoadsOK'
    BY <1>1, <1>2, <2>1 DEF IInv, LoadsOK
  <2> QED BY <1>1, <2>2, <2>4, <2>5, <2>6, PairsStay DEF IInv, env
<1> QED BY <1>3, <1>4

-----------------------------------------------------------------------------
(* The ways out.                                                           *)
LEMMA TuiInv == ASSUME IInv, Tui PROVE IInv'
<1>1. /\ pc = "tui" /\ pc' = "done" /\ cmd.tui
      /\ UNCHANGED <<env, refs, at, pairs, failures, made, sidecar, cached>>
      /\ \/ output' = <<made>> /\ exit' = Success
         \/ UNCHANGED output /\ exit' = OutputError
  BY DEF IInv, PlaceOK, Tui, Exits, env
<1>2. output = <<>> /\ sidecar = <<>> /\ Computed
  BY <1>1 DEF IInv, PlaceOK, Computed
<1>3. PlaceOK'
  BY <1>1, <1>2 DEF PlaceOK, Places, ExitTellsTheTruth, Done, Success, OutputError, env
<1>4. ReportOK'
  BY <1>1, <1>2 DEF IInv, ReportOK, Computed, Counts, out, env
<1>5. CacheOK' /\ (\E S : pairs \in Seq(S))'
  BY <1>1, PairsStay DEF IInv, CacheOK, CacheIsRaw
<1>6. cmd.kind # "analyze" => LoadsOK'
  BY <1>1, <1>2 DEF IInv, LoadsOK, Computed
<1> QED BY <1>1, <1>3, <1>4, <1>5, <1>6 DEF IInv, env

(* Redaction keeps what the report says of its sessions.                   *)
LEMMA RedactedCounts ==
  ASSUME IInv, pc = "write" PROVE Counts(Redacted, Len(pairs), failures)
<1>1. Counts(made, Len(pairs), failures) /\ Len(pairs) \in Nat
  BY DEF IInv, ReportOK, Computed
<1>2. cmd.kind # "watch"
  BY BatchAssumption DEF IInv, PlaceOK
<1>3. CASE cmd.kind = "aggregate"
  BY <1>1, <1>3 DEF Counts, Redacted, RedactAggregate
<1>4. CASE cmd.kind = "list"
  <2> DEFINE n == Len(pairs)
             ids == Firsts([i \in DOMAIN made |-> made[i].id])
             row(i) == [made[i] EXCEPT !.id = Alias(ids, @), !.model = Family(@),
                                       !.started_at = IF cmd.level = "anonymize" THEN Epoch ELSE @]
  <2>1. Redacted = IF cmd.level = "none" THEN made ELSE [i \in 1..n |-> row(i)]
    BY <1>1, <1>4 DEF Redacted, RedactRows, Counts
  <2> HIDE DEF row, n, ids
  <2>2. n \in Nat
    BY <1>1 DEF n
  <2>3. [i \in 1..n |-> row(i)] \in Seq({row(i) : i \in 1..n})
    BY <2>2, IsASeq
  <2> QED BY <1>1, <1>4, <2>1, <2>3, <2>2 DEF Counts, n
<1> QED BY <1>2, <1>3, <1>4 DEF Counts

LEMMA WriteInv == ASSUME IInv, Write PROVE IInv'
<1>1. /\ pc = "write" /\ ~cmd.tui
      /\ UNCHANGED <<env, refs, at, pairs, failures, made, sidecar, cached>>
      /\ \/ output' = <<Redacted>> /\ pc' = "map"
         \/ UNCHANGED output /\ pc' = "done" /\ exit' = OutputError
  BY DEF IInv, PlaceOK, Write, Exits, Goes, env
<1>2. output = <<>> /\ sidecar = <<>> /\ Computed
  BY <1>1 DEF IInv, PlaceOK, Computed
<1>3. PlaceOK'
  BY <1>1, <1>2 DEF PlaceOK, Places, ExitTellsTheTruth, Done, Success, OutputError, env
<1>4. ReportOK'
  <2>1. Counts(Redacted, Len(pairs), failures)
    BY <1>1, RedactedCounts
  <2> QED BY <1>1, <1>2, <2>1 DEF IInv, ReportOK, Computed, Counts, out, env
<1>5. CacheOK' /\ (\E S : pairs \in Seq(S))'
  BY <1>1, PairsStay DEF IInv, CacheOK, CacheIsRaw
<1>6. cmd.kind # "analyze" => LoadsOK'
  BY <1>1, <1>2 DEF IInv, LoadsOK, Computed
<1> QED BY <1>1, <1>3, <1>4, <1>5, <1>6 DEF IInv, env

LEMMA WriteMapInv == ASSUME IInv, WriteMap PROVE IInv'
<1>1. /\ pc = "map" /\ pc' = "done" /\ output # <<>> /\ sidecar = <<>>
      /\ UNCHANGED <<env, refs, at, pairs, failures, made, output, cached>>
      /\ \/ ~MapOwed /\ UNCHANGED sidecar /\ exit' = Success
         \/ MapOwed /\ sidecar' # <<>> /\ exit' = Success
         \/ MapOwed /\ UNCHANGED sidecar /\ exit' = OutputError
  <2>1. sidecar' = <<RedactionMap>> => sidecar' # <<>>
    OBVIOUS
  <2>2. pc = "map" /\ output # <<>> /\ sidecar = <<>>
    BY DEF IInv, PlaceOK, WriteMap
  <2>3. UNCHANGED <<env, refs, at, pairs, failures, made, output, cached>>
    BY DEF WriteMap
  <2>4. \/ ~MapOwed /\ UNCHANGED sidecar /\ pc' = "done" /\ exit' = Success
        \/ MapOwed /\ sidecar' = <<RedactionMap>> /\ pc' = "done" /\ exit' = Success
        \/ MapOwed /\ UNCHANGED sidecar /\ pc' = "done" /\ exit' = OutputError
    BY DEF WriteMap, Exits
  <2> QED BY <2>1, <2>2, <2>3, <2>4
<1>2. MapOwed' <=> MapOwed
  BY <1>1, SameCounts
<1>3. PlaceOK'
  BY <1>1, <1>2 DEF PlaceOK, Places, ExitTellsTheTruth, Done, Success, OutputError
<1>4. ReportOK'
  BY <1>1 DEF IInv, ReportOK, Computed, Counts, out, env
<1>5. CacheOK' /\ (\E S : pairs \in Seq(S))'
  BY <1>1, PairsStay DEF IInv, CacheOK, CacheIsRaw
<1>6. cmd.kind # "analyze" => LoadsOK'
  BY <1>1 DEF IInv, LoadsOK, Computed
<1> QED BY <1>1, <1>3, <1>4, <1>5, <1>6 DEF IInv, env

(* A session that grows changes nothing the command has in hand.           *)
LEMMA StillInv ==
  ASSUME IInv, UNCHANGED <<env, pc, refs, at, pairs, failures, made, output, sidecar, cached, exit>>
  PROVE  IInv'
<1>1. MapOwed' <=> MapOwed
  BY SameCounts
<1>2. PlaceOK'
  BY <1>1 DEF IInv, PlaceOK, ExitTellsTheTruth, Done, env
<1>3. ReportOK'
  BY DEF IInv, ReportOK, Computed, Counts, out, env
<1>4. CacheOK' /\ (\E S : pairs \in Seq(S))'
  BY PairsStay DEF IInv, CacheOK, CacheIsRaw
<1>5. cmd.kind # "analyze" => LoadsOK'
  BY DEF IInv, LoadsOK, Computed
<1> QED BY <1>2, <1>3, <1>4, <1>5 DEF IInv, env

LEMMA StepInv == IInv /\ [Next]_vars => IInv'
<1> SUFFICES ASSUME IInv, [Next]_vars PROVE IInv'
  OBVIOUS
<1>1. CASE Discover
  BY <1>1, DiscoverInv
<1>2. CASE LoadReport \/ LoadEpisodes \/ LoadWhole
  BY <1>2, LoadInv, LoadFailsInv
<1>3. CASE WriteThrough
  BY <1>3, WriteThroughInv
<1>4. CASE Compute
  BY <1>4, ComputeInv
<1>5. CASE Tui \/ Write \/ WriteMap
  BY <1>5, TuiInv, WriteInv, WriteMapInv
<1>6. CASE (\E s \in Session : Grow(s)) \/ UNCHANGED vars
  BY <1>6, StillInv DEF Grow, vars, env
<1> QED BY <1>1, <1>2, <1>3, <1>4, <1>5, <1>6 DEF Next

(* OutcomeIsTold: for any sessions and command lines, and whichever read   *)
(* or write fails, the exit code tells whether the report and its map are  *)
(* there, loaded and failed sessions are all that were found, and the store*)
(* has what the file said.                                                 *)
THEOREM OutcomeStaysTold == Spec => []OutcomeIsTold
<1>1. Spec => []IInv
  BY InitOK, StepInv, PTL DEF Spec
<1> QED BY <1>1, Told, PTL

-----------------------------------------------------------------------------
(* What either of two sequences has, both together have.                   *)
Has(s, v) == \E i \in DOMAIN s : s[i] = v
LEMMA ConcatHas ==
  ASSUME NEW S, NEW a \in Seq(S), NEW b \in Seq(S), NEW v, Has(a, v) \/ Has(b, v)
  PROVE  Has(a \o b, v)
<1>1. /\ DOMAIN (a \o b) = 1..(Len(a) + Len(b))
      /\ Len(a) \in Nat /\ Len(b) \in Nat /\ DOMAIN a = 1..Len(a) /\ DOMAIN b = 1..Len(b)
  OBVIOUS
<1>2. ASSUME NEW i \in DOMAIN a, a[i] = v PROVE Has(a \o b, v)
  <2>1. i \in DOMAIN (a \o b) /\ (a \o b)[i] = a[i]
    BY <1>1
  <2> QED BY <1>2, <2>1 DEF Has
<1>3. ASSUME NEW i \in DOMAIN b, b[i] = v PROVE Has(a \o b, v)
  <2>1. Len(a) + i \in DOMAIN (a \o b) /\ (a \o b)[Len(a) + i] = b[i]
    BY <1>1
  <2> QED BY <1>3, <2>1 DEF Has
<1> QED BY <1>2, <1>3 DEF Has

(* Calls of every name, one after the other, are calls.                    *)
JoinsUpTo(byName, names, n, f) ==
  f = [k \in 0..n |-> IF k = 0 THEN <<>> ELSE f[k - 1] \o byName[names[k]]]
LEMMA JoinsExist ==
  ASSUME NEW byName, NEW names, NEW n \in Nat PROVE \E f : JoinsUpTo(byName, names, n, f)
<1> DEFINE S == {k \in Nat : \E f : JoinsUpTo(byName, names, k, f)}
<1>1. 0 \in S
  <2> DEFINE f == [k \in 0..0 |-> <<>>]
  <2>1. JoinsUpTo(byName, names, 0, f)
    BY DEF JoinsUpTo
  <2> QED BY <2>1
<1>2. ASSUME NEW k \in Nat, k \in S PROVE k + 1 \in S
  <2>1. PICK f : JoinsUpTo(byName, names, k, f)
    BY <1>2
  <2> DEFINE last == f[k] \o byName[names[k + 1]]
             g == [j \in 0..(k + 1) |-> IF j = k + 1 THEN last ELSE f[j]]
             h == [j \in 0..(k + 1) |-> IF j = 0 THEN <<>> ELSE g[j - 1] \o byName[names[j]]]
  <2>2. /\ \A j \in 0..k : g[j] = f[j] /\ (j # 0 => f[j] = f[j - 1] \o byName[names[j]])
        /\ f[0] = <<>> /\ g[k + 1] = last
    BY <2>1 DEF JoinsUpTo
  <2>3. ASSUME NEW j \in 0..(k + 1) PROVE g[j] = h[j]
    <3>1. h[j] = IF j = 0 THEN <<>> ELSE g[j - 1] \o byName[names[j]]
      OBVIOUS
    <3> HIDE DEF g, h
    <3>2. CASE j = 0
      <4>1. 0 \in 0..k
        OBVIOUS
      <4>2. g[0] = f[0]
        BY <2>2, <4>1
      <4>3. h[0] = <<>>
        BY <3>1, <3>2
      <4>4. f[0] = <<>>
        BY <2>2
      <4> QED BY ONLY <3>2, <4>2, <4>3, <4>4
    <3>3. CASE j = k + 1
      <4>1. j - 1 = k /\ k \in 0..k /\ j # 0
        BY <3>3
      <4> QED BY <2>2, <3>1, <3>3, <4>1
    <3>4. CASE j \in 1..k
      <4>1. j \in 0..k /\ j - 1 \in 0..k /\ j # 0
        BY <3>4
      <4> HIDE DEF last
      <4> QED BY <2>2, <3>1, <4>1
    <3> QED BY <3>2, <3>3, <3>4
  <2>4. g = [j \in 0..(k + 1) |-> g[j]] /\ h = [j \in 0..(k + 1) |-> h[j]]
    OBVIOUS
  <2>5. g = h
    <3> HIDE DEF g, h
    <3> QED BY <2>3, <2>4
  <2> HIDE DEF g
  <2>6. JoinsUpTo(byName, names, k + 1, g)
    BY <2>5 DEF JoinsUpTo
  <2> QED BY <2>6
<1> HIDE DEF S
<1>3. n \in S
  BY <1>1, <1>2, AllNumbers
<1> QED BY <1>3 DEF S

LEMMA CallsAreListed ==
  ASSUME NEW byName, AreNamed(byName) PROVE \E T : CallsOf(byName) \in Seq(T)
<1> DEFINE names == ByName(DOMAIN byName)
           n == Cardinality(DOMAIN byName)
           f == CHOOSE g : JoinsUpTo(byName, names, Len(names), g)
           T == UNION {ToSet(byName[m]) : m \in DOMAIN byName}
<1>1. n \in Nat /\ names \in [1..n -> DOMAIN byName]
  <2> HIDE DEF names
  <2>1. names = ByName(DOMAIN byName)
    BY DEF names
  <2> QED BY <2>1, ByNameIs DEF AreNamed
<1>2. CallsOf(byName) = f[Len(names)]
  BY DEF CallsOf, JoinsUpTo
<1>3. \A m \in DOMAIN byName : byName[m] \in Seq(T)
  <2> SUFFICES ASSUME NEW m \in DOMAIN byName PROVE byName[m] \in Seq(T)
    OBVIOUS
  <2>1. byName[m] \in Seq(ToSet(byName[m])) /\ ToSet(byName[m]) \subseteq T
    BY DEF AreNamed, IsList
  <2> HIDE DEF T
  <2> QED BY <2>1
<1> HIDE DEF names, n
<1>4. Len(names) = n
  BY <1>1
<1>5. JoinsUpTo(byName, names, n, f)
  BY <1>1, <1>4, JoinsExist
<1> HIDE DEF f, T
<1> DEFINE S == {k \in Nat : k <= n => f[k] \in Seq(T)}
<1>6. 0 \in S
  BY <1>5 DEF JoinsUpTo
<1>7. ASSUME NEW k \in Nat, k \in S PROVE k + 1 \in S
  <2> SUFFICES ASSUME k + 1 <= n PROVE f[k + 1] \in Seq(T)
    OBVIOUS
  <2>1. k + 1 \in 1..n /\ k + 1 \in 0..n /\ (k + 1) - 1 = k /\ k + 1 # 0 /\ f[k] \in Seq(T)
    BY <1>1, <1>7
  <2>2. f[k + 1] = f[k] \o byName[names[k + 1]]
    BY <1>5, <2>1 DEF JoinsUpTo
  <2>3. byName[names[k + 1]] \in Seq(T)
    BY <1>1, <1>3, <2>1
  <2> QED BY <2>1, <2>2, <2>3
<1> HIDE DEF S
<1>8. n \in S
  BY <1>1, <1>6, <1>7, AllNumbers
<1> QED BY <1>1, <1>2, <1>4, <1>8 DEF S

(* The first times miss nothing that is there.                             *)
LEMMA FirstsCover ==
  ASSUME NEW T, NEW s \in Seq(T)
  PROVE  Firsts(s) \in Seq(T) /\ \A v : Has(s, v) => Has(Firsts(s), v)
<1> DEFINE n == Len(s)
           S == {i \in DOMAIN s : \A j \in DOMAIN s : j < i => s[j] # s[i]}
           p == Firsts(s)
<1>1. n \in Nat /\ DOMAIN s = 1..n /\ S \in SUBSET (1..n) /\ p = PickedAt(s, S)
  BY DEF Firsts
<1>2. ASSUME NEW i \in 1..n PROVE \E j \in S : s[j] = s[i]
  <2> DEFINE D == {j \in 1..n : s[j] = s[i]}
  <2>1. IsFiniteSet(1..n)
    BY FS_Interval
  <2>2. D \in SUBSET (1..n) /\ i \in D
    OBVIOUS
  <2>3. IsFiniteSet(D) /\ D \subseteq Nat /\ D # {}
    <3> HIDE DEF D
    <3>1. IsFiniteSet(D)
      BY <2>1, <2>2, FS_Subset
    <3> QED BY <2>2, <3>1
  <2> HIDE DEF D
  <2>4. PICK j \in D : \A k \in D : j <= k
    BY <2>3, AscendingIs
  <2>5. j \in S /\ s[j] = s[i]
    BY <1>1, <2>4 DEF D
  <2> QED BY <2>5
<1> HIDE DEF S, p, n
<1>3. /\ p \in Seq(T)
      /\ \A i \in S : \E k \in DOMAIN p : p[k] = s[i]
  <2>1. IsFiniteSet(1..n)
    BY <1>1, FS_Interval
  <2>2. IsFiniteSet(S)
    BY <1>1, <2>1, FS_Subset
  <2>3. S \subseteq Nat /\ p = PickedAt(s, S) /\ \A i \in S : s[i] \in T
    BY <1>1
  <2>4. Picks(p, s, S)
    BY <2>2, <2>3, PickedIs
  <2>5. p \in Seq(T)
    BY <2>3, <2>4, PickedIn
  <2>6. \A i \in S : \E k \in DOMAIN p : p[k] = s[i]
    BY <2>4 DEF Picks
  <2> QED BY <2>5, <2>6
<1>4. ASSUME NEW i \in 1..n PROVE \E k \in DOMAIN p : p[k] = s[i]
  <2>1. PICK j \in S : s[j] = s[i]
    BY <1>2
  <2> QED BY <1>3, <2>1
<1> QED BY <1>1, <1>3, <1>4 DEF p, n, Has

(* An alias leads back to what it stands for.                              *)
LEMMA AliasIs ==
  ASSUME NEW U, NEW u \in Seq(U), NEW id, Has(u, id)
  PROVE  Alias(u, id) \in Int /\ -Alias(u, id) \in DOMAIN u /\ u[-Alias(u, id)] = id
<1> DEFINE k == CHOOSE k \in DOMAIN u : u[k] = id
<1>1. k \in DOMAIN u /\ u[k] = id
  BY DEF Has
<1>2. Alias(u, id) = -k
  BY DEF Alias
<1> HIDE DEF k
<1>3. k \in Int /\ -(-k) = k
  BY <1>1
<1> QED BY <1>1, <1>2, <1>3

-----------------------------------------------------------------------------
(* The session and its turns have aliases.                                 *)
LEMMA InTurnsListed ==
  ASSUME NEW T, NEW calls \in Seq(T)
  PROVE  \E U : [k \in DOMAIN InTurns(calls) |-> InTurns(calls)[k].turn] \in Seq(U)
<1> DEFINE S == {i \in DOMAIN calls : calls[i].turn # 0}
           n == Cardinality(S)
           p == InTurns(calls)
           of(k) == p[k].turn
<1>1. IsFiniteSet(1..Len(calls)) /\ DOMAIN calls = 1..Len(calls) /\ Len(calls) \in Nat
  BY FS_Interval
<1>2. IsFiniteSet(S) /\ S \subseteq Nat
  <2>1. S \in SUBSET (1..Len(calls))
    BY <1>1
  <2> HIDE DEF S
  <2>2. IsFiniteSet(S)
    BY <1>1, <2>1, FS_Subset
  <2> QED BY <2>1, <2>2
<1>3. Picks(p, calls, S)
  <2>1. Picks(PickedAt(calls, S), calls, S)
    <3> HIDE DEF S
    <3> QED BY <1>2, PickedIs
  <2> QED BY <2>1 DEF InTurns
<1> HIDE DEF S, p
<1>4. n \in Nat /\ DOMAIN p = 1..n
  BY <1>3 DEF Picks
<1> HIDE DEF n, of
<1> DEFINE W == {of(k) : k \in 1..n}
<1>5. [k \in 1..n |-> of(k)] \in [1..n -> W]
  OBVIOUS
<1> HIDE DEF W
<1>6. [k \in 1..n |-> of(k)] \in Seq(W)
  BY <1>4, <1>5
<1>7. [k \in DOMAIN p |-> p[k].turn] = [k \in 1..n |-> of(k)]
  BY <1>4 DEF of
<1> DEFINE f == [k \in DOMAIN p |-> p[k].turn]
<1>8. f \in Seq(W)
  BY <1>6, <1>7
<1> QED BY <1>8 DEF p

LEMMA IdsCover ==
  ASSUME NEW s, NEW e, IsSession(e), NEW r, r = ReportFrom(s, e), NEW wasted,
         NEW u, u = NewContext(r, e, wasted).uuids
  PROVE  (\E U : u \in Seq(U)) /\ \A id \in {s} \cup DOMAIN e.turns : Has(u, id)
<1> DEFINE n == Len(e.turns)
           calls == CallsOf(e.tools) \o CallsOf(e.hooks) \o CallsOf(e.skills)
           a == [k \in DOMAIN r.turns |-> r.turns[k].turn_id]
           b == [k \in DOMAIN e.turns |-> k]
           c == [k \in DOMAIN InTurns(calls) |-> InTurns(calls)[k].turn]
           ids == <<s>> \o a \o b \o c
<1>1. n \in Nat /\ DOMAIN e.turns = 1..n
  BY DEF IsSession, IsList
<1>2. r.id = s /\ r.turns = TurnSummary(e)
  BY DEF ReportFrom
<1>3. u = Firsts(ids)
  BY <1>2 DEF NewContext, IdsOf
<1>4. PICK Q : calls \in Seq(Q)
  <2>1. PICK A : CallsOf(e.tools) \in Seq(A)
    BY CallsAreListed DEF IsSession
  <2>2. PICK B : CallsOf(e.hooks) \in Seq(B)
    BY CallsAreListed DEF IsSession
  <2>3. PICK C : CallsOf(e.skills) \in Seq(C)
    BY CallsAreListed DEF IsSession
  <2> DEFINE D == A \cup B \cup C
  <2>4. CallsOf(e.tools) \in Seq(D) /\ CallsOf(e.hooks) \in Seq(D) /\ CallsOf(e.skills) \in Seq(D)
    BY <2>1, <2>2, <2>3
  <2> HIDE DEF D
  <2>5. calls \in Seq(D)
    BY <2>4
  <2> QED BY <2>5
<1> HIDE DEF calls
<1>5. PICK U : c \in Seq(U)
  BY <1>4, InTurnsListed
<1> DEFINE T == U \cup {s} \cup 1..n
<1>6. a \in Seq(T) /\ DOMAIN a = 1..n
  <2>1. \A k \in 1..n : r.turns[k].turn_id = k
    BY <1>1, <1>2 DEF TurnSummary
  <2>2. DOMAIN r.turns = 1..n
    BY <1>1, <1>2 DEF TurnSummary
  <2>3. a \in [1..n -> T]
    BY <2>1, <2>2
  <2> HIDE DEF a, T
  <2> QED BY <1>1, <2>3
<1>7. b \in Seq(T) /\ DOMAIN b = 1..n /\ \A k \in 1..n : b[k] = k
  <2>1. b \in [1..n -> T] /\ \A k \in 1..n : b[k] = k
    BY <1>1
  <2> HIDE DEF b, T
  <2> QED BY <1>1, <2>1
<1>8. c \in Seq(T) /\ <<s>> \in Seq(T)
  BY <1>5
<1> HIDE DEF a, b, c, T, n
<1>9. ids \in Seq(T) /\ \A id \in {s} \cup DOMAIN e.turns : Has(ids, id)
  <2>1. <<s>> \o a \in Seq(T) /\ Has(<<s>> \o a, s)
    <3>1. Has(<<s>>, s)
      <4>1. 1 \in DOMAIN <<s>> /\ <<s>>[1] = s
        OBVIOUS
      <4> QED BY <4>1 DEF Has
    <3> DEFINE one == <<s>>
    <3>2. one \in Seq(T) /\ a \in Seq(T) /\ Has(one, s)
      BY <1>6, <1>8, <3>1
    <3> HIDE DEF one
    <3>3. one \o a \in Seq(T)
      BY <3>2
    <3>4. Has(one \o a, s)
      BY <3>2, ConcatHas
    <3> QED BY <3>3, <3>4 DEF one
  <2>2. (<<s>> \o a) \o b \in Seq(T) /\ \A v : Has(<<s>> \o a, v) \/ Has(b, v) => Has((<<s>> \o a) \o b, v)
    <3> DEFINE x == <<s>> \o a
    <3>1. x \in Seq(T)
      BY <2>1
    <3> HIDE DEF x
    <3>2. x \o b \in Seq(T) /\ \A v : Has(x, v) \/ Has(b, v) => Has(x \o b, v)
      BY <1>7, <3>1, ConcatHas
    <3> QED BY <3>2 DEF x
  <2> DEFINE y == (<<s>> \o a) \o b
  <2>3. y \in Seq(T)
    BY <2>2
  <2>4. ids = y \o c
    OBVIOUS
  <2>5. \A id \in 1..n : Has(b, id)
    BY <1>7 DEF Has
  <2>6. \A id \in {s} \cup 1..n : Has(y, id)
    BY <2>1, <2>2, <2>5
  <2> HIDE DEF y, ids
  <2>7. ids \in Seq(T) /\ \A v : Has(y, v) => Has(ids, v)
    BY <1>8, <2>3, <2>4, ConcatHas
  <2> QED BY <1>1, <2>6, <2>7
<1> HIDE DEF ids
<1>10. Firsts(ids) \in Seq(T) /\ \A v : Has(ids, v) => Has(Firsts(ids), v)
  BY <1>9, FirstsCover
<1> QED BY <1>3, <1>9, <1>10

-----------------------------------------------------------------------------
(* Names, their hashes and the models of a family.                         *)
LEMMA HashesDiffer == \A a, b : Hash(a) = Hash(b) => a = b
<1> SUFFICES ASSUME NEW a, NEW b, Hash(a) = Hash(b) PROVE a = b
  OBVIOUS
<1>1. Hash(a)[1] = [hash |-> a] /\ Hash(b)[1] = [hash |-> b]
  BY DEF Hash
<1>2. [hash |-> a].hash = [hash |-> b].hash
  BY <1>1
<1> QED BY <1>2

LEMMA HashLeads ==
  ASSUME NEW S, NEW a \in S PROVE Hash(a) \in DOMAIN HashesOf(S) /\ HashesOf(S)[Hash(a)] = a
<1>1. (CHOOSE x \in S : Hash(x) = Hash(a)) = a
  BY HashesDiffer
<1>2. Hash(a) \in {Hash(x) : x \in S}
  OBVIOUS
<1> QED BY <1>1, <1>2 DEF HashesOf

LEMMA Prefixed ==
  ASSUME NEW T, NEW h \in T, NEW t \in Seq(T), NEW f, f = <<h>> \o t
  PROVE  f \in Seq(T) /\ Len(f) = Len(t) + 1 /\ f[1] = h /\ \A i \in 2..Len(f) : f[i] = t[i - 1]
OBVIOUS

LEMMA HashedIs ==
  ASSUME NEW n, IsName(n)
  PROVE  /\ DOMAIN n = 1..Len(n) /\ Len(n) \in Nat \ {0} /\ n = [i \in 1..Len(n) |-> n[i]]
         /\ DOMAIN HashedName(n) = 1..Len(n) /\ Len(HashedName(n)) = Len(n)
         /\ IsMcp(HashedName(n)) <=> IsMcp(n)
         /\ IsMcp(n) => HashedName(n)[1] = [hash |-> ServerOf(n)]
                         /\ ServerOf(HashedName(n)) = Hash(ServerOf(n))
                         /\ \A i \in 2..Len(n) : HashedName(n)[i] = n[i]
         /\ ~IsMcp(n) => HashedName(n) = n
<1> DEFINE T == ToSet(n) \cup {[hash |-> ServerOf(n)]}
<1>1. n \in Seq(T) /\ n # <<>>
  BY DEF IsName, IsList
<1>2. [hash |-> ServerOf(n)] \in T
  OBVIOUS
<1> HIDE DEF T
<1>3. DOMAIN n = 1..Len(n) /\ Len(n) \in Nat \ {0} /\ n = [i \in 1..Len(n) |-> n[i]]
  BY <1>1
<1>4. CASE IsMcp(n)
  <2>1. Len(n) >= 2 /\ HashedName(n) = <<[hash |-> ServerOf(n)]>> \o Tail(n)
    BY <1>4 DEF IsMcp, HashedName, Hash
  <2> DEFINE h == [hash |-> ServerOf(n)]
             t == Tail(n)
  <2>2. t \in Seq(T) /\ Len(t) = Len(n) - 1 /\ \A i \in 1..(Len(n) - 1) : t[i] = n[i + 1]
    BY <1>1
  <2> HIDE DEF h, t
  <2>3. h \in T
    BY <1>2 DEF h
  <2>4. /\ <<h>> \o t \in Seq(T) /\ Len(<<h>> \o t) = Len(n)
        /\ (<<h>> \o t)[1] = h /\ \A i \in 2..Len(n) : (<<h>> \o t)[i] = t[i - 1]
    <3> DEFINE f == <<h>> \o t
    <3> HIDE DEF f
    <3>1. f = <<h>> \o t
      BY DEF f
    <3>2. f \in Seq(T) /\ Len(f) = Len(t) + 1 /\ f[1] = h /\ \A i \in 2..Len(f) : f[i] = t[i - 1]
      BY <2>2, <2>3, <3>1, Prefixed
    <3>3. Len(t) + 1 = Len(n)
      BY <1>3, <2>2
    <3> QED BY <3>1, <3>2, <3>3
  <2>5. HashedName(n) = <<h>> \o t
    BY <2>1 DEF h, t
  <2>6. \A i \in 2..Len(n) : t[i - 1] = n[i]
    BY <1>3, <2>2
  <2> DEFINE m == HashedName(n)
  <2>7. /\ m \in Seq(T) /\ Len(m) = Len(n) /\ m[1] = h
        /\ \A i \in 2..Len(n) : m[i] = n[i]
    BY <2>4, <2>5, <2>6
  <2> HIDE DEF m
  <2>8. DOMAIN m = 1..Len(n) /\ IsMcp(m) /\ ServerOf(m) = Hash(ServerOf(n))
    BY <1>3, <2>1, <2>7 DEF IsMcp, ServerOf, Hash, h
  <2> QED BY <1>3, <1>4, <2>7, <2>8 DEF m, h
<1>5. CASE ~IsMcp(n)
  BY <1>3, <1>5 DEF HashedName
<1> QED BY <1>3, <1>4, <1>5

LEMMA HashedNamesDiffer ==
  ASSUME NEW m, NEW n, IsName(m), IsName(n), HashedName(m) = HashedName(n) PROVE m = n
<1>1. Len(m) = Len(n) /\ (IsMcp(m) <=> IsMcp(n)) /\ Len(n) \in Nat \ {0}
      /\ m = [i \in 1..Len(m) |-> m[i]] /\ n = [i \in 1..Len(n) |-> n[i]]
  BY HashedIs
<1>2. CASE IsMcp(n)
  <2>1. [hash |-> ServerOf(m)].hash = [hash |-> ServerOf(n)].hash
    <3>1. [hash |-> ServerOf(m)] = [hash |-> ServerOf(n)]
      BY <1>1, <1>2, HashedIs
    <3> QED BY <3>1
  <2>2. m[1] = n[1]
    <3>1. ServerOf(m)[1] = ServerOf(n)[1]
      BY <2>1
    <3> QED BY <3>1 DEF ServerOf
  <2>3. \A i \in 2..Len(n) : m[i] = n[i]
    <3>1. \A i \in 2..Len(m) : HashedName(m)[i] = m[i]
      BY <1>1, <1>2, HashedIs
    <3>2. \A i \in 2..Len(n) : HashedName(n)[i] = n[i]
      BY <1>2, HashedIs
    <3> QED BY <1>1, <3>1, <3>2
  <2>4. \A i \in 1..Len(n) : m[i] = n[i]
    BY <1>1, <2>2, <2>3
  <2> QED BY <1>1, <2>4
<1>3. CASE ~IsMcp(n)
  BY <1>1, <1>3, HashedIs
<1> QED BY <1>2, <1>3

(* A key of a tool is its name, split.                                     *)
LEMMA FullNameIs ==
  ASSUME NEW n, IsName(n), IsMcp(n) PROVE FullName(Key(n)) = n
<1> DEFINE T == ToSet(n)
           t == Tail(n)
           a == n[1]
<1>1. n \in Seq(T) /\ Len(n) >= 2
  BY DEF IsName, IsList, IsMcp
<1> HIDE DEF T
<1>2. t \in Seq(T) /\ Len(t) = Len(n) - 1 /\ \A i \in 1..(Len(n) - 1) : t[i] = n[i + 1]
  BY <1>1
<1>3. a \in T
  BY <1>1
<1>4. FullName(Key(n)) = <<a>> \o t
  BY DEF FullName, Key, ServerOf
<1> HIDE DEF a, t
<1> DEFINE f == <<a>> \o t
<1>5. f \in Seq(T) /\ Len(f) = Len(n) /\ f[1] = a /\ \A i \in 2..Len(n) : f[i] = t[i - 1]
  BY <1>1, <1>2, <1>3
<1> HIDE DEF f
<1>6. \A i \in 1..Len(n) : f[i] = n[i]
  BY <1>1, <1>2, <1>5 DEF a
<1>7. f = [i \in 1..Len(n) |-> f[i]] /\ n = [i \in 1..Len(n) |-> n[i]]
  BY <1>1, <1>5
<1> QED BY <1>4, <1>6, <1>7 DEF f

(* Of every family, a context has one of its models.                       *)
LEMMA FamilyLeads ==
  ASSUME NEW U, NEW ms \in Seq(U), NEW m, Has(ms, m), NEW f, f = Family(m)
  PROVE  f \in DOMAIN FirstOfFamily(ms) /\ Has(ms, FirstOfFamily(ms)[f])
         /\ Family(FirstOfFamily(ms)[f]) = f
<1> DEFINE S == {i \in DOMAIN ms : Family(ms[i]) = f}
           p == PickedAt(ms, S)
<1>1. IsFiniteSet(1..Len(ms)) /\ DOMAIN ms = 1..Len(ms) /\ Len(ms) \in Nat
  BY FS_Interval
<1>2. IsFiniteSet(S) /\ S \subseteq Nat
  <2>1. S \in SUBSET (1..Len(ms))
    BY <1>1
  <2> HIDE DEF S
  <2>2. IsFiniteSet(S)
    BY <1>1, <2>1, FS_Subset
  <2> QED BY <2>1, <2>2
<1>3. \E i \in S : TRUE
  BY DEF Has
<1>4. f \in {Family(x) : x \in ToSet(ms)}
  BY DEF Has, ToSet
<1>5. f \in DOMAIN FirstOfFamily(ms) /\ FirstOfFamily(ms)[f] = p[1]
  BY <1>4 DEF FirstOfFamily
<1>6. \E i \in S : p[1] = ms[i]
  <2> HIDE DEF S
  <2>1. Picks(p, ms, S)
    BY <1>2, PickedIs
  <2>2. 1 \in 1..Cardinality(S)
    BY <1>3, <2>1 DEF Picks
  <2> QED BY <2>1, <2>2 DEF Picks
<1>7. PICK i \in DOMAIN ms : p[1] = ms[i] /\ Family(ms[i]) = f
  BY <1>6
<1> QED BY <1>5, <1>7 DEF Has

(* What the context knows of the models is what the session used.          *)
ModelsIn(e) == DOMAIN e.usage \cup {e.turns[k].model : k \in DOMAIN e.turns}
LEMMA ModelsCover ==
  ASSUME NEW s, NEW e, IsSession(e), NEW r, r = ReportFrom(s, e), NEW ms, ms = ModelsOf(r, e)
  PROVE  ms \in Seq(ModelsIn(e)) /\ \A m \in DOMAIN e.usage : Has(ms, m)
<1> DEFINE n == Len(e.turns)
           T == ModelsIn(e)
           a == [k \in DOMAIN r.turns |-> r.turns[k].model]
           b == ByName(DOMAIN r.usage)
           c == [k \in DOMAIN e.turns |-> e.turns[k].model]
           all == a \o b \o c
           S == {i \in DOMAIN all : all[i] # None}
<1>1. n \in Nat /\ DOMAIN e.turns = 1..n
  BY DEF IsSession, IsList
<1>2. r.usage = e.usage /\ r.turns = TurnSummary(e)
  BY DEF ReportFrom
<1>3. a \in Seq(T) /\ c \in Seq(T)
  <2>1. DOMAIN r.turns = 1..n /\ \A k \in 1..n : r.turns[k].model = e.turns[k].model
    BY <1>1, <1>2 DEF TurnSummary
  <2>2. \A k \in 1..n : e.turns[k].model \in T
    BY <1>1 DEF ModelsIn
  <2> HIDE DEF T, n
  <2>3. a \in [1..n -> T] /\ c \in [1..n -> T]
    BY <1>1, <2>1, <2>2
  <2> HIDE DEF a, c
  <2> QED BY <1>1, <2>3
<1>4. b \in Seq(T) /\ \A m \in DOMAIN e.usage : Has(b, m)
  <2> DEFINE C == Cardinality(DOMAIN e.usage)
  <2>1. /\ C \in Nat /\ b \in [1..C -> DOMAIN e.usage]
        /\ \A m \in DOMAIN e.usage : \E k \in 1..C : b[k] = m
    <3> HIDE DEF b
    <3>1. b = ByName(DOMAIN e.usage)
      BY <1>2 DEF b
    <3> QED BY <3>1, ByNameIs DEF IsSession
  <2>2. DOMAIN e.usage \subseteq T
    BY DEF ModelsIn
  <2> HIDE DEF b, C, T
  <2>3. b \in [1..C -> T]
    BY <2>1, <2>2
  <2>4. b \in Seq(T)
    BY <2>1, <2>3
  <2> QED BY <2>1, <2>4 DEF Has
<1> HIDE DEF a, b, c, n, T
<1>5. all \in Seq(T) /\ \A m \in DOMAIN e.usage : Has(all, m)
  <2> DEFINE x == a \o b
  <2>1. x \in Seq(T) /\ \A m : Has(a, m) \/ Has(b, m) => Has(x, m)
    BY <1>3, <1>4, ConcatHas
  <2> HIDE DEF x
  <2>2. x \o c \in Seq(T) /\ \A m : Has(x, m) => Has(x \o c, m)
    BY <1>3, <2>1, ConcatHas
  <2> QED BY <1>4, <2>1, <2>2 DEF x
<1> HIDE DEF all
<1>6. ms = PickedAt(all, S)
  BY DEF ModelsOf, all, a, b, c
<1>7. IsFiniteSet(S) /\ S \subseteq Nat /\ \A i \in S : all[i] \in T
  <2>1. IsFiniteSet(1..Len(all)) /\ DOMAIN all = 1..Len(all) /\ Len(all) \in Nat
    BY <1>5, FS_Interval
  <2>2. S \in SUBSET (1..Len(all)) /\ \A i \in S : all[i] \in T
    BY <1>5, <2>1
  <2> HIDE DEF S
  <2>3. IsFiniteSet(S)
    BY <2>1, <2>2, FS_Subset
  <2> QED BY <2>2, <2>3
<1>8. \A i \in DOMAIN all : all[i] # None => i \in S
  OBVIOUS
<1> HIDE DEF S
<1>9. Picks(ms, all, S)
  BY <1>6, <1>7, PickedIs
<1>10. ms \in Seq(T)
  BY <1>7, <1>9, PickedIn
<1>11. ASSUME NEW m \in DOMAIN e.usage PROVE Has(ms, m)
  <2>1. m # None
    BY DEF IsSession
  <2>2. PICK i \in DOMAIN all : all[i] = m
    BY <1>5 DEF Has
  <2> QED BY <1>8, <1>9, <2>1, <2>2 DEF Has, Picks
<1> QED BY <1>10, <1>11 DEF T

(* The ranking has a row for every tool.                                   *)
LEMMA ToolsRanked ==
  ASSUME NEW e, IsSession(e), NEW rank, rank = ToolRank(e)
  PROVE  /\ DOMAIN rank = 1..Len(rank) /\ Len(rank) \in Nat
         /\ \A i \in DOMAIN rank : /\ rank[i].name \in DOMAIN e.tools
                                   /\ rank[i] = ToolRankRow(e, rank[i].name)
         /\ \A n \in DOMAIN e.tools : \E i \in DOMAIN rank : rank[i].name = n
<1> DEFINE S == {n \in DOMAIN e.tools : e.tools[n] # <<>>}
           row == [n \in S |-> ToolRankRow(e, n)]
<1>1. S = DOMAIN e.tools /\ IsFiniteSet(S) /\ NamesOrdered(S)
  <2>1. S = DOMAIN e.tools
    BY DEF IsSession, AreNamed
  <2> HIDE DEF S
  <2> QED BY <2>1 DEF IsSession, AreNamed
<1>2. ASSUME NEW n \in S PROVE row[n] = ToolRankRow(e, n) /\ row[n].name = n /\ row[n].total_duration \in Nat
  <2> DEFINE c == e.tools[n]
             m == Len(c)
  <2>1. c \in Seq(ToSet(c)) /\ c # <<>> /\ n \in DOMAIN e.tools
    BY <1>1 DEF IsSession, AreNamed, IsList
  <2>2. \A i \in DOMAIN c : IsCall(c[i], e.turns)
    BY <2>1 DEF IsSession
  <2> HIDE DEF c
  <2>3. m \in Nat /\ m # 0 /\ DOMAIN c = 1..m
    BY <2>1
  <2>4. \A i \in 1..m : /\ Duration(c[i]) \in Nat
                        /\ c[i].status \in {"success", "failure", "orphan", "aborted", "open"}
    BY <2>2, <2>3 DEF IsCall, Duration
  <2>5. c = e.tools[n] /\ Len(c) = m
    BY DEF c
  <2>6. row[n] = ToolRankRow(e, n)
    OBVIOUS
  <2> HIDE DEF m, row, S
  <2>7. RowIs(ToolRankRow(e, n), n, c)
    BY <2>3, <2>4, <2>5, ToolRowIs
  <2> QED BY <2>6, <2>7 DEF RowIs
<1>3. rank = LargestFirst([k \in DOMAIN ByName(S) |-> row[ByName(S)[k]]], "total_duration")
  <2> DEFINE names == ByName(S)
  <2>1. rank = LargestFirst([k \in DOMAIN names |-> ToolRankRow(e, names[k])], "total_duration")
    BY DEF ToolRank
  <2>2. names \in [1..Cardinality(S) -> S]
    <3> HIDE DEF names, S
    <3>1. names = ByName(S)
      BY DEF names
    <3> QED BY <1>1, <3>1, ByNameIs
  <2>3. [k \in DOMAIN names |-> ToolRankRow(e, names[k])] = [k \in DOMAIN names |-> row[names[k]]]
    <3> HIDE DEF names, S
    <3> QED BY <2>2
  <2> HIDE DEF row
  <2> QED BY <2>1, <2>3
<1> HIDE DEF row, S
<1>4. Ranks(rank, S, row)
  <2>1. \A n \in S : row[n].total_duration \in Nat
    BY <1>2
  <2> QED BY <1>1, <1>3, <2>1, RowsRank
<1>5. PICK names : /\ rank \in Seq({row[n] : n \in S}) /\ names \in [1..Len(rank) -> S]
                   /\ \A k \in 1..Len(rank) : rank[k] = row[names[k]]
                   /\ \A n \in S : \E k \in 1..Len(rank) : names[k] = n
  BY <1>4 DEF Ranks
<1>6. DOMAIN rank = 1..Len(rank) /\ Len(rank) \in Nat
  BY <1>5
<1>7. \A k \in 1..Len(rank) : names[k] \in S /\ rank[k].name = names[k] /\ rank[k] = ToolRankRow(e, names[k])
  BY <1>2, <1>5
<1>8. \A n \in S : \E i \in 1..Len(rank) : rank[i].name = n
  BY <1>5, <1>7
<1> QED BY <1>1, <1>6, <1>7, <1>8

LEMMA ImageFinite ==
  ASSUME NEW S, IsFiniteSet(S), NEW f PROVE IsFiniteSet({f[x] : x \in S})
<1> DEFINE T == {f[x] : x \in S}
           g == [x \in S |-> f[x]]
<1>1. g \in Surjection(S, T)
  BY DEF Surjection
<1> HIDE DEF T, g
<1>2. IsFiniteSet(T)
  BY <1>1, FS_Surjection
<1> QED BY <1>2 DEF T

(* A tool of a row of the waste is one of those that were loaded.          *)
LEMMA WasteLists ==
  ASSUME NEW rank, NEW wire, NEW config, NEW costs, IsFiniteSet(Loaded(rank, wire, config)),
         NEW w, w = ComputeWaste(rank, wire, config, costs),
         NEW row \in ToSet(w.server_waste)
  PROVE  /\ \E server, tools : row = ServerWaste(server, tools)
         /\ \A t \in row.tools : \E k \in Loaded(rank, wire, config) :
              t = ToolWaste(k, rank, wire, config, costs)
<1> DEFINE loaded == Loaded(rank, wire, config)
           S == {k[1] : k \in loaded}
           C == Cardinality(S)
           servers == ByName(S)
           of(s) == {ToolWaste(k, rank, wire, config, costs) : k \in {j \in loaded : j[1] = s}}
           each == [i \in DOMAIN servers |-> ServerWaste(servers[i], of(servers[i]))]
<1>1. w.server_waste = LargestFirst(each, "unused_count")
  BY DEF ComputeWaste
<1>2. \A s : \A t \in of(s) : \E k \in loaded : t = ToolWaste(k, rank, wire, config, costs)
  OBVIOUS
<1>3. ASSUME NEW s PROVE Cardinality({t \in of(s) : t.call_count = 0}) \in Nat
  <2> DEFINE K == {j \in loaded : j[1] = s}
             u == {t \in of(s) : t.call_count = 0}
  <2>1. IsFiniteSet(K)
    BY FS_Subset
  <2>2. IsFiniteSet(of(s))
    <3> DEFINE f == [k \in K |-> ToolWaste(k, rank, wire, config, costs)]
    <3>1. of(s) = {f[k] : k \in K}
      OBVIOUS
    <3> HIDE DEF K, f, of
    <3> QED BY <2>1, <3>1, ImageFinite
  <2>3. u \in SUBSET of(s)
    OBVIOUS
  <2> HIDE DEF of, u
  <2>4. IsFiniteSet(u)
    BY <2>2, <2>3, FS_Subset
  <2> HIDE DEF K
  <2>5. Cardinality(u) \in Nat
    BY <2>4, FS_CardinalityType
  <2> QED BY <2>5 DEF u
<1>4. IsFiniteSet(S)
  <2> DEFINE f == [k \in loaded |-> k[1]]
  <2>1. S = {f[k] : k \in loaded}
    OBVIOUS
  <2> HIDE DEF S, f
  <2> QED BY <2>1, ImageFinite
<1>5. C \in Nat /\ DOMAIN servers = 1..C
  <2>1. DOMAIN servers = 1..C
    BY DEF ByName
  <2> HIDE DEF S
  <2> QED BY <1>4, <2>1, FS_CardinalityType
<1> HIDE DEF of, servers, C, loaded
<1>6. DOMAIN each = 1..C /\ \A i \in 1..C : each[i] = ServerWaste(servers[i], of(servers[i]))
  BY <1>5
<1>7. \A i \in 1..C : each[i]["unused_count"] \in Nat
  BY <1>3, <1>6 DEF ServerWaste
<1> DEFINE sw == w.server_waste
<1>8. Rearranges(sw, each, C, "unused_count")
  <2>1. sw = LargestFirst(each, "unused_count") /\ DOMAIN each = 1..C /\ C \in Nat
    BY <1>1, <1>5, <1>6
  <2> HIDE DEF each, sw
  <2> QED BY <1>7, <2>1, RowsSorted
<1> HIDE DEF each
<1>9. \E i \in 1..C : row = each[i]
  BY <1>8 DEF ToSet, Rearranges
<1>10. PICK s : row = ServerWaste(s, of(s))
  BY <1>6, <1>9
<1>11. row.tools = of(s)
  BY <1>10 DEF ServerWaste
<1> QED BY <1>2, <1>10, <1>11 DEF loaded

-----------------------------------------------------------------------------
(* Every name that was loaded is one of the report or of the configuration;*)
(* a tool with calls is one of the ranking.                                *)
RawNames(r, e, config) == NamesOf(r, e) \cup {FullName(k) : k \in Configured(config)}

LEMMA ListIs == ASSUME NEW S, NEW s \in Seq(S) PROVE IsList(s)
<1>1. s \in [1..Len(s) -> ToSet(s)] /\ Len(s) \in Nat
  BY DEF ToSet
<1> DEFINE T == ToSet(s)
<1> HIDE DEF T
<1>2. s \in Seq(T)
  BY <1>1 DEF T
<1> QED BY <1>2 DEF IsList, T

LEMMA JoinedName ==
  ASSUME NEW a, NEW b, IsName(a), IsName(b) PROVE IsName(a \o b)
<1> DEFINE T == ToSet(a) \cup ToSet(b)
<1>1. a \in Seq(T) /\ b \in Seq(T) /\ a # <<>>
  BY DEF IsName, IsList
<1> HIDE DEF T
<1>2. a \o b \in Seq(T) /\ a \o b # <<>>
  BY <1>1
<1> QED BY <1>2, ListIs DEF IsName

LEMMA NamesAre ==
  ASSUME NEW s, NEW e, IsSession(e), NEW r, r = ReportFrom(s, e), NEW config,
         \A k \in Configured(config) : IsName(k[1]) /\ IsName(k[2])
  PROVE  /\ \A n \in RawNames(r, e, config) : IsName(n)
         /\ \A k \in Loaded(r.rank, r.loaded, config) : FullName(k) \in RawNames(r, e, config)
<1>1. r.rank = ToolRank(e) /\ r.loaded = e.loaded
  BY DEF ReportFrom
<1>2. \A i \in DOMAIN r.rank : r.rank[i].name \in DOMAIN e.tools
  BY <1>1, ToolsRanked
<1>3. \A n \in NamesOf(r, e) : IsName(n)
  BY <1>1, <1>2 DEF NamesOf, IsSession, AreNamed
<1>4. \A k \in Configured(config) : IsName(FullName(k))
  BY JoinedName DEF FullName
<1>5. ASSUME NEW k \in Loaded(r.rank, r.loaded, config) PROVE FullName(k) \in RawNames(r, e, config)
  <2>1. CASE k \in Configured(config)
    BY <2>1 DEF RawNames
  <2>2. CASE k \in Announced(r.loaded)
    <3>1. PICK n \in r.loaded : IsMcp(n) /\ k = Key(n)
      BY <2>2 DEF Announced
    <3>2. n \in NamesOf(r, e)
      BY <3>1 DEF NamesOf
    <3>3. FullName(k) = n
      BY <1>3, <3>1, <3>2, FullNameIs
    <3> QED BY <3>2, <3>3 DEF RawNames
  <2>3. CASE k \in {Key(x.name) : x \in McpRows(r.rank)}
    <3>1. PICK i \in DOMAIN r.rank : IsMcp(r.rank[i].name) /\ k = Key(r.rank[i].name)
      BY <2>3 DEF McpRows
    <3>2. r.rank[i].name \in NamesOf(r, e)
      BY DEF NamesOf
    <3>3. FullName(k) = r.rank[i].name
      BY <1>3, <3>1, <3>2, FullNameIs
    <3> QED BY <3>2, <3>3 DEF RawNames
  <2> QED BY <2>1, <2>2, <2>3 DEF Loaded
<1> QED BY <1>3, <1>4, <1>5 DEF RawNames

LEMMA CalledIsRanked ==
  ASSUME NEW rank, \A i \in DOMAIN rank : IsName(rank[i].name), NEW k, CallCount(rank, k) > 0
  PROVE  \E i \in DOMAIN rank : rank[i].name = FullName(k)
<1> DEFINE rows == {x \in McpRows(rank) : Key(x.name) = k}
<1>1. rows # {}
  <2> SUFFICES ASSUME rows = {} PROVE FALSE
    OBVIOUS
  <2>1. CallCount(rank, k) = 0
    BY DEF CallCount
  <2> QED BY <2>1
<1>2. PICK i \in DOMAIN rank : IsMcp(rank[i].name) /\ Key(rank[i].name) = k
  BY <1>1 DEF McpRows
<1> QED BY <1>2, FullNameIs

LEMMA LoadedFinite ==
  ASSUME NEW s, NEW e, IsSession(e), NEW r, r = ReportFrom(s, e), NEW config,
         IsFiniteSet(Configured(config))
  PROVE  IsFiniteSet(Loaded(r.rank, r.loaded, config))
<1>1. r.rank = ToolRank(e) /\ r.loaded = e.loaded
  BY DEF ReportFrom
<1>2. IsFiniteSet(Announced(r.loaded))
  <2> DEFINE S == {m \in r.loaded : IsMcp(m)}
             f == [n \in S |-> Key(n)]
  <2>1. IsFiniteSet(S)
    BY <1>1, FS_Subset DEF IsSession
  <2>2. Announced(r.loaded) = {f[n] : n \in S}
    BY DEF Announced
  <2> HIDE DEF S, f
  <2> QED BY <2>1, <2>2, ImageFinite
<1>3. IsFiniteSet({Key(x.name) : x \in McpRows(r.rank)})
  <2> DEFINE S == {j \in DOMAIN r.rank : IsMcp(r.rank[j].name)}
             f == [j \in S |-> Key(r.rank[j].name)]
  <2>1. IsFiniteSet(DOMAIN r.rank)
    <3>1. DOMAIN r.rank = 1..Len(r.rank) /\ Len(r.rank) \in Nat
      BY <1>1, ToolsRanked
    <3> QED BY <3>1, FS_Interval
  <2>2. IsFiniteSet(S)
    BY <2>1, FS_Subset
  <2>3. {Key(x.name) : x \in McpRows(r.rank)} = {f[j] : j \in S}
    BY DEF McpRows
  <2> HIDE DEF S, f
  <2>4. IsFiniteSet({f[j] : j \in S})
    BY <2>2, ImageFinite
  <2> QED BY <2>3, <2>4
<1>4. IsFiniteSet(Announced(r.loaded) \cup Configured(config))
  BY <1>2, FS_Union
<1> QED BY <1>3, <1>4, FS_Union DEF Loaded

-----------------------------------------------------------------------------
(* The redacted report and episodes, part by part.                         *)
Renamed(n, level) == IF level = "anonymize" THEN HashedName(n) ELSE n

LEMMA ReportParts ==
  ASSUME NEW s, NEW e, IsSession(e), NEW r, r = ReportFrom(s, e), NEW level, NEW u,
         NEW x, x = RedactReport(r, level, u)
  PROVE  /\ level = "none" => x = r
         /\ level # "none" =>
              /\ x.id = Alias(u, s) /\ DOMAIN x.turns = DOMAIN e.turns
              /\ \A k \in DOMAIN e.turns : x.turns[k].turn_id = Alias(u, k)
              /\ DOMAIN x.usage = {Family(m) : m \in DOMAIN e.usage}
         /\ DOMAIN x.rank = DOMAIN r.rank
         /\ \A i \in DOMAIN r.rank : x.rank[i].name = Renamed(r.rank[i].name, level)
         /\ x.loaded = {Renamed(n, level) : n \in r.loaded}
         /\ level = "anonymize" =>
              x.started_at = Epoch /\ \A k \in DOMAIN e.turns : x.turns[k].started_at = Epoch
<1>1. /\ r.id = s /\ r.turns = TurnSummary(e) /\ r.rank = ToolRank(e) /\ r.usage = e.usage
      /\ DOMAIN r = {"id", "private", "producer", "warnings", "started_at", "turns", "rank", "usage", "loaded"}
  BY DEF ReportFrom
<1>2. DOMAIN r.turns = DOMAIN e.turns
  BY <1>1 DEF TurnSummary
<1>3. \A k \in DOMAIN e.turns :
        r.turns[k].turn_id = k /\ {"turn_id", "model", "started_at"} \subseteq DOMAIN r.turns[k]
  BY <1>1 DEF TurnSummary
<1>4. \A i \in DOMAIN r.rank : "name" \in DOMAIN r.rank[i]
  <2>1. \A i \in DOMAIN r.rank : r.rank[i] = ToolRankRow(e, r.rank[i].name)
    BY <1>1, ToolsRanked
  <2>2. \A n : "name" \in DOMAIN ToolRankRow(e, n)
    BY DEF ToolRankRow
  <2> QED BY <2>1, <2>2
<1>5. CASE level = "none"
  BY <1>5 DEF RedactReport, Renamed
<1>6. CASE level # "none"
  <2> DEFINE anon == level = "anonymize"
             row(t) == [t EXCEPT !.turn_id = Alias(u, @), !.model = Family(@),
                                 !.started_at = IF anon THEN Epoch ELSE @]
  <2>1. /\ x.id = Alias(u, r.id) /\ x.turns = [k \in DOMAIN r.turns |-> row(r.turns[k])]
        /\ x.usage = FamilyUsage(r.usage)
        /\ x.rank = IF anon THEN [i \in DOMAIN r.rank |-> HashedRow(r.rank[i])] ELSE r.rank
        /\ x.loaded = IF anon THEN {HashedName(n) : n \in r.loaded} ELSE r.loaded
        /\ x.started_at = IF anon THEN Epoch ELSE r.started_at
    BY <1>1, <1>6 DEF RedactReport
  <2>2. \A k \in DOMAIN e.turns : /\ row(r.turns[k]).turn_id = Alias(u, k)
                                  /\ anon => row(r.turns[k]).started_at = Epoch
    BY <1>3
  <2>3. \A i \in DOMAIN r.rank : HashedRow(r.rank[i]).name = HashedName(r.rank[i].name)
    BY <1>4 DEF HashedRow
  <2> HIDE DEF row
  <2>4. /\ DOMAIN x.turns = DOMAIN e.turns
        /\ \A k \in DOMAIN e.turns : x.turns[k].turn_id = Alias(u, k)
        /\ anon => \A k \in DOMAIN e.turns : x.turns[k].started_at = Epoch
    BY <1>2, <2>1, <2>2
  <2>5. DOMAIN x.usage = {Family(m) : m \in DOMAIN e.usage}
    BY <1>1, <2>1 DEF FamilyUsage
  <2>6. DOMAIN x.rank = DOMAIN r.rank
        /\ \A i \in DOMAIN r.rank : x.rank[i].name = Renamed(r.rank[i].name, level)
    BY <2>1, <2>3 DEF Renamed
  <2>7. x.loaded = {Renamed(n, level) : n \in r.loaded}
    BY <2>1 DEF Renamed
  <2> QED BY <1>1, <1>6, <2>1, <2>4, <2>5, <2>6, <2>7
<1> QED BY <1>5, <1>6

LEMMA EpisodeParts ==
  ASSUME NEW e, IsSession(e), NEW level, NEW u, NEW y, y = RedactEpisodes(e, level, u)
  PROVE  /\ level = "none" => y = e
         /\ level # "none" =>
              /\ DOMAIN y.turns = DOMAIN e.turns
              /\ \A k \in DOMAIN e.turns : y.turns[k].id = Alias(u, k)
         /\ DOMAIN y.tools = {Renamed(n, level) : n \in DOMAIN e.tools}
         /\ DOMAIN y.hooks = {Renamed(n, level) : n \in DOMAIN e.hooks}
         /\ DOMAIN y.skills = {Renamed(n, level) : n \in DOMAIN e.skills}
         /\ y.loaded = {Renamed(n, level) : n \in e.loaded}
         /\ \A n \in DOMAIN e.tools :
              /\ DOMAIN y.tools[Renamed(n, level)] = DOMAIN e.tools[n]
              /\ \A i \in DOMAIN e.tools[n] : LET c == y.tools[Renamed(n, level)][i] IN
                   /\ level # "none" =>
                        c.turn = IF e.tools[n][i].turn = 0 THEN 0 ELSE Alias(u, e.tools[n][i].turn)
                   /\ level = "anonymize" => c.to = Epoch
         /\ level = "anonymize" => \A k \in DOMAIN e.turns :
              /\ y.turns[k].from = Epoch
              /\ DOMAIN y.turns[k].tool_calls = DOMAIN e.turns[k].tool_calls
              /\ \A i \in DOMAIN e.turns[k].tool_calls :
                   y.turns[k].tool_calls[i].name = HashedName(e.turns[k].tool_calls[i].name)
<1> DEFINE anon == level = "anonymize"
           hashed(q) == IF anon THEN [i \in DOMAIN q |-> HashedRow(q[i])] ELSE q
           turn(t, k) == [t EXCEPT !.id = Alias(u, k), !.model = Family(@),
                                   !.from = IF anon THEN Epoch ELSE @,
                                   !.to = IF anon /\ @ # None THEN Epoch ELSE @,
                                   !.tool_calls = hashed(@), !.hook_calls = hashed(@), !.skill_calls = hashed(@)]
<1>1. CASE level = "none"
  BY <1>1 DEF RedactEpisodes, Renamed
<1>2. CASE level # "none"
  <2>1. /\ y.turns = [k \in DOMAIN e.turns |-> turn(e.turns[k], k)]
        /\ y.tools = Rekeyed(e.tools, anon, u, RedactCall)
        /\ y.hooks = Rekeyed(e.hooks, anon, u, RedactCall)
        /\ y.skills = Rekeyed(e.skills, anon, u, RedactSkill)
        /\ y.loaded = IF anon THEN {HashedName(n) : n \in e.loaded} ELSE e.loaded
    BY <1>2 DEF RedactEpisodes, IsSession
  <2> HIDE DEF turn
  <2>2. /\ DOMAIN y.tools = {Renamed(n, level) : n \in DOMAIN e.tools}
        /\ DOMAIN y.hooks = {Renamed(n, level) : n \in DOMAIN e.hooks}
        /\ DOMAIN y.skills = {Renamed(n, level) : n \in DOMAIN e.skills}
    <3>1. DOMAIN y.tools = {Renamed(n, level) : n \in DOMAIN e.tools}
      BY <2>1 DEF Rekeyed, Renamed
    <3>2. DOMAIN y.hooks = {Renamed(n, level) : n \in DOMAIN e.hooks}
      BY <2>1 DEF Rekeyed, Renamed
    <3>3. DOMAIN y.skills = {Renamed(n, level) : n \in DOMAIN e.skills}
      BY <2>1 DEF Rekeyed, Renamed
    <3> QED BY <3>1, <3>2, <3>3
  <2>9. y.loaded = {Renamed(n, level) : n \in e.loaded}
    <3>1. CASE anon
      BY <2>1, <3>1 DEF Renamed
    <3>2. CASE ~anon
      BY <2>1, <3>2 DEF Renamed
    <3> QED BY <3>1, <3>2
  <2>3. \A k \in DOMAIN e.turns :
          /\ turn(e.turns[k], k).id = Alias(u, k)
          /\ anon => /\ turn(e.turns[k], k).from = Epoch
                     /\ turn(e.turns[k], k).tool_calls = hashed(e.turns[k].tool_calls)
    BY DEF IsSession, IsTurn, turn
  <2>4. anon => \A k \in DOMAIN e.turns :
          /\ DOMAIN hashed(e.turns[k].tool_calls) = DOMAIN e.turns[k].tool_calls
          /\ \A i \in DOMAIN e.turns[k].tool_calls :
               hashed(e.turns[k].tool_calls)[i].name = HashedName(e.turns[k].tool_calls[i].name)
    BY DEF IsSession, IsTurn, HashedRow
  <2> HIDE DEF hashed
  <2>5. /\ DOMAIN y.turns = DOMAIN e.turns
        /\ \A k \in DOMAIN e.turns : y.turns[k] = turn(e.turns[k], k)
    BY <2>1
  <2>6. ASSUME NEW n \in DOMAIN e.tools
        PROVE  /\ DOMAIN y.tools[Renamed(n, level)] = DOMAIN e.tools[n]
               /\ \A i \in DOMAIN e.tools[n] : y.tools[Renamed(n, level)][i] = RedactCall(e.tools[n][i], anon, u)
    <3>1. AreNamed(e.tools)
      BY DEF IsSession
    <3>2. CASE ~anon
      BY <2>1, <3>2 DEF Rekeyed, Renamed
    <3>3. CASE anon
      <4> DEFINE m == CHOOSE m \in DOMAIN e.tools : HashedName(m) = HashedName(n)
      <4>1. m \in DOMAIN e.tools /\ HashedName(m) = HashedName(n)
        OBVIOUS
      <4>2. y.tools[HashedName(n)] = [i \in DOMAIN e.tools[m] |-> RedactCall(e.tools[m][i], anon, u)]
        BY <2>1, <3>3 DEF Rekeyed
      <4> HIDE DEF m
      <4>3. IsName(m) /\ IsName(n)
        BY <3>1, <4>1 DEF AreNamed
      <4>4. m = n
        BY <4>1, <4>3, HashedNamesDiffer
      <4>5. Renamed(n, level) = HashedName(n)
        BY <3>3 DEF Renamed
      <4> QED BY <4>2, <4>4, <4>5
    <3> QED BY <3>2, <3>3
  <2>7. ASSUME NEW n \in DOMAIN e.tools, NEW i \in DOMAIN e.tools[n], NEW c, c = e.tools[n][i]
        PROVE  /\ RedactCall(c, anon, u).turn = IF c.turn = 0 THEN 0 ELSE Alias(u, c.turn)
               /\ anon => RedactCall(c, anon, u).to = Epoch
    <3>1. DOMAIN c = {"from", "to", "turn", "status", "requested"}
      BY <2>7 DEF IsSession, IsCall
    <3> QED BY <3>1 DEF RedactCall
  <2>8. \A n \in DOMAIN e.tools :
          /\ DOMAIN y.tools[Renamed(n, level)] = DOMAIN e.tools[n]
          /\ \A i \in DOMAIN e.tools[n] : LET c == y.tools[Renamed(n, level)][i] IN
               /\ c.turn = IF e.tools[n][i].turn = 0 THEN 0 ELSE Alias(u, e.tools[n][i].turn)
               /\ anon => c.to = Epoch
    BY <2>6, <2>7
  <2> QED BY <1>2, <2>2, <2>3, <2>4, <2>5, <2>8, <2>9 
<1> QED BY <1>1, <1>2

LEMMA WasteParts ==
  ASSUME NEW rank, NEW wire, NEW config, NEW costs, IsFiniteSet(Loaded(rank, wire, config)),
         NEW level, NEW z, z = RedactWaste(ComputeWaste(rank, wire, config, costs), level),
         NEW row \in ToSet(z.server_waste), NEW t \in row.tools
  PROVE  \E k \in Loaded(rank, wire, config) :
           t.tool_name = Renamed(FullName(k), level) /\ t.call_count = CallCount(rank, k)
<1> DEFINE w == ComputeWaste(rank, wire, config, costs)
<1>1. "server_waste" \in DOMAIN w
  BY DEF ComputeWaste
<1> HIDE DEF w
<1>2. ASSUME NEW old \in ToSet(w.server_waste), NEW a \in old.tools
      PROVE  \E k \in Loaded(rank, wire, config) :
               /\ a.tool_name = FullName(k) /\ a.call_count = CallCount(rank, k)
               /\ HashedTool(a).tool_name = HashedName(FullName(k)) /\ HashedTool(a).call_count = CallCount(rank, k)
  <2>1. PICK k \in Loaded(rank, wire, config) : a = ToolWaste(k, rank, wire, config, costs)
    BY <1>2, WasteLists DEF w
  <2>2. a.tool_name = FullName(k) /\ a.call_count = CallCount(rank, k)
        /\ {"tool_name", "call_count"} \subseteq DOMAIN a
    BY <2>1 DEF ToolWaste
  <2>3. HashedTool(a).tool_name = HashedName(FullName(k)) /\ HashedTool(a).call_count = CallCount(rank, k)
    BY <2>2 DEF HashedTool
  <2> QED BY <2>2, <2>3
<1>3. CASE level # "anonymize"
  <2>1. z = w
    BY <1>3 DEF RedactWaste, w
  <2> QED BY <1>2, <1>3, <2>1 DEF Renamed
<1>4. CASE level = "anonymize"
  <2> DEFINE hashed(q) == [q EXCEPT !.server = Hash(@), !.tools = {HashedTool(a) : a \in @}]
  <2>1. z.server_waste = [i \in DOMAIN w.server_waste |-> hashed(w.server_waste[i])]
    BY <1>1, <1>4 DEF RedactWaste, w
  <2>2. \A q : "tools" \in DOMAIN q => hashed(q).tools = {HashedTool(a) : a \in q.tools}
    OBVIOUS
  <2> HIDE DEF hashed
  <2>3. PICK i \in DOMAIN w.server_waste : row = hashed(w.server_waste[i])
    BY <2>1 DEF ToSet
  <2> DEFINE old == w.server_waste[i]
  <2>4. old \in ToSet(w.server_waste)
    BY DEF ToSet
  <2> HIDE DEF old
  <2>5. \E server, tools : old = ServerWaste(server, tools)
    BY <2>4, WasteLists DEF w
  <2>6. "tools" \in DOMAIN old
    BY <2>5 DEF ServerWaste
  <2>7. PICK a \in old.tools : t = HashedTool(a)
    BY <2>2, <2>3, <2>6 DEF old
  <2> QED BY <1>2, <1>4, <2>4, <2>7 DEF Renamed
<1> QED BY <1>3, <1>4

-----------------------------------------------------------------------------
(* A session and what its redaction is.                                    *)
Redacts(s, e, r, wasted, level, u, x, y) ==
  /\ s \in Session /\ IsSession(e) /\ r = ReportFrom(s, e)
  /\ u = NewContext(r, e, wasted).uuids
  /\ x = RedactReport(r, level, u) /\ y = RedactEpisodes(e, level, u)

LEMMA AliasesDiffer ==
  ASSUME NEW s, NEW e, NEW r, NEW wasted, NEW level, NEW u, NEW x, NEW y,
         Redacts(s, e, r, wasted, level, u, x, y),
         NEW i \in {s} \cup DOMAIN e.turns, NEW j \in {s} \cup DOMAIN e.turns, i # j
  PROVE  Alias(u, i) # Alias(u, j)
<1>1. (\E U : u \in Seq(U)) /\ Has(u, i) /\ Has(u, j)
  BY IdsCover DEF Redacts
<1>2. u[-Alias(u, i)] = i /\ u[-Alias(u, j)] = j
  BY <1>1, AliasIs
<1> QED BY <1>2

LEMMA TurnsJoin ==
  ASSUME NEW s, NEW e, NEW r, NEW wasted, NEW level, NEW u, NEW x, NEW y,
         Redacts(s, e, r, wasted, level, u, x, y)
  PROVE  /\ DOMAIN y.turns = DOMAIN e.turns
         /\ \A k \in DOMAIN e.turns : x.turns[k].turn_id = y.turns[k].id /\ y.turns[k].id # x.id
         /\ \A j, k \in DOMAIN e.turns : y.turns[j].id = y.turns[k].id => j = k
         /\ \A n \in DOMAIN e.tools : \A i \in DOMAIN e.tools[n] :
              y.tools[Renamed(n, level)][i].turn
                = IF e.tools[n][i].turn = 0 THEN 0 ELSE y.turns[e.tools[n][i].turn].id
<1>1. /\ DOMAIN e.turns = 1..Len(e.turns) /\ Len(e.turns) \in Nat
      /\ \A k \in DOMAIN e.turns : e.turns[k].id = k
      /\ \A n \in DOMAIN e.tools : \A i \in DOMAIN e.tools[n] :
           e.tools[n][i].turn = 0 \/ e.tools[n][i].turn \in DOMAIN e.turns
  BY DEF Redacts, IsSession, IsList, IsTurn, IsCall
<1>2. s \notin Int
  BY ContentAssumption DEF Redacts
<1>3. CASE level = "none"
  <2>1. x = r /\ y = e
    BY <1>3, ReportParts, EpisodeParts DEF Redacts
  <2>2. r.id = s /\ \A k \in DOMAIN e.turns : r.turns[k].turn_id = k
    BY DEF Redacts, ReportFrom, TurnSummary
  <2> QED BY <1>1, <1>2, <1>3, <2>1, <2>2 DEF Renamed
<1>4. CASE level # "none"
  <2>1. x.id = Alias(u, s) /\ \A k \in DOMAIN e.turns : x.turns[k].turn_id = Alias(u, k)
    BY <1>4, ReportParts DEF Redacts
  <2>2. /\ DOMAIN y.turns = DOMAIN e.turns
        /\ \A k \in DOMAIN e.turns : y.turns[k].id = Alias(u, k)
        /\ \A n \in DOMAIN e.tools : \A i \in DOMAIN e.tools[n] :
             y.tools[Renamed(n, level)][i].turn
               = IF e.tools[n][i].turn = 0 THEN 0 ELSE Alias(u, e.tools[n][i].turn)
    BY <1>4, EpisodeParts DEF Redacts
  <2>3. \A i, j \in {s} \cup DOMAIN e.turns : Alias(u, i) = Alias(u, j) => i = j
    BY AliasesDiffer
  <2>4. \A k \in DOMAIN e.turns : k # s
    BY <1>1, <1>2
  <2> QED BY <1>1, <2>1, <2>2, <2>3, <2>4
<1> QED BY <1>3, <1>4

LEMMA NamesJoin ==
  ASSUME NEW s, NEW e, NEW r, NEW wasted, NEW level, NEW u, NEW x, NEW y,
         Redacts(s, e, r, wasted, level, u, x, y)
  PROVE  /\ DOMAIN y.tools = {x.rank[i].name : i \in DOMAIN x.rank}
         /\ \A n \in NamesOf(x, y) : \E m \in NamesOf(r, e) : n = Renamed(m, level)
         /\ \A i \in DOMAIN r.rank : IsName(r.rank[i].name) /\ r.rank[i].name \in NamesOf(r, e)
<1>1. /\ \A i \in DOMAIN r.rank : r.rank[i].name \in DOMAIN e.tools
      /\ \A n \in DOMAIN e.tools : \E i \in DOMAIN r.rank : r.rank[i].name = n
  <2>1. r.rank = ToolRank(e) /\ IsSession(e)
    BY DEF Redacts, ReportFrom
  <2> QED BY <2>1, ToolsRanked
<1>2. /\ DOMAIN x.rank = DOMAIN r.rank
      /\ \A i \in DOMAIN r.rank : x.rank[i].name = Renamed(r.rank[i].name, level)
      /\ x.loaded = {Renamed(n, level) : n \in r.loaded}
  BY ReportParts DEF Redacts
<1>3. /\ DOMAIN y.tools = {Renamed(n, level) : n \in DOMAIN e.tools}
      /\ DOMAIN y.hooks = {Renamed(n, level) : n \in DOMAIN e.hooks}
      /\ DOMAIN y.skills = {Renamed(n, level) : n \in DOMAIN e.skills}
  BY EpisodeParts DEF Redacts
<1>4. \A n \in DOMAIN y.tools : \E i \in DOMAIN x.rank : x.rank[i].name = n
  BY <1>1, <1>2, <1>3
<1>5. \A i \in DOMAIN x.rank : x.rank[i].name \in DOMAIN y.tools
  BY <1>1, <1>2, <1>3
<1>6. ASSUME NEW n \in NamesOf(x, y) PROVE \E m \in NamesOf(r, e) : n = Renamed(m, level)
  BY <1>2, <1>3, <1>5 DEF NamesOf
<1>7. \A i \in DOMAIN r.rank : IsName(r.rank[i].name) /\ r.rank[i].name \in NamesOf(r, e)
  BY <1>1 DEF NamesOf, Redacts, IsSession, AreNamed
<1> QED BY <1>4, <1>5, <1>6, <1>7

(* What Clean asks of names, of the report and the configuration alone.    *)
Hidden(names, r, e, config) ==
  \A n \in names : IsMcp(n) => \E m \in RawNames(r, e, config) : ServerOf(n) = Hash(ServerOf(m))

LEMMA HashesHide ==
  ASSUME NEW s, NEW e, IsSession(e), NEW r, r = ReportFrom(s, e), NEW config,
         \A k \in Configured(config) : IsName(k[1]) /\ IsName(k[2]),
         NEW names, \A n \in names : \E m \in RawNames(r, e, config) : n = HashedName(m)
  PROVE  Hidden(names, r, e, config)
<1> SUFFICES ASSUME NEW n \in names, IsMcp(n)
             PROVE  \E m \in RawNames(r, e, config) : ServerOf(n) = Hash(ServerOf(m))
  BY DEF Hidden
<1>1. PICK m \in RawNames(r, e, config) : n = HashedName(m)
  OBVIOUS
<1>2. IsName(m)
  BY <1>1, NamesAre
<1> QED BY <1>1, <1>2, HashedIs

(* The names of the calls of a turn, and of the tools of a row.            *)
CalledIn(turn) == {turn.tool_calls[i].name : i \in DOMAIN turn.tool_calls}
ToolsOf(row) == {t.tool_name : t \in row.tools}

LEMMA AllIsHidden ==
  ASSUME NEW s, NEW e, NEW r, NEW wasted, NEW level, NEW u, NEW x, NEW y,
         Redacts(s, e, r, wasted, level, u, x, y), level = "anonymize",
         NEW config, IsFiniteSet(Configured(config)),
         \A k \in Configured(config) : IsName(k[1]) /\ IsName(k[2])
  PROVE  /\ Hidden(NamesOf(x, y), r, e, config)
         /\ \A k \in DOMAIN y.turns :
              Hidden(CalledIn(y.turns[k]), r, e, config)
         /\ \A costs, z : z = RedactWaste(ComputeWaste(r.rank, r.loaded, config, costs), level) =>
              \A w \in ToSet(z.server_waste) : Hidden(ToolsOf(w), r, e, config)
<1>1. IsSession(e) /\ r = ReportFrom(s, e)
  BY DEF Redacts
<1>2. Hidden(NamesOf(x, y), r, e, config)
  <2>1. \A n \in NamesOf(x, y) : \E m \in NamesOf(r, e) : n = HashedName(m)
    BY NamesJoin DEF Renamed
  <2>2. \A n \in NamesOf(x, y) : \E m \in RawNames(r, e, config) : n = HashedName(m)
    BY <2>1 DEF RawNames
  <2> QED BY <1>1, <2>2, HashesHide
<1>3. ASSUME NEW k \in DOMAIN y.turns
      PROVE  Hidden(CalledIn(y.turns[k]), r, e, config)
  <2> DEFINE names == CalledIn(y.turns[k])
  <2>1. k \in DOMAIN e.turns
    BY TurnsJoin
  <2>2. /\ DOMAIN y.turns[k].tool_calls = DOMAIN e.turns[k].tool_calls
        /\ \A i \in DOMAIN e.turns[k].tool_calls :
             y.turns[k].tool_calls[i].name = HashedName(e.turns[k].tool_calls[i].name)
    BY <2>1, EpisodeParts DEF Redacts
  <2>3. \A i \in DOMAIN e.turns[k].tool_calls : e.turns[k].tool_calls[i].name \in RawNames(r, e, config)
    BY <1>1, <2>1 DEF RawNames, NamesOf, IsSession
  <2>4. \A n \in names : \E m \in RawNames(r, e, config) : n = HashedName(m)
    BY <2>2, <2>3 DEF CalledIn
  <2> HIDE DEF names
  <2>5. Hidden(names, r, e, config)
    BY <1>1, <2>4, HashesHide
  <2> QED BY <2>5 DEF names
<1>4. ASSUME NEW costs, NEW z, z = RedactWaste(ComputeWaste(r.rank, r.loaded, config, costs), level),
             NEW w \in ToSet(z.server_waste)
      PROVE  Hidden(ToolsOf(w), r, e, config)
  <2> DEFINE names == ToolsOf(w)
  <2>1. IsFiniteSet(Loaded(r.rank, r.loaded, config))
    BY <1>1, LoadedFinite
  <2>2. ASSUME NEW t \in w.tools PROVE \E m \in RawNames(r, e, config) : t.tool_name = HashedName(m)
    <3>1. PICK k \in Loaded(r.rank, r.loaded, config) : t.tool_name = Renamed(FullName(k), level)
      BY <1>4, <2>1, WasteParts
    <3>2. FullName(k) \in RawNames(r, e, config)
      BY <1>1, NamesAre
    <3> QED BY <3>1, <3>2 DEF Renamed
  <2>3. \A n \in names : \E m \in RawNames(r, e, config) : n = HashedName(m)
    BY <2>2 DEF ToolsOf
  <2> HIDE DEF names
  <2>4. Hidden(names, r, e, config)
    BY <1>1, <2>3, HashesHide
  <2> QED BY <2>4 DEF names
<1> QED BY <1>2, <1>3, <1>4

(* No instant and no version of a model is left.                           *)
LEMMA RestIsHidden ==
  ASSUME NEW s, NEW e, NEW r, NEW wasted, NEW level, NEW u, NEW x, NEW y,
         Redacts(s, e, r, wasted, level, u, x, y), level = "anonymize"
  PROVE  /\ \A m \in DOMAIN x.usage : Len(m) = 1
         /\ {x.started_at} \cup {x.turns[k].started_at : k \in DOMAIN x.turns}
              \cup {y.turns[k].from : k \in DOMAIN y.turns}
              \cup UNION {{y.tools[n][i].to : i \in DOMAIN y.tools[n]} : n \in DOMAIN y.tools} = {Epoch}
<1>1. /\ x.started_at = Epoch /\ DOMAIN x.turns = DOMAIN e.turns
      /\ \A k \in DOMAIN e.turns : x.turns[k].started_at = Epoch
      /\ DOMAIN x.usage = {Family(m) : m \in DOMAIN e.usage}
  BY ReportParts DEF Redacts
<1>2. /\ DOMAIN y.turns = DOMAIN e.turns
      /\ \A k \in DOMAIN e.turns : y.turns[k].from = Epoch
      /\ DOMAIN y.tools = {Renamed(n, level) : n \in DOMAIN e.tools}
      /\ \A n \in DOMAIN e.tools :
           /\ DOMAIN y.tools[Renamed(n, level)] = DOMAIN e.tools[n]
           /\ \A i \in DOMAIN e.tools[n] : y.tools[Renamed(n, level)][i].to = Epoch
  BY EpisodeParts DEF Redacts
<1>3. \A m \in DOMAIN x.usage : Len(m) = 1
  <2>1. \A m \in DOMAIN e.usage : m # None
    BY DEF Redacts, IsSession
  <2>2. \A m \in DOMAIN e.usage : Family(m) = <<m[1]>>
    BY <2>1 DEF Family
  <2> QED BY <1>1, <2>2
<1>4. \A n \in DOMAIN y.tools : \A i \in DOMAIN y.tools[n] : y.tools[n][i].to = Epoch
  BY <1>2
<1> QED BY <1>1, <1>2, <1>3, <1>4

(* The map leads back.                                                     *)
LEMMA MapLeads ==
  ASSUME NEW s, NEW e, NEW r, NEW wasted, NEW level, NEW u, NEW x, NEW y,
         Redacts(s, e, r, wasted, level, u, x, y), level = "anonymize",
         NEW map, map = NewContext(r, e, wasted)
  PROVE  /\ map.uuids[-x.id] = r.id
         /\ \A k \in DOMAIN r.turns : map.uuids[-x.turns[k].turn_id] = k
         /\ \A i \in DOMAIN r.rank : IsMcp(r.rank[i].name) =>
              map.servers[ServerOf(x.rank[i].name)] = ServerOf(r.rank[i].name)
         /\ \A f \in DOMAIN x.usage :
              /\ map.models[f] \in DOMAIN r.usage \cup {r.turns[k].model : k \in DOMAIN r.turns}
              /\ Family(map.models[f]) = f
<1>1. /\ x.id = Alias(u, s) /\ \A k \in DOMAIN e.turns : x.turns[k].turn_id = Alias(u, k)
      /\ DOMAIN x.usage = {Family(m) : m \in DOMAIN e.usage}
      /\ \A i \in DOMAIN r.rank : x.rank[i].name = HashedName(r.rank[i].name)
  BY ReportParts DEF Redacts, Renamed
<1>2. /\ r.id = s /\ r.usage = e.usage /\ DOMAIN r.turns = DOMAIN e.turns
      /\ \A k \in DOMAIN e.turns : r.turns[k].model = e.turns[k].model
  BY DEF Redacts, ReportFrom, TurnSummary
<1>3. \A id \in {s} \cup DOMAIN e.turns : u[-Alias(u, id)] = id
  <2>1. (\E U : u \in Seq(U)) /\ \A id \in {s} \cup DOMAIN e.turns : Has(u, id)
    BY IdsCover DEF Redacts
  <2> QED BY <2>1, AliasIs
<1>4. map.uuids = u
  BY DEF Redacts
<1>5. ASSUME NEW i \in DOMAIN r.rank, IsMcp(r.rank[i].name)
      PROVE  map.servers[ServerOf(x.rank[i].name)] = ServerOf(r.rank[i].name)
  <2> DEFINE n == r.rank[i].name
             S == Servers(NamesOf(r, e)) \cup UNION {{w.server} \cup Servers({t.tool_name : t \in w.tools}) : w \in wasted}
  <2>1. IsName(n) /\ n \in NamesOf(r, e)
    BY NamesJoin
  <2>2. ServerOf(n) \in S
    BY <1>5, <2>1 DEF Servers
  <2>3. map.servers = HashesOf(S)
    BY DEF NewContext
  <2> HIDE DEF S
  <2>4. ServerOf(x.rank[i].name) = Hash(ServerOf(n))
    BY <1>1, <1>5, <2>1, HashedIs
  <2> QED BY <2>2, <2>3, <2>4, HashLeads
<1>6. ASSUME NEW f \in DOMAIN x.usage
      PROVE  map.models[f] \in ModelsIn(e) /\ Family(map.models[f]) = f
  <2> DEFINE ms == ModelsOf(r, e)
  <2>1. PICK m \in DOMAIN e.usage : f = Family(m)
    BY <1>1
  <2>2. map.models = FirstOfFamily(ms)
    BY DEF NewContext
  <2> HIDE DEF ms
  <2>3. ms \in Seq(ModelsIn(e)) /\ Has(ms, m)
    BY ModelsCover DEF ms, Redacts
  <2>4. Has(ms, FirstOfFamily(ms)[f]) /\ Family(FirstOfFamily(ms)[f]) = f
    BY <2>1, <2>3, FamilyLeads
  <2> QED BY <2>2, <2>3, <2>4 DEF Has
<1> QED BY <1>1, <1>2, <1>3, <1>4, <1>5, <1>6 DEF ModelsIn

-----------------------------------------------------------------------------
(* What analyze loaded, computed and wrote is of one session.              *)

(* The first of the pairs is what one read of a session's file gave.       *)
OneRead(p) == \E s \in Session : \E e : IsSession(e) /\ p = [report |-> ReportFrom(s, e), episodes |-> e]

VersionsOK == \A s \in Session : version[s] \in DOMAIN Content[s]
FromFile ==
  /\ pc \in {"start", "done"} \/ (refs \in Seq(Session) /\ refs # <<>>)
  /\ at \in Nat \ {0}
  /\ pairs # <<>> => OneRead(pairs[1])
MadeOfIt ==
  /\ pairs # <<>>
  /\ made.report = pairs[1].report /\ made.episodes = pairs[1].episodes
  /\ made.waste \in {None, WasteOf(made.report)}
WrittenOfIt ==
  /\ Computed => MadeOfIt
  /\ output # <<>> /\ ~cmd.tui => output = <<Redacted>>
  /\ sidecar # <<>> => output # <<>> /\ ~cmd.tui /\ sidecar = <<RedactionMap>> /\ MapOwed

JoinInv ==
  /\ IInv
  /\ DOMAIN version = Session /\ VersionsOK
  /\ cmd.kind = "analyze" => FromFile /\ WrittenOfIt

(* Of one session, what RedactionJoins asks of its redaction.              *)
LEMMA Joined == JoinInv => RedactionJoins
<1> SUFFICES ASSUME JoinInv PROVE RedactionJoins
  OBVIOUS
<1> SUFFICES ASSUME cmd.kind = "analyze", output # <<>>, ~cmd.tui PROVE RedactionJoins
  BY DEF JoinInv, WrittenOfIt, RedactionJoins, NothingRawIsLeft, AliasesJoin, MapInverts, Analyzed, Written
<1> DEFINE config == ConfiguredTools(cmd.mcp)
           costs == Costs(Described[1], made.report.usage)
           wasted == IF made.waste = None THEN {} ELSE ToSet(made.waste.server_waste)
           r == made.report
           e == made.episodes
           x == out.report
           y == out.episodes
           u == Context.uuids
<1>1. PICK s \in Session : IsSession(e) /\ r = ReportFrom(s, e)
  <2>0. FromFile /\ MadeOfIt
    BY DEF JoinInv, WrittenOfIt, Computed
  <2>1. MadeOfIt /\ OneRead(pairs[1])
    BY <2>0 DEF FromFile, MadeOfIt
  <2>2. PICK s \in Session : \E f : IsSession(f) /\ pairs[1] = [report |-> ReportFrom(s, f), episodes |-> f]
    BY <2>1 DEF OneRead
  <2>3. PICK f : IsSession(f) /\ pairs[1] = [report |-> ReportFrom(s, f), episodes |-> f]
    BY <2>2
  <2> QED BY <2>1, <2>3 DEF MadeOfIt
<1>2. output = <<Redacted>> /\ out = Redacted
  BY DEF JoinInv, WrittenOfIt, out
<1>3. /\ x = RedactReport(r, cmd.level, u) /\ y = RedactEpisodes(e, cmd.level, u)
      /\ out.waste = IF made.waste = None THEN None ELSE RedactWaste(made.waste, cmd.level)
  BY <1>2 DEF Redacted
<1>4. Context = NewContext(r, e, wasted)
  BY DEF Context
<1>5. made.waste \in {None, ComputeWaste(r.rank, r.loaded, config, costs)}
  BY DEF JoinInv, WrittenOfIt, Computed, MadeOfIt, WasteOf
<1>6. IsFiniteSet(Configured(config)) /\ \A k \in Configured(config) : IsName(k[1]) /\ IsName(k[2])
  BY AnalyzeAssumption DEF JoinInv, IInv
<1> HIDE DEF config, costs, wasted, r, e, x, y, u
<1>7. Redacts(s, e, r, wasted, cmd.level, u, x, y)
  BY <1>1, <1>3, <1>4 DEF Redacts, u
<1>8. AliasesJoin
  <2>1. /\ DOMAIN y.turns = DOMAIN e.turns
        /\ \A k \in DOMAIN e.turns : x.turns[k].turn_id = y.turns[k].id /\ y.turns[k].id # x.id
        /\ \A j, k \in DOMAIN e.turns : y.turns[j].id = y.turns[k].id => j = k
        /\ \A n \in DOMAIN e.tools : \A i \in DOMAIN e.tools[n] :
             y.tools[Renamed(n, cmd.level)][i].turn
               = IF e.tools[n][i].turn = 0 THEN 0 ELSE y.turns[e.tools[n][i].turn].id
    BY <1>7, TurnsJoin
  <2>2. DOMAIN y.tools = {x.rank[i].name : i \in DOMAIN x.rank}
    BY <1>7, NamesJoin
  <2>3. ASSUME out.waste # None, NEW w \in ToSet(out.waste.server_waste), NEW t \in w.tools, t.call_count > 0
        PROVE  \E i \in DOMAIN x.rank : x.rank[i].name = t.tool_name
    <3>1. IsFiniteSet(Loaded(r.rank, r.loaded, config))
      BY <1>1, <1>6, LoadedFinite
    <3>2. out.waste = RedactWaste(ComputeWaste(r.rank, r.loaded, config, costs), cmd.level)
      BY <1>3, <1>5, <2>3
    <3>3. PICK k \in Loaded(r.rank, r.loaded, config) :
            t.tool_name = Renamed(FullName(k), cmd.level) /\ t.call_count = CallCount(r.rank, k)
      BY <2>3, <3>1, <3>2, WasteParts
    <3>4. \A i \in DOMAIN r.rank : IsName(r.rank[i].name)
      BY <1>7, NamesJoin
    <3>5. PICK i \in DOMAIN r.rank : r.rank[i].name = FullName(k)
      BY <2>3, <3>3, <3>4, CalledIsRanked
    <3>6. DOMAIN x.rank = DOMAIN r.rank /\ x.rank[i].name = Renamed(r.rank[i].name, cmd.level)
      BY <1>7, <3>5, ReportParts DEF Redacts
    <3> QED BY <3>3, <3>5, <3>6
  <2> QED BY <2>1, <2>2, <2>3 DEF AliasesJoin, x, y, e, Renamed
<1>9. NothingRawIsLeft
  <2> SUFFICES ASSUME cmd.level = "anonymize" PROVE NothingRawIsLeft
    BY DEF NothingRawIsLeft
  <2>1. ASSUME NEW names, Hidden(names, r, e, config) PROVE Clean(names)
    BY <2>1 DEF Hidden, Clean, RawNames, r, e, config
  <2>2. /\ Hidden(NamesOf(x, y), r, e, config)
        /\ \A k \in DOMAIN y.turns : Hidden(CalledIn(y.turns[k]), r, e, config)
        /\ \A z : z = RedactWaste(ComputeWaste(r.rank, r.loaded, config, costs), cmd.level) =>
             \A w \in ToSet(z.server_waste) : Hidden(ToolsOf(w), r, e, config)
    BY <1>6, <1>7, AllIsHidden
  <2>3. /\ \A m \in DOMAIN x.usage : Len(m) = 1
        /\ {x.started_at} \cup {x.turns[k].started_at : k \in DOMAIN x.turns}
             \cup {y.turns[k].from : k \in DOMAIN y.turns}
             \cup UNION {{y.tools[n][i].to : i \in DOMAIN y.tools[n]} : n \in DOMAIN y.tools} = {Epoch}
    BY <1>7, RestIsHidden
  <2>4. out.waste # None =>
          \A w \in ToSet(out.waste.server_waste) : Clean({t.tool_name : t \in w.tools})
    BY <1>3, <1>5, <2>1, <2>2 DEF ToolsOf
  <2>5. /\ Clean(NamesOf(x, y))
        /\ \A k \in DOMAIN y.turns :
             Clean({y.turns[k].tool_calls[i].name : i \in DOMAIN y.turns[k].tool_calls})
    BY <2>1, <2>2 DEF CalledIn
  <2> QED BY <2>3, <2>4, <2>5 DEF NothingRawIsLeft, x, y
<1>10. MapInverts
  <2> SUFFICES ASSUME sidecar # <<>> PROVE MapInverts
    BY DEF MapInverts
  <2>1. sidecar = <<RedactionMap>> /\ MapOwed
    BY DEF JoinInv, WrittenOfIt
  <2>2. cmd.level = "anonymize" /\ sidecar[1] = NewContext(r, e, wasted)
    BY <1>4, <2>1 DEF MapOwed, RedactionMap
  <2> DEFINE map == sidecar[1]
  <2>3. map = NewContext(r, e, wasted)
    BY <2>2
  <2> HIDE DEF map
  <2>4. /\ map.uuids[-x.id] = r.id
        /\ \A k \in DOMAIN r.turns : map.uuids[-x.turns[k].turn_id] = k
        /\ \A i \in DOMAIN r.rank : IsMcp(r.rank[i].name) =>
             map.servers[ServerOf(x.rank[i].name)] = ServerOf(r.rank[i].name)
        /\ \A f \in DOMAIN x.usage :
             /\ map.models[f] \in DOMAIN r.usage \cup {r.turns[k].model : k \in DOMAIN r.turns}
             /\ Family(map.models[f]) = f
    BY <1>7, <2>2, <2>3, MapLeads
  <2> QED BY <2>4 DEF MapInverts, map, x, r
<1> QED BY <1>8, <1>9, <1>10 DEF RedactionJoins

(* A context, a page and a map are of what was made.                       *)
LEMMA OfMade ==
  ASSUME UNCHANGED <<cmd, made>>
  PROVE  /\ Redacted' = Redacted /\ RedactionMap' = RedactionMap /\ (MapOwed' <=> MapOwed)
         /\ \A r : WasteOf(r)' = WasteOf(r)
BY DEF Redacted, RedactRows, RedactionMap, Context, MapOwed, WasteOf, Described

(* A step that leaves what was loaded, made and written alone.             *)
LEMMA StaysOfIt ==
  ASSUME FromFile /\ WrittenOfIt, UNCHANGED <<cmd, refs, at, pairs, made, output, sidecar>>,
         pc' \in {"tui", "write", "map"} => pc \in {"tui", "write", "map"},
         pc' = "start" => pc = "start", pc # "done", pc = "start" => pc' \in {"start", "done"}
  PROVE  (FromFile /\ WrittenOfIt)'
<1>1. (Computed' => Computed) /\ (MadeOfIt => MadeOfIt')
  BY OfMade DEF Computed, MadeOfIt
<1>2. FromFile'
  BY DEF FromFile, OneRead
<1>3. WrittenOfIt'
  BY <1>1, OfMade DEF WrittenOfIt
<1> QED BY <1>2, <1>3

LEMMA SelectedIs ==
  ASSUME cmd \in Commands, cmd.kind = "analyze", root \in Seq(Session)
  PROVE  Selected \in Seq(Session)
<1> DEFINE by == cmd.session.by
           part(n) == SubSeq(root, n, Min({n, Len(root)}))
<1>1. by \in {"path", "latest", "previous", "uuid"}
      /\ (by = "path" /\ cmd.session.is # "missing" => cmd.session.id \in Session)
  BY AnalyzeAssumption
<1>2. CASE by = "path"
  BY <1>1, <1>2 DEF Selected
<1>3. \A n \in 1..2 : part(n) \in Seq(Session)
  <2> SUFFICES ASSUME NEW n \in 1..2 PROVE part(n) \in Seq(Session)
    OBVIOUS
  <2> DEFINE m == Min({n, Len(root)})
  <2>1. m \in {n, Len(root)} /\ m <= n /\ m <= Len(root)
    <3>1. \E x \in {n, Len(root)} : \A y \in {n, Len(root)} : x <= y
      OBVIOUS
    <3> QED BY <3>1 DEF Min
  <2> HIDE DEF m
  <2>2. m \in Nat /\ m <= Len(root)
    BY <2>1
  <2>3. \A i \in n..m : i \in 1..Len(root)
    BY <2>2
  <2>4. SubSeq(root, n, m) \in Seq(Session)
    BY <2>2, <2>3
  <2> QED BY <2>4 DEF m
<1>4. CASE by = "latest"
  <2>1. Selected = part(1)
    BY <1>4 DEF Selected
  <2> HIDE DEF part
  <2> QED BY <1>3, <2>1
<1>5. CASE by = "previous"
  <2>1. Selected = part(2)
    BY <1>5 DEF Selected
  <2> HIDE DEF part
  <2> QED BY <1>3, <2>1
<1>6. CASE by = "uuid"
  <2> DEFINE S == {i \in DOMAIN root : root[i] = cmd.session.id}
  <2>1. IsFiniteSet(1..Len(root)) /\ DOMAIN root = 1..Len(root) /\ Len(root) \in Nat
    BY FS_Interval
  <2>2. S \in SUBSET (1..Len(root)) /\ \A i \in S : root[i] \in Session
    BY <2>1
  <2>3. Selected = PickedAt(root, S)
    BY <1>6 DEF Selected
  <2> HIDE DEF S
  <2>4. IsFiniteSet(S) /\ S \subseteq Nat
    <3>1. IsFiniteSet(S)
      BY <2>1, <2>2, FS_Subset
    <3> QED BY <2>1, <2>2, <3>1
  <2>5. Picks(Selected, root, S)
    BY <2>3, <2>4, PickedIs
  <2> QED BY <2>2, <2>5, PickedIn
<1> QED BY <1>1, <1>2, <1>4, <1>5, <1>6

LEMMA ResolveOfIt ==
  ASSUME JoinInv, cmd.kind = "analyze", Discover PROVE (FromFile /\ WrittenOfIt)'
<1>1. ResolveSession /\ pc = "start"
  BY DEF Discover, DiscoverList, DiscoverAggregate, DiscoverWatched, DiscoverWaste, ResolveSession
<1>2. CASE Refuses({UserError})
  <2>1. pc' = "done" /\ UNCHANGED <<cmd, refs, at, pairs, made, output, sidecar>>
    BY <1>1, <1>2 DEF ResolveSession, Refuses, Exits, Keep, env
  <2> QED BY <1>1, <2>1, StaysOfIt DEF JoinInv
<1>3. CASE ~Refuses({UserError})
  <2>1. /\ refs' = Selected /\ Selected # <<>> /\ pc' = "load"
        /\ UNCHANGED <<cmd, at, pairs, made, output, sidecar>>
    BY <1>1, <1>3 DEF ResolveSession, Goes, Keep, env
  <2>2. Selected \in Seq(Session)
    BY BatchAssumption, SelectedIs DEF JoinInv, IInv
  <2>3. output = <<>> /\ sidecar = <<>>
    BY <1>1 DEF JoinInv, IInv, PlaceOK
  <2>4. FromFile'
    BY <2>1, <2>2 DEF JoinInv, FromFile, OneRead
  <2>5. WrittenOfIt'
    BY <2>1, <2>3 DEF WrittenOfIt, Computed
  <2> QED BY <2>4, <2>5
<1> QED BY <1>2, <1>3

LEMMA LoadOfIt ==
  ASSUME JoinInv, cmd.kind = "analyze", LoadWhole PROVE (FromFile /\ WrittenOfIt)'
<1>1. /\ pc = "load" /\ at <= Len(refs) /\ at' = at + 1 /\ pc' \in {"cache", "done"}
      /\ UNCHANGED <<cmd, refs, made, output, sidecar>>
      /\ pairs' = Append(pairs, LoadAndAnalyze(refs[at])) \/ UNCHANGED pairs
  BY DEF LoadWhole, Goes, Exits, env
<1>2. output = <<>> /\ sidecar = <<>>
  BY <1>1 DEF JoinInv, IInv, PlaceOK
<1>3. refs \in Seq(Session) /\ refs # <<>> /\ at \in Nat \ {0}
  BY <1>1 DEF JoinInv, FromFile
<1>4. OneRead(LoadAndAnalyze(refs[at]))
  <2> DEFINE s == refs[at]
             e == Contents(s)
  <2>1. s \in Session
    BY <1>1, <1>3
  <2>2. IsSession(e)
    BY <2>1, ContentAssumption DEF JoinInv, VersionsOK, Contents
  <2>3. LoadAndAnalyze(s) = [report |-> ReportFrom(s, e), episodes |-> e]
    BY DEF LoadAndAnalyze, ReportOf
  <2> HIDE DEF s, e
  <2>4. OneRead(LoadAndAnalyze(s))
    BY <2>1, <2>2, <2>3 DEF OneRead
  <2> QED BY <2>4 DEF s
<1>5. pairs' # <<>> => OneRead(pairs'[1])
  <2>1. CASE UNCHANGED pairs
    BY <2>1 DEF JoinInv, FromFile
  <2>2. CASE pairs' = Append(pairs, LoadAndAnalyze(refs[at]))
    <3>1. pairs # <<>> => pairs'[1] = pairs[1]
      BY <2>2, PairsGrow DEF JoinInv
    <3>2. pairs = <<>> => pairs'[1] = LoadAndAnalyze(refs[at])
      BY <2>2
    <3> QED BY <1>4, <3>1, <3>2 DEF JoinInv, FromFile
  <2> QED BY <1>1, <2>1, <2>2
<1>6. FromFile'
  BY <1>1, <1>3, <1>5 DEF FromFile, OneRead
<1>7. WrittenOfIt'
  BY <1>1, <1>2 DEF WrittenOfIt, Computed
<1> QED BY <1>6, <1>7

LEMMA ComputeOfIt ==
  ASSUME JoinInv, cmd.kind = "analyze", Compute PROVE (FromFile /\ WrittenOfIt)'
<1>1. pc = "load" /\ UNCHANGED <<cmd, refs, at, pairs, output, sidecar>>
  BY DEF Compute, env
<1>2. output = <<>> /\ sidecar = <<>> /\ refs \in Seq(Session) /\ refs # <<>>
  BY <1>1 DEF JoinInv, IInv, PlaceOK, FromFile
<1>3. FromFile'
  BY <1>1, <1>2 DEF JoinInv, FromFile, OneRead
<1>4. CASE pc' = "done"
  BY <1>1, <1>2, <1>3, <1>4 DEF WrittenOfIt, Computed
<1>5. CASE pc' # "done"
  <2>1. /\ pairs # <<>>
        /\ made' = [ report |-> pairs[1].report, episodes |-> pairs[1].episodes,
                     waste |-> IF cmd.waste THEN Wastes[1] ELSE None ]
    BY <1>2, <1>5 DEF Compute, Exits
  <2>2. Wastes[1] = WasteOf(pairs[1].report)
    <3>1. 1 \in DOMAIN pairs
      BY <2>1 DEF JoinInv, IInv
    <3> QED BY <3>1 DEF Wastes
  <2>3. \A r : WasteOf(r)' = WasteOf(r)
    BY <1>1 DEF WasteOf, Described
  <2>4. MadeOfIt'
    BY <1>1, <2>1, <2>2, <2>3 DEF MadeOfIt
  <2> QED BY <1>1, <1>2, <1>3, <2>4 DEF WrittenOfIt
<1> QED BY <1>4, <1>5

LEMMA EndOfIt ==
  ASSUME JoinInv, cmd.kind = "analyze", Tui \/ Write \/ WriteMap PROVE (FromFile /\ WrittenOfIt)'
<1>1. /\ pc \in {"tui", "write", "map"} /\ UNCHANGED <<cmd, refs, at, pairs, made>>
      /\ pc' \in {"map", "done"}
  BY DEF Tui, Write, WriteMap, Exits, Goes, env
<1>2. FromFile'
  BY <1>1 DEF JoinInv, FromFile, OneRead
<1>3. MadeOfIt'
  <2>1. MadeOfIt
    BY <1>1 DEF JoinInv, WrittenOfIt, Computed
  <2> QED BY <1>1, <2>1, OfMade DEF MadeOfIt
<1>4. CASE Tui
  <2>1. cmd.tui /\ sidecar = <<>> /\ UNCHANGED sidecar
    BY <1>4 DEF Tui, JoinInv, IInv, PlaceOK
  <2>2. WrittenOfIt'
    BY <1>1, <1>3, <2>1 DEF WrittenOfIt
  <2> QED BY <1>2, <2>2
<1>5. CASE Write
  <2>1. ~cmd.tui /\ output = <<>> /\ sidecar = <<>> /\ UNCHANGED sidecar
        /\ (output' = <<Redacted>> \/ UNCHANGED output)
    BY <1>5 DEF Write, JoinInv, IInv, PlaceOK
  <2>2. WrittenOfIt'
    BY <1>1, <1>3, <2>1, OfMade DEF WrittenOfIt
  <2> QED BY <1>2, <2>2
<1>6. CASE WriteMap
  <2>1. ~cmd.tui /\ output # <<>> /\ sidecar = <<>> /\ UNCHANGED output /\ output = <<Redacted>>
        /\ \/ MapOwed /\ sidecar' = <<RedactionMap>>
           \/ UNCHANGED sidecar
    BY <1>6 DEF WriteMap, JoinInv, IInv, PlaceOK, WrittenOfIt
  <2>2. WrittenOfIt'
    BY <1>1, <1>3, <2>1, OfMade DEF WrittenOfIt
  <2> QED BY <1>2, <2>2
<1> QED BY <1>4, <1>5, <1>6

LEMMA JoinInit == Init => JoinInv
<1> SUFFICES ASSUME Init PROVE JoinInv
  OBVIOUS
<1>1. \A s \in Session : version[s] = 1 /\ 1 \in DOMAIN Content[s]
  BY ContentAssumption DEF Init, IsList
<1>2. FromFile
  BY DEF Init, FromFile
<1>3. WrittenOfIt
  BY DEF Init, WrittenOfIt, Computed
<1> QED BY <1>1, <1>2, <1>3, InitOK DEF Init, JoinInv, VersionsOK

LEMMA VersionsStay ==
  ASSUME JoinInv, [Next]_vars PROVE (DOMAIN version = Session /\ VersionsOK)'
<1>1. CASE UNCHANGED version
  BY <1>1 DEF JoinInv, VersionsOK
<1>2. ASSUME NEW s \in Session, Grow(s) PROVE (DOMAIN version = Session /\ VersionsOK)'
  <2>1. version' = [version EXCEPT ![s] = @ + 1] /\ version[s] < Len(Content[s])
    BY <1>2 DEF Grow
  <2>2. version[s] \in DOMAIN Content[s] /\ DOMAIN version = Session
    BY DEF JoinInv, VersionsOK
  <2>3. Content[s] \in Seq(ToSet(Content[s]))
    BY ContentAssumption DEF IsList
  <2> DEFINE c == Content[s]
             T == ToSet(c)
  <2>4. version[s] + 1 \in DOMAIN c
    <3>1. c \in Seq(T) /\ version[s] \in DOMAIN c /\ version[s] < Len(c)
      BY <2>1, <2>2, <2>3
    <3> HIDE DEF c, T
    <3> QED BY <3>1
  <2> QED BY <2>1, <2>2, <2>4 DEF JoinInv, VersionsOK
<1>3. CASE Discover \/ LoadReport \/ LoadEpisodes \/ LoadWhole \/ WriteThrough
  BY <1>1, <1>3 DEF Discover, DiscoverList, DiscoverAggregate, DiscoverWatched, DiscoverWaste,
       ResolveSession, Keep, LoadReport, LoadEpisodes, LoadWhole, WriteThrough
<1>4. CASE Compute \/ Tui \/ Write \/ WriteMap
  BY <1>1, <1>4 DEF Compute, Tui, Write, WriteMap
<1> QED BY <1>1, <1>2, <1>3, <1>4 DEF Next, vars

LEMMA JoinStep == JoinInv /\ [Next]_vars => JoinInv'
<1> SUFFICES ASSUME JoinInv, [Next]_vars PROVE JoinInv'
  OBVIOUS
<1>1. IInv' /\ (DOMAIN version = Session /\ VersionsOK)'
  BY StepInv, VersionsStay DEF JoinInv
<1>2. ASSUME cmd'.kind = "analyze" PROVE (FromFile /\ WrittenOfIt)'
  <2>1. UNCHANGED cmd
    BY DEF Next, vars, Discover, DiscoverList, DiscoverAggregate, DiscoverWatched, DiscoverWaste,
         ResolveSession, Keep, LoadReport, LoadEpisodes, LoadWhole, WriteThrough, Compute, Tui,
         Write, WriteMap, Grow, env
  <2>2. cmd.kind = "analyze" /\ FromFile /\ WrittenOfIt
    BY <1>2, <2>1 DEF JoinInv
  <2>3. CASE Discover \/ LoadWhole \/ Compute \/ Tui \/ Write \/ WriteMap
    BY <2>2, <2>3, ResolveOfIt, LoadOfIt, ComputeOfIt, EndOfIt
  <2>4. CASE LoadReport \/ LoadEpisodes
    BY <2>2, <2>4 DEF LoadReport, LoadEpisodes, JoinInv, IInv, PlaceOK
  <2>5. CASE WriteThrough \/ \E s \in Session : Grow(s)
    <3>1. /\ pc # "done" /\ UNCHANGED <<refs, at, pairs, made, output, sidecar>>
          /\ (pc' = pc \/ (pc = "cache" /\ pc' = "load"))
      BY <2>5 DEF WriteThrough, Goes, Grow
    <3> QED BY <2>1, <2>2, <3>1, StaysOfIt
  <2>6. CASE UNCHANGED vars
    <3>1. UNCHANGED <<pc, refs, at, pairs, made, output, sidecar>>
      BY <2>6 DEF vars
    <3>2. (Computed' <=> Computed) /\ (MadeOfIt => MadeOfIt')
      BY <2>1, <3>1, OfMade DEF Computed, MadeOfIt
    <3>3. FromFile'
      BY <2>2, <3>1 DEF FromFile, OneRead
    <3>4. WrittenOfIt'
      BY <2>1, <2>2, <3>1, <3>2, OfMade DEF WrittenOfIt
    <3> QED BY <3>3, <3>4
  <2> QED BY <2>3, <2>4, <2>5, <2>6 DEF Next
<1> QED BY <1>1, <1>2 DEF JoinInv

(* RedactionJoins: nothing raw is left, the parts still fit together and   *)
(* the map leads back, whatever the sessions and the command.              *)
THEOREM RedactionStaysJoined == Spec => []RedactionJoins
<1>1. Spec => []JoinInv
  BY JoinInit, JoinStep, PTL DEF Spec
<1> QED BY <1>1, Joined, PTL
=============================================================================
