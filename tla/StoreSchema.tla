----------------------------- MODULE StoreSchema -----------------------------
(***************************************************************************)
(* Opening the SQLite store: Db::open_and_migrate (agentprof-storage,      *)
(* db.rs).  Every command that uses the store opens it this way, and       *)
(* several processes may do so at once on a file that none has made yet.   *)
(*                                                                         *)
(* rusqlite_migration reads user_version, then runs the missing migrations *)
(* and sets user_version in one transaction.                               *)
(***************************************************************************)
EXTENDS Naturals

CONSTANTS
  Opener,      \* the processes that open the store
  OpenFails    \* whether a directory, the file or a pragma may fail

ASSUME OpenFailsAssumption == OpenFails \in BOOLEAN

VARIABLES
  schema,      \* what is in the file: user_version and the migrations' effects
  opening      \* opener -> how far it is, and the version it read

storeVars == <<schema, opening>>

Absent == [exists |-> FALSE, version |-> 0, made |-> {}]

(* 001_initial makes the tables, 002_episodes_column adds a column to one. *)
Migration == <<"tables", "episodes_json">>
Latest == 2
Applies(n, made) == Migration[n] \notin made /\ (n > 1 => "tables" \in made)

Closed == [at |-> "closed", from |-> 0]
At(o, where) == opening' = [opening EXCEPT ![o] = [at |-> where, from |-> 0]]

Schemas == {Absent} \cup {[exists |-> TRUE, version |-> n, made |-> {Migration[i] : i \in 1..n}] : n \in 0..Latest}
Newer == [exists |-> TRUE, version |-> Latest + 1, made |-> {"tables", "episodes_json", "later"}]

StoreInit ==
  /\ schema \in Schemas \cup {Newer}
  /\ opening = [o \in Opener |-> Closed]

(* create_dir_all, Connection::open, apply_pragmas: an empty file is made. *)
Connect(o) ==
  /\ opening[o].at = "closed"
  /\ \/ schema' = [schema EXCEPT !.exists = TRUE] /\ At(o, "connected")
     \/ OpenFails /\ At(o, "failed") /\ UNCHANGED schema

(* to_latest: a store from a later release is refused.                     *)
ReadVersion(o) ==
  /\ opening[o].at = "connected"
  /\ IF schema.version > Latest THEN At(o, "failed")
     ELSE IF schema.version = Latest THEN At(o, "open")
     ELSE opening' = [opening EXCEPT ![o] = [at |-> "migrating", from |-> schema.version]]
  /\ UNCHANGED schema

WrongMigrate(o) ==
  LET v == opening[o].from + 1 IN
  /\ opening[o].at = "migrating"
  /\ IF v > Latest THEN At(o, "open") /\ UNCHANGED schema
     ELSE IF Applies(v, schema.made)
     THEN /\ schema' = [schema EXCEPT !.made = @ \cup {Migration[v]}]
          /\ opening' = [opening EXCEPT ![o].from = v]
     ELSE At(o, "failed") /\ UNCHANGED schema

(* The transaction: a statement that fails rolls all of it back.           *)
Migrate(o) ==
  LET v == opening[o].from + 1 IN
  /\ opening[o].at = "migrating"
  /\ IF Applies(v, schema.made)
     THEN /\ schema' = [schema EXCEPT !.version = Latest, !.made = @ \cup {Migration[n] : n \in v..Latest}]
          /\ At(o, "open")
     ELSE At(o, "failed") /\ UNCHANGED schema

Open(o) == Connect(o) \/ ReadVersion(o) \/ Migrate(o)
StoreSpec == StoreInit /\ [][\E o \in Opener : Open(o)]_storeVars

-----------------------------------------------------------------------------
(* At every moment the store is as some release left it: its version says  *)
(* which tables and columns it has, and a process whose open succeeded     *)
(* works on the latest.  Two processes that migrate at once (db.rs:213)    *)
(* leave no half and do no step twice.                                     *)
SchemaIsWhole ==
  /\ schema \in Schemas \cup {Newer}
  /\ \A o \in Opener : opening[o].at = "open" => schema.version = Latest
=============================================================================
