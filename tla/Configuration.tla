---------------------------- MODULE Configuration ----------------------------
(***************************************************************************)
(* The configuration file, the `config` commands that make, edit and show  *)
(* it, and the settings that other commands take from it (agentprof-cli,   *)
(* config.rs, cmd/config.rs, cmd/serve/mod.rs; agentprof-storage,          *)
(* config.rs).  Each command is a process: between its look at the file    *)
(* and its write, another one may have written.                            *)
(***************************************************************************)
EXTENDS Integers

CONSTANTS
  Terminal,      \* where config commands are run
  Edits,         \* the settings a user may leave in the file
  Files,         \* what the file may be at first
  None, NoFile, Unreadable, Malformed,
  Addresses,     \* the bind texts that parse as an address
  DefaultPath    \* mode -> where the store is by default

VARIABLES
  conf,          \* the file: NoFile, Unreadable, Malformed or its settings
  user,          \* terminal -> what runs there and how far it is
  printed        \* what `config show` last printed, and of which file

configVars == <<conf, user, printed>>

Template == [mode |-> "cache", path |-> None, bind |-> None, interval |-> None, auto_open |-> None]
NoSettings == [Template EXCEPT !.mode = None]

Or(setting, default) == IF setting = None THEN default ELSE setting

(* resolve_config_path, read_to_string, parse_toml: unknown keys and       *)
(* values of the wrong type make the whole file malformed.                 *)
Parsed == IF conf = NoFile THEN NoSettings ELSE conf
Parses == conf \notin {Unreadable, Malformed}

(* StorageConfig::from_partial and resolve_storage_config                  *)
StorePath(settings, cli) ==
  Or(cli, Or(settings.path, DefaultPath[Or(settings.mode, "cache")]))

(* load_partial_serve_from_disk: a file that cannot be read or parsed is   *)
(* ignored, the whole of it.                                               *)
ServeSettings == IF Parses THEN Parsed ELSE NoSettings

(* resolve_serve_config: the command line, then the file, then a default.  *)
DefaultBind == "127.0.0.1:4329"
ServeConfig(cli, saved) ==
  [ bind |-> Or(cli.bind, Or(saved.bind, DefaultBind)),
    interval |-> Or(cli.interval, Or(saved.interval, 5)),
    auto_open |-> IF cli.no_open THEN FALSE ELSE Or(saved.auto_open, TRUE) ]

(* A bind of the command line was parsed by clap.                          *)
ServeRefuses(cli, saved) ==
  \/ cli.bind = None /\ saved.bind # None /\ saved.bind \notin Addresses
  \/ ServeConfig(cli, saved).interval \notin 1..60

NoCommand == [runs |-> "none", force |-> FALSE, at |-> "done"]
ConfigInit ==
  /\ conf \in Files
  /\ user = [t \in Terminal |-> NoCommand]
  /\ printed = None

(* run_init: it looks, then it writes.                                     *)
StartInit(t) ==
  /\ user[t].at = "done"
  /\ \E force \in BOOLEAN :
       user' = [user EXCEPT ![t] = [runs |-> "init", force |-> force,
                                    at |-> IF conf = NoFile \/ force THEN "write" ELSE "done"]]
  /\ UNCHANGED <<conf, printed>>

(* run_edit: the template is written before an editor opens.               *)
StartEdit(t) ==
  /\ user[t].at = "done"
  /\ user' = [user EXCEPT ![t] = [runs |-> "edit", force |-> FALSE,
                                  at |-> IF conf = NoFile THEN "write" ELSE "editor"]]
  /\ UNCHANGED <<conf, printed>>

(* write_template; the directory or the file may not be writable.          *)
WriteTemplate(t) ==
  /\ user[t].at = "write"
  /\ \/ /\ conf # Unreadable
        /\ conf' = Template
        /\ user' = [user EXCEPT ![t].at = IF user[t].runs = "edit" THEN "editor" ELSE "done"]
     \/ user' = [user EXCEPT ![t].at = "done"] /\ UNCHANGED conf
  /\ UNCHANGED printed

(* The editor is left with some text saved, or with none, or fails.        *)
EditorSaves(t) ==
  /\ user[t].at = "editor"
  /\ conf' \in Edits \cup {Malformed, conf}
  /\ user' = [user EXCEPT ![t].at = "done"]
  /\ UNCHANGED printed

(* render_serve has defaults of its own, as no resolver takes the file     *)
(* alone; an interval out of range is shown all the same.                  *)
ServeShown(file) ==
  [ bind |-> Or(file.bind, DefaultBind), interval |-> Or(file.interval, 5), auto_open |-> Or(file.auto_open, TRUE) ]

(* run_show, render_storage: nothing of a file that cannot be read.        *)
Show ==
  /\ Parses
  /\ printed' = [file |-> conf, path |-> StorePath(Parsed, None), serve |-> ServeShown(Parsed)]
  /\ UNCHANGED <<conf, user>>

WritesConfig(t) == StartInit(t) \/ StartEdit(t) \/ WriteTemplate(t) \/ EditorSaves(t)
ConfigNext == (\E t \in Terminal : WritesConfig(t)) \/ Show
=============================================================================
