--------------------------- MODULE MCCopilotAdapter ---------------------------
(***************************************************************************)
(* A small instance of CopilotAdapter: two session directories, one of     *)
(* them perhaps a copy, and a writer that appends user messages; torn      *)
(* lines and what a crash glues together are the lines that are no events. *)
(***************************************************************************)
EXTENDS CopilotAdapter, TLC

Ev(type, lacks, announces) ==
  [text |-> "event", open |-> FALSE, type |-> type, lacks |-> lacks, announces |-> announces]
Messages == {Ev("UserMessage", {"source"}, {"mcp__a", "bash"})}
Symmetry == Permutations(Dir)
=============================================================================
