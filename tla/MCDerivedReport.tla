--------------------------- MODULE MCDerivedReport --------------------------
(* Every short session, and the report made of it: some kinds of events    *)
(* under clocks that go back, or every kind under one that stands still.   *)
(* Of the sessions that start after their first event, those of MaxReported*)
(* events are left out.                                                    *)
EXTENDS DerivedReport, TLC

CONSTANTS t, idA, plan

AllKinds == {"TurnStart", "TurnEnd", "ToolStart", "ToolComplete", "UserRequested", "HookStart",
             "HookEnd", "SkillInvoked", "ModeChanged", "ModelChange", "AssistantMessage", "Shutdown",
             "Abort", "Other"}
NameOrder == <<OrphanName, t, Interactive, plan, None>>
InOrder(a, b) == \E i, j \in DOMAIN NameOrder : i < j /\ NameOrder[i] = a /\ NameOrder[j] = b

Timed == {"TurnStart", "TurnEnd", "ToolStart", "ToolComplete", "SkillInvoked", "HookStart",
          "ModeChanged", "ModelChange"}
Untimed == AllKinds \ {"ModeChanged", "ModelChange"}
\* The longest sessions have none of these.
Quiet == {"AssistantMessage", "Shutdown", "Other", "HookStart", "HookEnd"}

VARIABLE still
SessionsInit == /\ Init
                /\ still \in BOOLEAN /\ (still => segments[1].from = 1)
                /\ declared = IF still THEN CallId ELSE {}
SessionsNext ==
  /\ Next /\ UNCHANGED still
  /\ still => ToSet(seen') \subseteq Untimed /\ clock' \in {1, None}
  /\ still /\ Len(seen') > MaxReported => ToSet(seen') \cap Quiet = {}
  /\ ~still => /\ ToSet(seen') \subseteq Timed
               /\ Len(seen') <= IF segments[1].from = 1 THEN MaxReported ELSE MaxReported - 1
               /\ \A k \in DOMAIN openTools' : openTools'[k].id = None
SessionsSpec == SessionsInit /\ [][SessionsNext]_<<vars, still>>
=============================================================================
