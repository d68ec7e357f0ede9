--------------------------- MODULE MCSessionStore ---------------------------
(* Small instances of the session store for TLC: one session that started  *)
(* within the window and one that started before it.                       *)
EXTENDS SessionStore, TLC

CONSTANTS recent, old, p, q

Symmetry == Permutations(Writer)

(* Two sessions and one command that writes, or one session and as many    *)
(* commands as the bound allows.                                           *)
VARIABLE two
StoreInit == Init /\ two = (file[old] # 0)
StoreNext == Next /\ UNCHANGED two /\ (two => started' <= 1)
StoreSpec == StoreInit /\ [][StoreNext]_<<vars, two>>
=============================================================================
