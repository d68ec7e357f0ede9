---------------------------- MODULE MCRouterRest ----------------------------
(* One worker over three sessions, and with the sweeper one event for each *)
(* session.                                                                *)
EXTENDS MCOtlpRouter, RouterRest

MCFew == {e \in Event : e.n = 1}
=============================================================================
