------------------------- MODULE MC_ConsoleSession --------------------------
(* Model-checking instance of ConsoleSession: two users, two browser       *)
(* sessions, tokens that live two clock ticks and a clock that runs long   *)
(* enough for a login's session to expire and be refreshed.                *)
EXTENDS ConsoleSession
=============================================================================
