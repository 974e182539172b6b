---------------------------- MODULE MC_AdminScope ----------------------------
(* Scope names of up to two characters over {"a", "d"}, the admin scope    *)
(* being "ad", and tokens with up to two scopes.                           *)
EXTENDS AdminScope

MCChars == {"a", "d"}
MCAdminScope == <<"a", "d">>
=============================================================================
