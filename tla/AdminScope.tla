----------------------------- MODULE AdminScope -----------------------------
(***************************************************************************)
(* The admin derivation of the Identity Decoder (src/jetstream/auth.go,    *)
(* GetUAAUser): the decoded scope list of a console UAA token decides      *)
(* whether its user is a platform admin, which gates system-shared         *)
(* connects and disconnects.  The state is the scope list of one decoded   *)
(* token; every list over a small alphabet, up to a bounded size, is an   *)
(* initial state, and the decision is evaluated on each.                   *)
(***************************************************************************)
EXTENDS JetstreamStrings

CONSTANTS
    Chars,        \* characters a scope name is made of
    AdminScope,   \* ConsoleConfig.ConsoleAdminScope, as a string
    MaxScopes,    \* bound on the number of scopes in a token
    MaxScopeLen   \* bound on the length of one scope name

VARIABLE scopes   \* userTokenInfo.Scope of the decoded token

ScopeLists == SeqOf(SeqOf(Chars, MaxScopeLen) \ {<<>>}, MaxScopes)

TypeOK == scopes \in ScopeLists

Init == scopes \in ScopeLists

\* The decision is a function of the token: nothing changes.
Decode == UNCHANGED scopes

Spec == Init /\ [][Decode]_scopes

(* Spec section 4.2: "admin-ness is derived by checking whether a          *)
(* configured admin-scope string appears in the decoded scope list".       *)
(* GetUAAUser grants admin exactly when one of the token's scopes is the   *)
(* admin scope.                                                            *)
AdminIffScopeListed ==
    ScopeAdmin(scopes, AdminScope) <=> Contains(scopes, AdminScope)

=============================================================================
