--------------------------- MODULE SessionService ---------------------------
(***************************************************************************)
(* What the Session Manager promises (spec sections 3 and 4.3), with every *)
(* operation atomic: a login binds a session to a user and stores the      *)
(* user's token in one step; a verify of an expired session refreshes the  *)
(* token and moves the session's expiry with it in one step; a token       *)
(* refresh only renews the token, and a password grant may store a new     *)
(* one; a logout empties the session; the XSRF token of a session is set   *)
(* once.  A token's expiry never moves backwards and never lies more than  *)
(* TTL ahead of the clock.                                                 *)
(***************************************************************************)
EXTENDS Naturals

CONSTANTS Users, Sessions, None, TTL, MaxTime, XsrfTokens

VARIABLES
    now,      \* the clock
    token,    \* token[u]: expiry of user u's stored UAA token, or None
    session   \* session[s]: user, expiry and XSRF token bound to session s

vars == <<now, token, session>>

Expiry == 0..(MaxTime + TTL)

Unbound == [user |-> None, exp |-> None, xsrf |-> None]

\* The expiries a token of u may be renewed to at this instant.
Fresh(u) == {e \in Expiry : e <= now + TTL /\ (token[u] # None => token[u] <= e)}

Init ==
    /\ now = 0
    /\ token = [u \in Users |-> None]
    /\ session = [s \in Sessions |-> Unbound]

Tick ==
    /\ now < MaxTime
    /\ now' = now + 1
    /\ UNCHANGED <<token, session>>

Login(s, u) ==
    \E e \in Fresh(u) :
        /\ token' = [token EXCEPT ![u] = e]
        /\ session' = [session EXCEPT ![s] = [user |-> u, exp |-> e, xsrf |-> None]]
        /\ UNCHANGED now

Refresh(s) ==
    LET u == session[s].user IN
    /\ u # None /\ token[u] # None /\ session[s].exp # None
    /\ now > session[s].exp
    /\ \E e \in Fresh(u) :
          /\ token' = [token EXCEPT ![u] = e]
          /\ session' = [session EXCEPT ![s].exp = e]
    /\ UNCHANGED now

\* A password grant stores a fresh token for u, with or without one before.
StoreToken(u) ==
    /\ \E e \in Fresh(u) : token' = [token EXCEPT ![u] = e]
    /\ UNCHANGED <<now, session>>

RefreshToken(u) == token[u] # None /\ StoreToken(u)

SetXsrf(s) ==
    /\ session[s].user # None /\ session[s].xsrf = None
    /\ \E x \in XsrfTokens : session' = [session EXCEPT ![s].xsrf = x]
    /\ UNCHANGED <<now, token>>

Logout(s) ==
    /\ session[s] # Unbound
    /\ session' = [session EXCEPT ![s] = Unbound]
    /\ UNCHANGED <<now, token>>

Next ==
    \/ Tick
    \/ \E s \in Sessions, u \in Users : Login(s, u)
    \/ \E s \in Sessions : Refresh(s) \/ SetXsrf(s) \/ Logout(s)
    \/ \E u \in Users : RefreshToken(u) \/ StoreToken(u)

Spec == Init /\ [][Next]_vars

=============================================================================
