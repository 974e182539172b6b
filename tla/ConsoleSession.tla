--------------------------- MODULE ConsoleSession ---------------------------
(***************************************************************************)
(* The Session Manager of jetstream (src/jetstream/auth.go): console login *)
(* (doLoginToUAA, called by loginToUAA and by the SSO callback             *)
(* ssoLoginToUAA), session verification with silent refresh                *)
(* (verifySession), the UAA token refresh used by the proxy                *)
(* (RefreshUAAToken), logout, and the XSRF token (ensureXSRFToken).        *)
(*                                                                         *)
(* Shared state: the session store (a per-key session of each browser) and *)
(* the tokens table holding one UAA token record per user GUID, shared by  *)
(* every session of that user.  Each request runs in its own goroutine and *)
(* is split into a step per access to the identity provider, the tokens    *)
(* table or the session store, in the order the handler makes them.  A     *)
(* login writes a new session, whose cookie the browser receives with the  *)
(* login's response; every other request carries a cookie it already has.  *)
(***************************************************************************)
EXTENDS Naturals

CONSTANTS
    Users,        \* console user GUIDs
    Sessions,     \* browser session slots (one cookie each)
    Requests,     \* concurrently served HTTP requests
    None,         \* an absent session value or token record
    TTL,          \* lifetime of a UAA access token
    MaxTime,      \* bound on the clock
    XsrfTokens,   \* values a freshly generated XSRF token may take
    StoreFaults   \* may a tokens-table write fail?

ASSUME TTL \in Nat \ {0} /\ MaxTime \in Nat /\ None \notin XsrfTokens
ASSUME StoreFaults \in BOOLEAN

VARIABLES
    now,     \* the server clock (seconds, abstracted)
    uaa,     \* uaa[u]: expiry of the UAA token record of user u, or None
    sess,    \* sess[s]: the values user_id, exp and xsrf_token of session s
    req,     \* req[r]: the progress of request r through its handler
    cookie   \* the sessions whose cookie a browser holds

vars == <<now, uaa, sess, req, cookie>>

Expiry == 0..(MaxTime + TTL)

NoSession == [user |-> None, exp |-> None, xsrf |-> None]

Idle == [pc |-> "idle", op |-> "none", sess |-> None, user |-> None,
         exp |-> None]

PCs == {"idle", "grant", "setsess", "save", "refresh", "vsave", "vsess",
        "rread", "rrefresh", "rsave", "xread", "xwrite"}

TypeOK ==
    /\ now \in 0..MaxTime
    /\ uaa \in [Users -> Expiry \cup {None}]
    /\ sess \in [Sessions -> [user: Users \cup {None},
                              exp: Expiry \cup {None},
                              xsrf: XsrfTokens \cup {None}]]
    /\ req \in [Requests -> [pc: PCs,
                             op: {"none", "login", "ssoLogin", "verify",
                                  "refreshUAA", "refreshLogin"},
                             sess: Sessions \cup {None},
                             user: Users \cup {None},
                             exp: Expiry \cup {None}]]
    /\ cookie \subseteq Sessions

Init ==
    /\ now = 0
    /\ uaa = [u \in Users |-> None]
    /\ sess = [s \in Sessions |-> NoSession]
    /\ req = [r \in Requests |-> Idle]
    /\ cookie = {}

(* The request returns, with or without an error, after writing or         *)
(* renewing its session: the response carries that session's cookie.      *)
Done(r) ==
    /\ req' = [req EXCEPT ![r] = Idle]
    /\ cookie' = cookie \cup ({req[r].sess} \ {None})

\* GetUAATokenRecord(userGUID): FindAuthToken; a missing row is an error.
GetUAATokenRecord(u) == uaa[u]

\* setUAATokenRecord(key, t): SaveAuthToken upserts the row of key.
setUAATokenRecord(u, exp) == uaa' = [uaa EXCEPT ![u] = exp]

(* saveAuthToken(u, token, refresh): the UAA token record of u, keyed by  *)
(* the user GUID alone, is overwritten with the new token and its expiry.  *)
SaveAuthToken(u, exp) == setUAATokenRecord(u, exp)

(* getUAAToken: a POST to the UAA token endpoint.  A transport error, an  *)
(* answer other than 200 or an undecodable body is an error, which every   *)
(* caller returns before writing anything (the failing disjunct of each    *)
(* grant step); otherwise the token was issued now and expires TTL later.  *)
getUAAToken == now + TTL

\* getUAATokenWithCreds: the password grant.
getUAATokenWithCreds == getUAAToken

\* getUAATokenWithRefreshToken: the refresh-token grant.
getUAATokenWithRefreshToken == getUAAToken

\* time.Now() advances.
Tick ==
    /\ now < MaxTime
    /\ now' = now + 1
    /\ UNCHANGED <<uaa, sess, req, cookie>>

(* The request returns a response without a Set-Cookie header: it failed  *)
(* before writing the session, or touches no session.                      *)
Fail(r) == req' = [req EXCEPT ![r] = Idle] /\ UNCHANGED cookie

(***************************************************************************)
(* doLoginToUAA, called by loginToUAA (op "login") and by the SSO callback *)
(* ssoLoginToUAA (op "ssoLogin").  login(): a password or authorization-   *)
(* code grant against the UAA token endpoint, then GetUserTokenInfo; a     *)
(* failure is returned as "Access Denied".  The new token expires TTL      *)
(* after it is issued.  The emptied Cookie header makes the session that   *)
(* setSessionValues writes a new one: no browser holds its cookie and no   *)
(* other request uses it.                                                  *)
(***************************************************************************)
\* A session no browser has been given and no request is using.
NewSession(s) ==
    /\ s \notin cookie /\ sess[s] = NoSession
    /\ \A q \in Requests : req[q].sess # s

LoginGrant(r) ==
    /\ req[r].pc = "idle"
    /\ \E s \in Sessions, u \in Users, op \in {"login", "ssoLogin"} :
          /\ NewSession(s)
          /\ \/ req' = [req EXCEPT ![r] = [pc |-> "setsess", op |-> op,
                                           sess |-> s, user |-> u,
                                           exp |-> getUAAToken]]
             \/ UNCHANGED req   \* the grant fails: nothing is written
    /\ UNCHANGED <<now, uaa, sess, cookie>>

(* setSessionValues writes user_id and exp into the new session, with no   *)
(* XSRF token.  handleSessionExpiryHeader only sets a response header.     *)
LoginSetSession(r) ==
    /\ req[r].pc = "setsess"
    /\ sess' = [sess EXCEPT ![req[r].sess] =
                  [user |-> req[r].user, exp |-> req[r].exp, xsrf |-> None]]
    /\ req' = [req EXCEPT ![r].pc = "save"]
    /\ UNCHANGED <<now, uaa, cookie>>

(* saveAuthToken: the UAA token record of u is overwritten.  On an error   *)
(* the login fails, but the session values are already written.  Login     *)
(* hooks only log their errors.  loginToUAA then calls ensureXSRFToken;    *)
(* ssoLoginToUAA redirects the browser at once.  Either response carries   *)
(* the new session's cookie.                                               *)
LoginSave(r) ==
    /\ req[r].pc = "save"
    /\ \/ /\ SaveAuthToken(req[r].user, req[r].exp)
          /\ IF req[r].op = "login"
             THEN req' = [req EXCEPT ![r].pc = "xread"] /\ UNCHANGED cookie
             ELSE Done(r)
       \/ /\ StoreFaults
          /\ Done(r)
          /\ UNCHANGED uaa
    /\ UNCHANGED <<now, sess>>

(***************************************************************************)
(* verifySession, on a session whose cookie the browser holds.  Reads exp  *)
(* and user_id from the session (403 if absent) and the user's UAA token   *)
(* record (403 if absent).  If time.Now() is after exp the token is        *)
(* refreshed; otherwise setSessionValues(c, nil) only renews the cookie,   *)
(* and the handler goes on to ensureXSRFToken.                             *)
(***************************************************************************)
\* The session has exp and user_id, and GetUAATokenRecord finds the token.
SessionHasToken(s) ==
    /\ sess[s].exp # None /\ sess[s].user # None
    /\ GetUAATokenRecord(sess[s].user) # None

VerifyRead(r) ==
    /\ req[r].pc = "idle"
    /\ \E s \in cookie :
          \/ /\ ~SessionHasToken(s)
             /\ UNCHANGED req   \* 403: nothing is written
          \/ /\ SessionHasToken(s)
             /\ req' = [req EXCEPT ![r] =
                          [pc |-> IF now > sess[s].exp THEN "refresh" ELSE "xread",
                           op |-> "verify", sess |-> s, user |-> sess[s].user,
                           exp |-> sess[s].exp]]
    /\ UNCHANGED <<now, uaa, sess, cookie>>

\* getUAATokenWithRefreshToken with the stored refresh token, then
\* GetUserTokenInfo; a failure answers 403 "Could not refresh UAA token".
VerifyRefresh(r) ==
    /\ req[r].pc = "refresh"
    /\ \/ /\ req' = [req EXCEPT ![r].pc = "vsave",
                                ![r].exp = getUAATokenWithRefreshToken]
          /\ UNCHANGED cookie
       \/ Fail(r)
    /\ UNCHANGED <<now, uaa, sess>>

\* saveAuthToken with the refreshed token.
VerifySave(r) ==
    /\ req[r].pc = "vsave"
    /\ \/ /\ SaveAuthToken(req[r].user, req[r].exp)
          /\ req' = [req EXCEPT ![r].pc = "vsess"]
          /\ UNCHANGED cookie
       \/ /\ StoreFaults
          /\ Fail(r)
          /\ UNCHANGED uaa
    /\ UNCHANGED <<now, sess>>

\* Mutation: the session expiry is taken from the clock when it is written.
VerifySetSessionNowExpiry(r) ==
    /\ req[r].pc = "vsess"
    /\ sess' = [sess EXCEPT ![req[r].sess].user = req[r].user,
                            ![req[r].sess].exp = now + TTL]
    /\ req' = [req EXCEPT ![r].pc = "xread"]
    /\ UNCHANGED <<now, uaa, cookie>>

\* setSessionValues(user_id, exp): the two keys are written, others kept.
VerifySetSession(r) ==
    /\ req[r].pc = "vsess"
    /\ sess' = [sess EXCEPT ![req[r].sess].user = req[r].user,
                            ![req[r].sess].exp = req[r].exp]
    /\ req' = [req EXCEPT ![r].pc = "xread"]
    /\ UNCHANGED <<now, uaa, cookie>>

(***************************************************************************)
(* ensureXSRFToken: read xsrf_token from the session; if absent, generate  *)
(* 32 random bytes and store them.  The token is sent as a header.  The    *)
(* response of the login or verify follows.                                *)
(***************************************************************************)
\* Mutation: a new token is generated even when the session has one.
EnsureXSRFReadAlways(r) ==
    /\ req[r].pc = "xread"
    /\ req' = [req EXCEPT ![r].pc = "xwrite"]
    /\ UNCHANGED <<now, uaa, sess, cookie>>

EnsureXSRFRead(r) ==
    /\ req[r].pc = "xread"
    /\ IF sess[req[r].sess].xsrf = None
       THEN req' = [req EXCEPT ![r].pc = "xwrite"] /\ UNCHANGED cookie
       ELSE Done(r)
    /\ UNCHANGED <<now, uaa, sess>>

(* generateRandomBytes(32): a fresh token, or on a failure of the random  *)
(* source the empty string, which is stored and reads as no token.         *)
generateRandomBytes == XsrfTokens \cup {None}

EnsureXSRFWrite(r) ==
    /\ req[r].pc = "xwrite"
    /\ \E x \in generateRandomBytes : sess' = [sess EXCEPT ![req[r].sess].xsrf = x]
    /\ Done(r)
    /\ UNCHANGED <<now, uaa>>

(***************************************************************************)
(* RefreshUAAToken(userGUID): read the user's UAA token record, refresh it *)
(* at the UAA, save the new record.  No session is touched.                *)
(***************************************************************************)
RefreshRead(r) ==
    /\ req[r].pc = "idle"
    /\ \E u \in Users :
          \/ /\ GetUAATokenRecord(u) = None
             /\ UNCHANGED req
          \/ /\ GetUAATokenRecord(u) # None
             /\ req' = [req EXCEPT ![r] = [Idle EXCEPT !.pc = "rrefresh",
                                                       !.op = "refreshUAA",
                                                       !.user = u]]
    /\ UNCHANGED <<now, uaa, sess, cookie>>

RefreshGrant(r) ==
    /\ req[r].pc = "rrefresh"
    /\ \/ /\ req' = [req EXCEPT ![r].pc = "rsave",
                                ![r].exp = getUAATokenWithRefreshToken]
          /\ UNCHANGED cookie
       \/ Fail(r)
    /\ UNCHANGED <<now, uaa, sess>>

(***************************************************************************)
(* RefreshUAALogin(username, password, store): a password grant at the     *)
(* console UAA and GetUserTokenInfo, either of which may fail; only when   *)
(* store is set is the new token saved, by the same saveAuthToken step as  *)
(* RefreshUAAToken.  The user need not have a token record yet.            *)
(***************************************************************************)
RefreshLoginGrant(r) ==
    /\ req[r].pc = "idle"
    /\ \E u \in Users :
          \/ req' = [req EXCEPT ![r] = [Idle EXCEPT !.pc = "rsave",
                                                  !.op = "refreshLogin",
                                                  !.user = u,
                                                  !.exp = getUAATokenWithCreds]]
          \/ UNCHANGED req   \* the grant fails, or store is false
    /\ UNCHANGED <<now, uaa, sess, cookie>>

\* saveAuthToken for RefreshUAAToken and RefreshUAALogin; its error is returned.
RefreshSave(r) ==
    /\ req[r].pc = "rsave"
    /\ \/ SaveAuthToken(req[r].user, req[r].exp)
       \/ /\ StoreFaults
          /\ UNCHANGED uaa
    /\ Fail(r)
    /\ UNCHANGED <<now, sess>>

(***************************************************************************)
(* logout, on a session whose cookie the browser holds: unset xsrf_token,  *)
(* then clearSession.  The UAA token record is kept.  Neither session-     *)
(* store call can fail here: the session store is a collaborator whose     *)
(* failures are not modelled, and so is what clearSession does to the      *)
(* cookie, which the browser is taken to keep.                             *)
(***************************************************************************)
\* Mutation: clearSession leaves no session value at all (a nil session).
LogoutNil(r) ==
    /\ req[r].pc = "idle"
    /\ \E s \in cookie : sess' = [sess EXCEPT ![s] = None]
    /\ UNCHANGED <<now, uaa, req, cookie>>

Logout(r) ==
    /\ req[r].pc = "idle"
    /\ \E s \in cookie : sess' = [sess EXCEPT ![s] = NoSession]
    /\ UNCHANGED <<now, uaa, req, cookie>>

Next ==
    \/ Tick
    \/ \E r \in Requests :
          \/ LoginGrant(r) \/ LoginSetSession(r) \/ LoginSave(r)
          \/ VerifyRead(r) \/ VerifyRefresh(r) \/ VerifySave(r)
          \/ VerifySetSession(r)
          \/ EnsureXSRFRead(r) \/ EnsureXSRFWrite(r)
          \/ RefreshRead(r) \/ RefreshGrant(r) \/ RefreshSave(r)
          \/ RefreshLoginGrant(r)
          \/ Logout(r)

Spec == Init /\ [][Next]_vars

-----------------------------------------------------------------------------
(***************************************************************************)
(* Properties                                                              *)
(***************************************************************************)

\* Every request has returned (or is only handing out the XSRF header).
Quiescent == \A r \in Requests : req[r].pc \in {"idle", "xread", "xwrite"}

(* Spec section 3: a session's expiry is written together with the token   *)
(* it belongs to and never points past it.  Once the login, verify and     *)
(* refresh handlers have returned, no session claims a validity beyond the *)
(* expiry of its user's stored UAA token, which all sessions of that user  *)
(* share (doLoginToUAA writes session then token, verifySession token then *)
(* session, RefreshUAAToken only the token).                               *)
SessionNotBeyondToken ==
    Quiescent =>
        \A s \in Sessions :
            LET u == sess[s].user IN
            (u # None /\ uaa[u] # None) => sess[s].exp <= uaa[u]

(* Spec section 4.3: ensureXSRFToken is idempotent, so the anti-forgery    *)
(* token sent to the browser stays valid: once a session has an XSRF       *)
(* token it is never replaced by another one, only dropped by a logout.    *)
(* A session written by the SSO callback has none until a verifySession    *)
(* calls ensureXSRFToken on it.                                            *)
XsrfTokenStable ==
    [][\A s \in Sessions :
         (sess[s].xsrf # None /\ sess'[s].xsrf # sess[s].xsrf)
            => sess'[s].xsrf = None
      ]_vars

-----------------------------------------------------------------------------
(***************************************************************************)
(* Refinement of SessionService.  A login is the step that writes the      *)
(* session; its token is already counted as stored until LoginSave writes  *)
(* it.  A refreshing verify is the step that saves the token; its session  *)
(* is already counted as moved until VerifySetSession writes it.           *)
(***************************************************************************)
\* Requests of a login of u between writing the session and the token.
PendingLogin(u) == {r \in Requests : req[r].pc = "save" /\ req[r].user = u}

\* Requests of a verify of s between saving the token and the session.
PendingVerify(s) == {r \in Requests : req[r].pc = "vsess" /\ req[r].sess = s}

tokenBar ==
    [u \in Users |-> IF PendingLogin(u) = {} THEN uaa[u]
                     ELSE req[CHOOSE r \in PendingLogin(u) : TRUE].exp]

sessionBar ==
    [s \in Sessions |->
        IF PendingVerify(s) = {} THEN sess[s]
        ELSE LET r == CHOOSE r \in PendingVerify(s) : TRUE IN
             [sess[s] EXCEPT !.user = req[r].user, !.exp = req[r].exp]]

Service == INSTANCE SessionService WITH token <- tokenBar, session <- sessionBar

(* Spec sections 3 and 4.3: served one request at a time, the login,       *)
(* verify, refresh, XSRF and logout handlers implement the atomic session  *)
(* service: each handler's writes to the session store and the tokens      *)
(* table take effect together, a token's expiry never moves backwards and  *)
(* no session is bound to a user except by a login.                        *)
ImplementsSessionService == Service!Spec

=============================================================================
