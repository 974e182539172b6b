------------------------------ MODULE SSOFlow ------------------------------
(***************************************************************************)
(* The SSO Coordinator of jetstream (src/jetstream/auth.go): the redirect  *)
(* dance between browsers, the console backend and identity providers.     *)
(* initSSOlogin and ssoLogoutOfUAA send the browser to the console UAA;    *)
(* ssoLoginToCNSI sends it to an endpoint's authorization server; every    *)
(* provider sends it back to the single callback route, whose handler      *)
(* ssoLoginToUAA tells the flows apart by the query parameters guid and    *)
(* state and then exchanges the authorization code.                        *)
(*                                                                         *)
(* A URL is abstracted to a record: where it points (kind, the provider    *)
(* "at" for an authorize URL, the host for a callback) and the query       *)
(* parameters the handlers read (state, guid, code, redirect_uri).  A      *)
(* state value is the front end's own URL, abstracted to the host          *)
(* url.Parse finds in it (StateHost).  The providers are the environment:  *)
(* they issue a code for the redirect_uri they were given and send the     *)
(* browser there.  A browser may hand a URL it holds to another browser    *)
(* (a link), when Forwarding is TRUE.                                      *)
(***************************************************************************)
EXTENDS JetstreamStrings

CONSTANTS
    Browsers,        \* user agents, each with its own console session cookie
    Owner,           \* Owner[b]: the user who signs in at the providers in b
    Endpoints,       \* GUIDs of registered endpoints with SSO
    States,          \* state values a front end sends (its own URLs)
    StateHost,       \* StateHost[st]: the scheme and host url.Parse finds
    ConsoleHost,     \* the console's own host
    UAA,             \* the console's UAA, a provider like the endpoints
    Logout,          \* the literal state "logout"
    NoGuid,          \* an absent guid query parameter
    None,            \* no session user
    SSOLogin,        \* Config.SSOLogin
    SSOOptions,      \* Config.SSOOptions, a comma-separated list
    MaxCodes,        \* bound on authorization codes issued
    Forwarding       \* may a browser open a URL another browser obtained?

ASSUME Logout \notin States /\ UAA \notin Endpoints /\ NoGuid \notin Endpoints
ASSUME SSOLogin \in BOOLEAN
ASSUME Forwarding \in BOOLEAN /\ MaxCodes \in Nat

VARIABLES
    inbox,   \* inbox[b]: the URLs browser b has been redirected to
    sess,    \* sess[b]: user_id of b's console session, or None
    codes,   \* codes[c]: authorization code c as its provider issued it
    exch,    \* the code exchanges the console made: code, provider, redirect
    conn     \* <<endpoint, user>> pairs connected by an SSO callback

vars == <<inbox, sess, codes, exch, conn>>

Providers == Endpoints \cup {UAA}

\* The SSO option "logout", as a one-character option name.
LogoutOptionName == <<"L">>

(* getSSORedirectURI(base, state, endpointGUID): the callback route on the *)
(* scheme and host of base (path and query stripped), carrying state and,  *)
(* when given, the endpoint GUID.                                          *)
getSSORedirectURI(base, state, guid) ==
    [kind |-> "callback", at |-> UAA, host |-> StateHost[base],
     state |-> state, guid |-> guid, code |-> 0]

\* The console's authorize redirect to provider p with a redirect_uri.
AuthorizeURL(p, redirect) == [kind |-> "authorize", at |-> p, redirect |-> redirect]

\* The console's redirect to the UAA's logout.do with a redirect.
LogoutDoURL(redirect) == [kind |-> "logoutdo", at |-> UAA, redirect |-> redirect]

CallbackURLs ==
    [kind: {"callback"}, at: {UAA}, host: {StateHost[st] : st \in States},
     state: States \cup {Logout}, guid: Endpoints \cup {NoGuid},
     code: 0..MaxCodes]

URLs ==
    CallbackURLs \cup
    [kind: {"authorize", "logoutdo"}, at: Providers, redirect: CallbackURLs]

Code == [issuer: Providers, user: {Owner[b] : b \in Browsers},
         redirect: CallbackURLs, used: BOOLEAN]

TypeOK ==
    /\ inbox \in [Browsers -> SUBSET URLs]
    /\ sess \in [Browsers -> {Owner[b] : b \in Browsers} \cup {None}]
    /\ codes \in Seq(Code) /\ Len(codes) <= MaxCodes
    /\ exch \subseteq [code: 0..MaxCodes, at: Providers, redirect: CallbackURLs]
    /\ conn \subseteq Endpoints \X {Owner[b] : b \in Browsers}

Init ==
    /\ inbox = [b \in Browsers |-> {}]
    /\ sess = [b \in Browsers |-> None]
    /\ codes = <<>>
    /\ exch = {}
    /\ conn = {}

\* The browser follows a redirect: the URL is added to what it holds.
Visit(b, url) == inbox' = [inbox EXCEPT ![b] = @ \cup {url}]

(***************************************************************************)
(* The providers' token endpoint (environment): a code is accepted once,   *)
(* by the provider that issued it, with the redirect_uri it was issued     *)
(* for.  Every exchange the console makes is recorded in exch.             *)
(***************************************************************************)
Accepts(p, c, redirect) ==
    /\ c \in DOMAIN codes
    /\ ~codes[c].used
    /\ codes[c].issuer = p
    /\ codes[c].redirect = redirect

Redeem(p, c, redirect) ==
    /\ exch' = exch \cup {[code |-> c, at |-> p, redirect |-> redirect]}
    /\ codes' = IF Accepts(p, c, redirect)
                THEN [codes EXCEPT ![c].used = TRUE] ELSE codes

\* Mutation: the exchange's redirect_uri leaves out the endpoint GUID.
ExchangeRedirectURIDropGuid(q) == getSSORedirectURI(q.state, q.state, NoGuid)

(* getUAATokenWithAuthorizationCode: the redirect_uri of the exchange is   *)
(* rebuilt from the callback's own state and guid parameters.              *)
ExchangeRedirectURI(q) == getSSORedirectURI(q.state, q.state, q.guid)

(***************************************************************************)
(* initSSOlogin (GET /v1/auth/sso_login): 404 when SSO is off, 401 when    *)
(* state is missing, otherwise a redirect to the UAA's authorize endpoint  *)
(* with redirect_uri = getSSORedirectURI(state, state, "").                *)
(***************************************************************************)
InitSSOLogin(b) ==
    /\ SSOLogin
    /\ \E st \in States :
          Visit(b, AuthorizeURL(UAA, getSSORedirectURI(st, st, NoGuid)))
    /\ UNCHANGED <<sess, codes, exch, conn>>

(***************************************************************************)
(* ssoLogoutOfUAA (GET /v1/auth/sso_logout): with the "logout" SSO option  *)
(* a redirect to the UAA's logout.do whose redirect is the callback with   *)
(* state "logout"; without it a redirect to the login page.                *)
(***************************************************************************)
SSOLogoutOfUAA(b) ==
    /\ SSOLogin
    /\ \E st \in States :
          IF hasSSOOption(SSOOptions, LogoutOptionName)
          THEN Visit(b, LogoutDoURL(getSSORedirectURI(st, Logout, NoGuid)))
          ELSE UNCHANGED inbox
    /\ UNCHANGED <<sess, codes, exch, conn>>

\* The console's logout handler ends the browser's session.
ConsoleLogout(b) ==
    /\ sess[b] # None
    /\ sess' = [sess EXCEPT ![b] = None]
    /\ UNCHANGED <<inbox, codes, exch, conn>>

(***************************************************************************)
(* ssoLoginToCNSI (GET /auth/login/cnsi, and the callback when guid is     *)
(* set): 401 without a session user, 401 without state, 400 for an         *)
(* unregistered endpoint.  Without a code it redirects to the endpoint's   *)
(* authorize URL with redirect_uri = getSSORedirectURI(state, state,       *)
(* guid).  With a code it runs DoLoginToCNSI for the session's user, whose *)
(* plugin Connect exchanges the code at the endpoint; the browser is sent  *)
(* to /endpoints with status ok or fail.                                   *)
(***************************************************************************)
\* Mutation: the session's user_id is not checked.
SSOLoginToCNSINoSession(b, q) ==
    /\ q.guid \in Endpoints
    /\ \/ /\ q.code = 0
          /\ Visit(b, AuthorizeURL(q.guid, getSSORedirectURI(q.state, q.state, q.guid)))
          /\ UNCHANGED <<codes, exch, conn>>
       \/ /\ q.code # 0
          /\ Redeem(q.guid, q.code, ExchangeRedirectURI(q))
          /\ conn' = IF Accepts(q.guid, q.code, ExchangeRedirectURI(q))
                     THEN conn \cup {<<q.guid, sess[b]>>} ELSE conn
          /\ UNCHANGED inbox
    /\ UNCHANGED sess

SSOLoginToCNSI(b, q) ==
    /\ sess[b] # None
    /\ q.guid \in Endpoints
    /\ \/ /\ q.code = 0
          /\ Visit(b, AuthorizeURL(q.guid, getSSORedirectURI(q.state, q.state, q.guid)))
          /\ UNCHANGED <<codes, exch, conn>>
       \/ /\ q.code # 0
          /\ Redeem(q.guid, q.code, ExchangeRedirectURI(q))
          /\ conn' = IF Accepts(q.guid, q.code, ExchangeRedirectURI(q))
                     THEN conn \cup {<<q.guid, sess[b]>>} ELSE conn
          /\ UNCHANGED inbox
    /\ UNCHANGED sess

\* The front end starts an endpoint connect through SSO.
SSOConnectStart(b) ==
    \E g \in Endpoints, st \in States :
        SSOLoginToCNSI(b, [kind |-> "callback", at |-> UAA,
                           host |-> ConsoleHost, state |-> st, guid |-> g,
                           code |-> 0])

(***************************************************************************)
(* ssoLoginToUAA (GET /v1/auth/sso_login_callback): 401 without state;     *)
(* guid set: ssoLoginToCNSI; state "logout": redirect to the login page;   *)
(* otherwise doLoginToUAA, whose login() exchanges the code at the UAA     *)
(* and on success binds the session to the code's user, then a redirect   *)
(* to state (with an SSO_Message on failure).                              *)
(***************************************************************************)
SSOLoginToUAA(b, q) ==
    \/ /\ q.guid # NoGuid
       /\ SSOLoginToCNSI(b, q)
    \/ /\ q.guid = NoGuid
       /\ q.state = Logout
       /\ UNCHANGED vars
    \/ /\ q.guid = NoGuid
       /\ q.state # Logout
       /\ Redeem(UAA, q.code, ExchangeRedirectURI(q))
       /\ sess' = IF Accepts(UAA, q.code, ExchangeRedirectURI(q))
                  THEN [sess EXCEPT ![b] = codes[q.code].user] ELSE sess
       /\ UNCHANGED <<inbox, conn>>

\* A browser opens a callback URL it holds on the console's host.
Callback(b) ==
    \E q \in inbox[b] :
        /\ q.kind = "callback"
        /\ q.host = ConsoleHost
        /\ SSOLoginToUAA(b, q)

(***************************************************************************)
(* The providers (environment).  authorize: the browser's owner signs in,  *)
(* a code is issued for the given redirect_uri and the browser is sent     *)
(* there with the code.  logout.do: the browser is sent to the redirect.   *)
(***************************************************************************)
ProviderAuthorize(b) ==
    /\ Len(codes) < MaxCodes
    /\ \E a \in inbox[b] :
          /\ a.kind = "authorize"
          /\ codes' = Append(codes, [issuer |-> a.at, user |-> Owner[b],
                                     redirect |-> a.redirect, used |-> FALSE])
          /\ Visit(b, [a.redirect EXCEPT !.code = Len(codes) + 1])
    /\ UNCHANGED <<sess, exch, conn>>

ProviderLogout(b) ==
    /\ \E a \in inbox[b] : a.kind = "logoutdo" /\ Visit(b, a.redirect)
    /\ UNCHANGED <<sess, codes, exch, conn>>

\* A link: browser b2 opens a callback URL browser b obtained.
Forward(b, b2) ==
    /\ Forwarding
    /\ b # b2
    /\ \E q \in inbox[b] : q.kind = "callback" /\ Visit(b2, q)
    /\ UNCHANGED <<sess, codes, exch, conn>>

Next ==
    \E b \in Browsers :
        \/ InitSSOLogin(b)
        \/ SSOLogoutOfUAA(b)
        \/ ConsoleLogout(b)
        \/ SSOConnectStart(b)
        \/ Callback(b)
        \/ ProviderAuthorize(b)
        \/ ProviderLogout(b)
        \/ \E b2 \in Browsers : Forward(b, b2)

Spec == Init /\ [][Next]_vars

-----------------------------------------------------------------------------
(***************************************************************************)
(* Properties                                                              *)
(***************************************************************************)

(* Spec section 4.5: the callback reconstructs the intent of the flow that *)
(* started it.  Every code the console exchanges was issued by a provider, *)
(* is exchanged at that same provider (the UAA for a console login, the    *)
(* endpoint named by guid for a connect), and with the redirect_uri it was *)
(* issued for, so the provider accepts it.  This relates the initiating    *)
(* handler, the provider's redirect, the callback's dispatch in            *)
(* ssoLoginToUAA and the redirect_uri rebuilt in the exchange.             *)
ExchangeMatchesIssue ==
    \A x \in exch :
        /\ x.code \in DOMAIN codes
        /\ x.at = codes[x.code].issuer
        /\ x.redirect = codes[x.code].redirect

(* Spec section 4.5: the redirect_uri "always points back at the single    *)
(* shared callback route": every authorize or logout redirect the console  *)
(* issues names a callback on the console's own host.                      *)
CallbackOnConsoleHost ==
    \A b \in Browsers :
        \A a \in inbox[b] :
            a.kind \in {"authorize", "logoutdo"} => a.redirect.host = ConsoleHost

(* The state parameter ties a callback to the browser that started the     *)
(* flow (RFC 6749 section 10.12): a console session established by the     *)
(* SSO callback in a browser belongs to the user who signed in at the      *)
(* provider in that browser.                                               *)
SessionOwnLogin ==
    \A b \in Browsers : sess[b] \in {None, Owner[b]}

=============================================================================
