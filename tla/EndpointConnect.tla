--------------------------- MODULE EndpointConnect ---------------------------
(***************************************************************************)
(* The Endpoint Connector of jetstream (src/jetstream/auth.go): connecting *)
(* a console user to a registered endpoint (CNSI), disconnecting it, and   *)
(* auto-linking the console UAA token to a cf endpoint.  The credential    *)
(* store is the tokens table keyed by (endpoint GUID, user GUID); a        *)
(* system-shared token lives under the reserved SystemSharedUserGuid.      *)
(*                                                                         *)
(* Every HTTP request is its own goroutine, so requests interleave.  A     *)
(* request is split into atomic steps exactly where the handler touches    *)
(* the shared store: DoLoginToCNSI reads nothing from the store, then      *)
(* saves (setCNSITokenRecord), then validates and may roll back            *)
(* (ClearCNSIToken); logoutOfCNSI reads the token record, then clears it.  *)
(***************************************************************************)
EXTENDS Naturals, FiniteSets

CONSTANTS
    Users,                \* console user GUIDs
    Admins,               \* users whose console UAA token carries the admin scope
    Endpoints,            \* GUIDs of registered endpoints
    Unregistered,         \* a GUID with no CNSI record
    CNSIType,             \* CNSIType[e]: the endpoint's type tag
    PluginTypes,          \* type tags of the loaded endpoint plugins
    AutoRegURL,           \* endpoints whose API URL equals AutoRegisterCFUrl
    SameUAA,              \* endpoints whose UAA is the console's UAA
    SystemSharedUserGuid, \* tokens.SystemSharedUserGuid
    Requests,             \* concurrently served HTTP requests
    MaxTokens,            \* bound on tokens issued by endpoint handshakes
    StoreFaults           \* may a tokens-table write fail?

ASSUME Admins \subseteq Users /\ SystemSharedUserGuid \notin Users
ASSUME Unregistered \notin Endpoints /\ AutoRegURL \subseteq Endpoints
ASSUME StoreFaults \in BOOLEAN /\ MaxTokens \in Nat

VARIABLES
    store,    \* store[e][o]: the token record of endpoint e for owner o
    req,      \* req[r]: the progress of request r through its handler
    nextTok   \* number of tokens issued so far (token identities)

vars == <<store, req, nextTok>>

Owners == Users \cup {SystemSharedUserGuid}
Guids == Endpoints \cup {Unregistered}

NoRecord == [id |-> 0, good |-> FALSE, disconnected |-> FALSE, linked |-> FALSE,
             by |-> SystemSharedUserGuid]

\* InitEndpointTokenRecord(0, "cleared_token", "cleared_token", true)
Cleared == [id |-> 0, good |-> FALSE, disconnected |-> TRUE, linked |-> FALSE,
            by |-> SystemSharedUserGuid]

\* A token record: its identity, whether the plugin's Validate accepts it,
\* the Disconnected flag, whether it is a LinkedGUID copy of the UAA token,
\* and the user whose endpoint identity the token carries (the sentinel for
\* the cleared placeholder, which carries none).
TokenRecord == [id: 0..MaxTokens, good: BOOLEAN, disconnected: BOOLEAN,
                linked: BOOLEAN, by: Owners]

(* A ConnectedUser view: the GUID it shows and its scopes ("token": the    *)
(* token's scopes, "none": cleared, "read": the fallback's ["read"]).     *)
NoView == [guid |-> "none", scopes |-> "none"]
Views == [guid: Owners \cup {"Unknown", "none"}, scopes: {"token", "none", "read"}]

Results == {"none", "ok", "EndpointNotFound", "PermissionDenied",
            "NotSupported", "ConnectFailed", "SaveFailed",
            "ValidationFailed", "ClearFailed", "UAAMismatch", "NoUser",
            "Panic"}

Idle == [pc |-> "idle", user |-> SystemSharedUserGuid, ep |-> Unregistered,
         owner |-> SystemSharedUserGuid, tok |-> NoRecord, result |-> "none",
         view |-> NoView, shared |-> FALSE]

TypeOK ==
    /\ store \in [Endpoints -> [Owners -> TokenRecord]]
    /\ req \in [Requests -> [pc: {"idle", "save", "validate", "clear"},
                             user: Owners, ep: Guids, owner: Owners,
                             tok: TokenRecord, result: Results,
                             view: Views, shared: BOOLEAN]]
    /\ nextTok \in 0..MaxTokens

Init ==
    /\ store = [e \in Endpoints |-> [o \in Owners |-> NoRecord]]
    /\ req = [r \in Requests |-> Idle]
    /\ nextTok = 0

(***************************************************************************)
(* ClearCNSIToken: a cf endpoint registered under the auto-register URL    *)
(* keeps a disconnected placeholder; any other token is deleted.           *)
(***************************************************************************)
\* deleteCNSIToken: unsetCNSITokenRecord removes the row.
deleteCNSIToken(e, o) == [store EXCEPT ![e][o] = NoRecord]

ClearCNSIToken(e, o) ==
    IF CNSIType[e] = "cf" /\ e \in AutoRegURL
    THEN [store EXCEPT ![e][o] = Cleared]
    ELSE deleteCNSIToken(e, o)

\* Mutation: the admin check for a system-shared connect is missing.
ConnectCheckNoAdmin(u, g, shared) ==
    IF g \notin Endpoints THEN "EndpointNotFound"
    ELSE IF CNSIType[g] \notin PluginTypes THEN "NotSupported"
    ELSE "ok"

\* The early returns of DoLoginToCNSI before the plugin's Connect, in order.
ConnectCheck(u, g, shared) ==
    IF g \notin Endpoints THEN "EndpointNotFound"
    ELSE IF shared /\ u \notin Admins THEN "PermissionDenied"
    ELSE IF CNSIType[g] \notin PluginTypes THEN "NotSupported"
    ELSE "ok"

\* Mutation: the sanitised display name "system_shared" is used as the owner.
EffectiveUserByName(u, shared) == IF shared THEN "system_shared" ELSE u

\* The owner the token is recorded against: the shared sentinel or the user.
EffectiveUser(u, shared) == IF shared THEN SystemSharedUserGuid ELSE u

Finish(r, result) == req' = [req EXCEPT ![r] = [Idle EXCEPT !.result = result]]

\* The request returns a user view, of a system-shared token or not.
FinishView(r, view, shared) ==
    req' = [req EXCEPT ![r] = [Idle EXCEPT !.result = "ok", !.view = view,
                                           !.shared = shared]]

(***************************************************************************)
(* The ConnectedUser view.  GetCNSIUserFromToken asks the auth provider's  *)
(* UserInfo, by default GetCNSIUserFromOAuthToken, which decodes the token *)
(* (the endpoint identity it carries and its scopes) and may fail.         *)
(***************************************************************************)
GetCNSIUserFromToken(tok) == [guid |-> tok.by, scopes |-> "token"]

\* santizeInfoForSystemSharedTokenUser: the sentinel GUID, no scopes.
santizeInfoForSystemSharedTokenUser(view, isSystemShared) ==
    IF isSystemShared
    THEN [guid |-> SystemSharedUserGuid, scopes |-> "none"]
    ELSE view

\* DoLoginToCNSI's view when UserInfo fails: GUID "Unknown", scopes ["read"].
UnknownUser == [guid |-> "Unknown", scopes |-> "read"]

(***************************************************************************)
(* The Token Acquirer: the plugin's Connect runs one of two handshakes.    *)
(* creds: a POST form carries both a username and a password (a GET        *)
(* carries an authorization code, which login does not check).  An outcome *)
(* is "token" (a token record is built) or the failure the request ends    *)
(* with.                                                                   *)
(***************************************************************************)
ConnectTypes == {"oauth2", "basic"}

(* login: a POST without username or password fails before any grant;      *)
(* otherwise the UAA grant and GetUserTokenInfo may each fail.             *)
login(creds) == IF creds THEN {"token", "ConnectFailed"} ELSE {"ConnectFailed"}

\* FetchOAuth2Token: a login error is returned as "Could not connect to the
\* endpoint" or 400 "Login failed".
FetchOAuth2Token(creds) == login(creds)

\* ConnectOAuth2: on success the token record is built from the grant.
ConnectOAuth2(creds) == FetchOAuth2Token(creds)

(* loginHttpBasic: without a username or password it fails; otherwise it  *)
(* assigns the access token through its nil *UAAResponse result: a panic.  *)
loginHttpBasic(creds) == IF creds THEN {"Panic"} ELSE {"NeedsCredentials"}

\* fetchHttpBasicToken: a loginHttpBasic error becomes 401 "Login failed".
fetchHttpBasicToken(creds) ==
    {IF o = "NeedsCredentials" THEN "ConnectFailed" ELSE o : o \in loginHttpBasic(creds)}

\* The plugin's Connect (outside src/) runs one handshake or the other.
Handshake(type, creds) ==
    IF type = "oauth2" THEN ConnectOAuth2(creds) ELSE fetchHttpBasicToken(creds)

\* InitEndpointTokenRecord(expiry, access, refresh, false) for user u.
InitEndpointTokenRecord(id, good, u) ==
    [id |-> id, good |-> good, disconnected |-> FALSE, linked |-> FALSE, by |-> u]

(***************************************************************************)
(* loginToCNSI / DoLoginToCNSI up to the plugin's Connect: look up the     *)
(* endpoint, check admin rights for a shared connect, find the plugin and  *)
(* run its handshake, which returns a token record or fails.  Whether the  *)
(* token will pass Validate is the endpoint's choice.                      *)
(***************************************************************************)
ConnectStart(r) ==
    /\ req[r].pc = "idle"
    /\ \E u \in Users, g \in Guids, shared \in BOOLEAN :
          \/ /\ ConnectCheck(u, g, shared) # "ok"
             /\ Finish(r, ConnectCheck(u, g, shared))
             /\ UNCHANGED nextTok
          \/ /\ ConnectCheck(u, g, shared) = "ok"
             /\ \E type \in ConnectTypes, creds \in BOOLEAN :
                   \E res \in Handshake(type, creds) \ {"token"} : Finish(r, res)
             /\ UNCHANGED nextTok
          \/ /\ ConnectCheck(u, g, shared) = "ok"
             /\ \E type \in ConnectTypes, creds \in BOOLEAN :
                   "token" \in Handshake(type, creds)
             /\ nextTok < MaxTokens
             /\ \E good \in BOOLEAN :
                   req' = [req EXCEPT ![r] =
                             [pc |-> "save", user |-> u, ep |-> g,
                              owner |-> EffectiveUser(u, shared),
                              tok |-> InitEndpointTokenRecord(nextTok + 1, good, u),
                              result |-> "none", view |-> NoView,
                              shared |-> FALSE]]
             /\ nextTok' = nextTok + 1
    /\ UNCHANGED store

\* setCNSITokenRecord(cnsiGUID, userID, *tokenRecord)
ConnectSave(r) ==
    /\ req[r].pc = "save"
    /\ \/ /\ store' = [store EXCEPT ![req[r].ep][req[r].owner] = req[r].tok]
          /\ req' = [req EXCEPT ![r].pc = "validate"]
       \/ /\ StoreFaults
          /\ Finish(r, "SaveFailed")
          /\ UNCHANGED store
    /\ UNCHANGED nextTok

(***************************************************************************)
(* endpointPlugin.Validate, then either the response (GetCNSIUserFromToken *)
(* and sanitising read no shared state) or the rollback ClearCNSIToken,    *)
(* whose error the handler ignores.                                        *)
(***************************************************************************)
\* Mutation: the rollback clears the caller's own slot, not the effective one.
ConnectValidateClearCaller(r) ==
    /\ req[r].pc = "validate"
    /\ \/ /\ req[r].tok.good
          /\ Finish(r, "ok")
          /\ UNCHANGED store
       \/ /\ ~req[r].tok.good
          /\ store' = ClearCNSIToken(req[r].ep, req[r].user)
          /\ Finish(r, "ValidationFailed")
    /\ UNCHANGED nextTok

ConnectValidate(r) ==
    /\ req[r].pc = "validate"
    /\ \/ /\ req[r].tok.good
          /\ LET shared == req[r].owner = SystemSharedUserGuid IN
             \/ FinishView(r, santizeInfoForSystemSharedTokenUser(
                                 GetCNSIUserFromToken(req[r].tok), shared),
                           shared)
             \/ FinishView(r, UnknownUser, shared)
          /\ UNCHANGED store
       \/ /\ ~req[r].tok.good
          /\ store' = ClearCNSIToken(req[r].ep, req[r].owner)
          /\ Finish(r, "ValidationFailed")
       \/ /\ ~req[r].tok.good
          /\ StoreFaults
          /\ Finish(r, "ValidationFailed")
          /\ UNCHANGED store
    /\ UNCHANGED nextTok

(***************************************************************************)
(* logoutOfCNSI up to ClearCNSIToken: look up the endpoint and the token   *)
(* record; a system-shared record may only be cleared by an admin, and is  *)
(* then cleared under the sentinel.  The tokens table returns the user's   *)
(* own row or the system-shared row of the endpoint, in no set order.      *)
(***************************************************************************)
Visible(g, u) == {o \in {u, SystemSharedUserGuid} : store[g][o] # NoRecord}

\* The owner ClearCNSIToken is called with when no row is found: the user.
FoundOwners(g, u) == IF Visible(g, u) = {} THEN {u} ELSE Visible(g, u)

DisconnectStart(r) ==
    /\ req[r].pc = "idle"
    /\ \E u \in Users, g \in Guids :
          \/ /\ g \notin Endpoints
             /\ Finish(r, "EndpointNotFound")
          \/ /\ g \in Endpoints
             /\ \E o \in FoundOwners(g, u) :
                   \/ /\ o = SystemSharedUserGuid
                      /\ u \notin Admins
                      /\ Finish(r, "PermissionDenied")
                   \/ /\ o = u \/ u \in Admins
                      /\ req' = [req EXCEPT ![r] =
                                   [Idle EXCEPT !.pc = "clear", !.user = u,
                                                !.ep = g, !.owner = o]]
    /\ UNCHANGED <<store, nextTok>>

\* ClearCNSIToken(cnsiRecord, userGUID)
DisconnectClear(r) ==
    /\ req[r].pc = "clear"
    /\ \/ /\ store' = ClearCNSIToken(req[r].ep, req[r].owner)
          /\ Finish(r, "ok")
       \/ /\ StoreFaults
          /\ Finish(r, "ClearFailed")
          /\ UNCHANGED store
    /\ UNCHANGED nextTok

(***************************************************************************)
(* DoLoginToCNSIwithConsoleUAAtoken: when the cf endpoint's UAA is the     *)
(* console UAA, the user's UAA token is stored as the endpoint token       *)
(* (LinkedGUID set); it is not passed to Validate.                         *)
(***************************************************************************)
AutoConnect(r) ==
    /\ req[r].pc = "idle"
    /\ \E u \in Users, e \in Endpoints :
          /\ CNSIType[e] = "cf"
          /\ \/ /\ e \in SameUAA
                /\ \/ /\ store' = [store EXCEPT ![e][u] =
                                     [id |-> 0, good |-> TRUE,
                                      disconnected |-> FALSE, linked |-> TRUE,
                                      by |-> u]]
                      /\ Finish(r, "ok")
                   \/ /\ StoreFaults
                      /\ Finish(r, "SaveFailed")
                      /\ UNCHANGED store
             \/ /\ e \notin SameUAA
                /\ Finish(r, "UAAMismatch")
                /\ UNCHANGED store
    /\ UNCHANGED nextTok

(***************************************************************************)
(* GetCNSIUser / GetCNSIUserAndToken: the token record of the endpoint for *)
(* the user (own or system-shared row), its user view, sanitised when the  *)
(* record is system-shared.  When the view cannot be built, the nil user   *)
(* is still passed to the sanitiser, which dereferences it for a           *)
(* system-shared record: the request panics.                               *)
(***************************************************************************)
GetCNSIUser(r) ==
    /\ req[r].pc = "idle"
    /\ \E u \in Users, g \in Endpoints :
          \/ /\ Visible(g, u) = {}
             /\ Finish(r, "NoUser")
          \/ \E o \in Visible(g, u) :
                LET shared == o = SystemSharedUserGuid IN
                \/ FinishView(r, santizeInfoForSystemSharedTokenUser(
                                    GetCNSIUserFromToken(store[g][o]), shared),
                              shared)
                \/ Finish(r, IF shared THEN "Panic" ELSE "NoUser")
    /\ UNCHANGED <<store, nextTok>>

Next ==
    \E r \in Requests :
        \/ ConnectStart(r)
        \/ ConnectSave(r)
        \/ ConnectValidate(r)
        \/ DisconnectStart(r)
        \/ DisconnectClear(r)
        \/ AutoConnect(r)
        \/ GetCNSIUser(r)

Spec == Init /\ [][Next]_vars

-----------------------------------------------------------------------------
(***************************************************************************)
(* Properties                                                              *)
(***************************************************************************)

(* No credential that failed the plugin's Validate is left at rest: every  *)
(* stored, connected token record either passes Validate or is the token   *)
(* of a connect request that saved it and has not yet validated it.  This  *)
(* is the rollback of DoLoginToCNSI (ClearCNSIToken after Validate fails)  *)
(* under concurrent connects and disconnects of the same endpoint.         *)
NoUnvalidatedTokenAtRest ==
    \A e \in Endpoints, o \in Owners :
        LET rec == store[e][o] IN
        \/ rec = NoRecord
        \/ rec.disconnected
        \/ rec.good
        \/ \E r \in Requests : req[r].pc = "validate" /\ req[r].tok = rec

(* Only an admin's request ever changes a system-shared token slot:        *)
(* connecting it (DoLoginToCNSI with system_shared), rolling it back, or   *)
(* disconnecting it (logoutOfCNSI).  Each step advances exactly one        *)
(* request, so the acting request is the one whose state changed.          *)
SharedSlotOnlyAdmins ==
    [][\A e \in Endpoints :
         store'[e][SystemSharedUserGuid] # store[e][SystemSharedUserGuid]
            => \E r \in Requests : req'[r] # req[r] /\ req[r].user \in Admins
      ]_vars

(* Spec section 8: a validation failure during connect leaves no token     *)
(* record for that (endpoint, user) pair: the step that rolls a connect    *)
(* back leaves the pair's slot empty.                                      *)
RollbackLeavesNoToken ==
    [][\A r \in Requests :
         (req[r].pc = "validate" /\ req'[r].result = "ValidationFailed")
            => store'[req[r].ep][req[r].owner] = NoRecord
      ]_vars

(* DoLoginToCNSI's rollback undoes only its own connect: when Validate    *)
(* rejects the token, ClearCNSIToken clears the (endpoint, owner) slot by  *)
(* key, and must not remove a token another connect saved there since.    *)
RollbackOnlyOwnToken ==
    [][\A r \in Requests :
         (/\ req[r].pc = "validate" /\ req'[r].result = "ValidationFailed"
          /\ store' # store)
            => store[req[r].ep][req[r].owner] = req[r].tok
      ]_vars

=============================================================================
