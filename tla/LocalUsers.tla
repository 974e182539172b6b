----------------------------- MODULE LocalUsers -----------------------------
(***************************************************************************)
(* Local users of jetstream: AddLocalUser (src/jetstream/localusers.go)    *)
(* and the local user info provider (plugins/userinfo/local_user.go):      *)
(* UpdateUserInfo and UpdatePassword.  The shared state is the local users *)
(* table.  Each request runs in its own goroutine and is split into a step *)
(* per database call, in the handler's order: FindUser, FindPasswordHash,  *)
(* UpdateLocalUser.  FindUser does not return the password hash, which is  *)
(* why both updates read it separately and write the whole row back.       *)
(* The read-only handlers (FindUserGUID, GetUserInfo) change no state.     *)
(***************************************************************************)
EXTENDS Naturals

CONSTANTS
    Ids,        \* user GUIDs uuid.NewV4 may produce
    Requests,   \* concurrently served HTTP requests
    Passwords,  \* plaintext passwords a form may carry
    Emails,     \* e-mail addresses a form may carry
    Names,      \* given/family name pairs a form may carry
    NoEmail,    \* a profile whose Emails list is not one non-empty value
    None,       \* no row, or a value not read yet
    DbFaults    \* may opening the repository or a query fail?

ASSUME NoEmail \notin Emails /\ DbFaults \in BOOLEAN

VARIABLES
    users,    \* users[id]: the row of user id in the local users table, or None
    issued,   \* GUIDs AddLocalUser has returned to its caller
    req       \* req[r]: the progress of request r through its handler

vars == <<users, issued, req>>

(* HashPassword: a salted bcrypt hash.  Only its verification matters: a  *)
(* hash matches exactly the password it was made from.                     *)
Hash(p) == [bcrypt |-> p]

CompareHashAndPassword(h, p) == h = Hash(p)

\* A row: PasswordHash, Email, GivenName/FamilyName.  FindUser leaves the
\* hash empty (None).
Row == [hash: {Hash(p) : p \in Passwords} \cup {None}, email: Emails,
        name: Names]

Idle == [pc |-> "idle", id |-> None, user |-> None, hash |-> None,
         email |-> NoEmail, name |-> None, old |-> None, new |-> None]

TypeOK ==
    /\ users \in [Ids -> Row \cup {None}]
    /\ issued \subseteq Ids
    /\ \A r \in Requests :
          req[r].pc \in {"idle", "uiHash", "uiWrite", "pwHash", "pwWrite"}

Init ==
    /\ users = [id \in Ids |-> None]
    /\ issued = {}
    /\ req = [r \in Requests |-> Idle]

Done(r) == req' = [req EXCEPT ![r] = Idle]

(***************************************************************************)
(* AddLocalUser.  With username, password and scope present, a fresh GUID  *)
(* is generated and the password hashed; then the repository is opened.   *)
(* If that fails the error is only logged and the GUID is still returned;  *)
(* otherwise the row is inserted, and an insert error is returned.         *)
(***************************************************************************)
AddLocalUser(r) ==
    /\ req[r].pc = "idle"
    /\ \E id \in Ids \ issued, p \in Passwords, e \in Emails, n \in Names :
          /\ users[id] = None
          /\ \/ /\ users' = [users EXCEPT ![id] =
                                [hash |-> Hash(p), email |-> e, name |-> n]]
                /\ issued' = issued \cup {id}
             \/ /\ DbFaults   \* NewPgsqlLocalUsersRepository fails
                /\ issued' = issued \cup {id}
                /\ UNCHANGED users
    /\ UNCHANGED req

(***************************************************************************)
(* UpdateUserInfo(profile).  FindUser, then FindPasswordHash, then the row *)
(* is written back with the hash, the profile's e-mail when it carries     *)
(* exactly one non-empty one, and the profile's names.  Any error returns  *)
(* before the write.                                                       *)
(***************************************************************************)
UIFindUser(r) ==
    /\ req[r].pc = "idle"
    /\ \E id \in Ids, e \in Emails \cup {NoEmail}, n \in Names :
          /\ users[id] # None
          /\ req' = [req EXCEPT ![r] = [Idle EXCEPT !.pc = "uiHash", !.id = id,
                                        !.user = [users[id] EXCEPT !.hash = None],
                                        !.email = e, !.name = n]]
    /\ UNCHANGED <<users, issued>>

UIFindHash(r) ==
    /\ req[r].pc = "uiHash"
    /\ \/ req' = [req EXCEPT ![r].pc = "uiWrite",
                             ![r].hash = users[req[r].id].hash]
       \/ /\ DbFaults
          /\ Done(r)
    /\ UNCHANGED <<users, issued>>

UIWrite(r) ==
    /\ req[r].pc = "uiWrite"
    /\ \/ users' = [users EXCEPT ![req[r].id] =
                      [req[r].user EXCEPT
                         !.hash = req[r].hash,
                         !.email = IF req[r].email # NoEmail THEN req[r].email ELSE @,
                         !.name = req[r].name]]
       \/ /\ DbFaults   \* UpdateLocalUser fails
          /\ UNCHANGED users
    /\ Done(r)
    /\ UNCHANGED issued

(***************************************************************************)
(* UpdatePassword(id, old, new).  FindUser, then FindPasswordHash; the old *)
(* password is checked against that hash (400 if it does not match); the  *)
(* new one is hashed into the row FindUser returned, which is written.    *)
(***************************************************************************)
PWFindUser(r) ==
    /\ req[r].pc = "idle"
    /\ \E id \in Ids, old \in Passwords, new \in Passwords :
          /\ users[id] # None
          /\ req' = [req EXCEPT ![r] = [Idle EXCEPT !.pc = "pwHash", !.id = id,
                                        !.user = [users[id] EXCEPT !.hash = None],
                                        !.old = old, !.new = new]]
    /\ UNCHANGED <<users, issued>>

PWFindHash(r) ==
    /\ req[r].pc = "pwHash"
    /\ \/ /\ CompareHashAndPassword(users[req[r].id].hash, req[r].old)
          /\ req' = [req EXCEPT ![r].pc = "pwWrite",
                                ![r].hash = users[req[r].id].hash]
       \/ /\ ~CompareHashAndPassword(users[req[r].id].hash, req[r].old)
          /\ Done(r)
       \/ /\ DbFaults
          /\ Done(r)
    /\ UNCHANGED <<users, issued>>

PWWrite(r) ==
    /\ req[r].pc = "pwWrite"
    /\ \/ users' = [users EXCEPT ![req[r].id] =
                      [req[r].user EXCEPT !.hash = Hash(req[r].new)]]
       \/ /\ DbFaults   \* HashPassword or UpdateLocalUser fails
          /\ UNCHANGED users
    /\ Done(r)
    /\ UNCHANGED issued

Next ==
    \E r \in Requests :
        \/ AddLocalUser(r)
        \/ UIFindUser(r) \/ UIFindHash(r) \/ UIWrite(r)
        \/ PWFindUser(r) \/ PWFindHash(r) \/ PWWrite(r)

Spec == Init /\ [][Next]_vars

-----------------------------------------------------------------------------
(* A password is changed only by UpdatePassword, after the old one was     *)
(* checked: no step changes the stored hash of a user except the write of  *)
(* an UpdatePassword of that user, which stores the hash of its new        *)
(* password.  UpdateUserInfo writes the whole row back, hash included, and *)
(* must leave the password as it found it.                                 *)
PasswordOnlyByUpdatePassword ==
    [][\A id \in Ids :
         (users[id] # None /\ users'[id].hash # users[id].hash)
            => \E r \in Requests :
                  /\ req[r].pc = "pwWrite" /\ req[r].id = id
                  /\ users'[id].hash = Hash(req[r].new)
      ]_vars

=============================================================================
