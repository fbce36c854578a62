----------------------------- MODULE Enrolment ------------------------------
(* Accounts and passkeys: registration_options, registration_verify, the       *)
(* renaming and the revocation of a passkey in gateway/main.py, over the       *)
(* users and credentials tables of gateway/storage/database.py.                *)
(*                                                                             *)
(* A handler is a coroutine; each action runs from one await to the next.  A   *)
(* user's row is named by its username: the column is unique and rows of users *)
(* are never changed or deleted.  The gateway asks for no attestation of the   *)
(* authenticator: the client chooses the id of the passkey, and any ceremony   *)
(* may present an id that was registered, or revoked, before.                  *)
EXTENDS Naturals

CONSTANTS
    Handler,        \* concurrent request handlers
    Name,           \* usernames
    Challenge,
    Credential,     \* credential ids
    Nickname

VARIABLES
    issued, live, uses, \* the challenge store, as OneTimeNonce
    forUser,        \* challenge -> the user_id saved with it
    posted,         \* challenges whose attestation was sent to registration_verify
    attested,       \* what was attested for a posted challenge
    users,          \* usernames that have a row
    credentials,    \* rows of the credentials table
    owner, nickname,    \* their user_id and nickname; "" is NULL
    pc,             \* per handler: where it waits
    name,           \* per handler: the user it serves, or req.username
    chal, target, label,
                    \* per handler: its challenge, passkey and new nickname
    through,        \* history: the challenge of the ceremony behind each row
    revoked         \* history: the ceremonies whose row was revoked

nonceVars == <<issued, live, uses, forUser>>
browserVars == <<posted, attested>>
historyVars == <<through, revoked>>
rowVars == <<credentials, owner, nickname>>
handlerVars == <<pc, name, chal, target, label>>
vars == <<nonceVars, browserVars, users, rowVars, handlerVars, historyVars>>

Nonces == INSTANCE OneTimeNonce WITH Nonce <- Challenge

Waiting == {"insert_user", "list", "save", "insert_credential", "rename", "delete"}

TypeOK ==
    /\ Nonces!TypeOK
    /\ forUser \in [Challenge -> Name]
    /\ posted \in SUBSET Challenge
    /\ attested \in [Challenge -> [credential : Credential, genuine : BOOLEAN]]
    /\ users \in SUBSET Name
    /\ credentials \in SUBSET Credential
    /\ owner \in [Credential -> Name]
    /\ nickname \in [Credential -> Nickname \cup {""}]
    /\ pc \in [Handler -> Waiting \cup {"idle", "conflict"}]
    /\ name \in [Handler -> Name]
    /\ chal \in [Handler -> Challenge]
    /\ target \in [Handler -> Credential]
    /\ label \in [Handler -> Nickname \cup {""}]
    /\ through \in [Credential -> Challenge]
    /\ revoked \in SUBSET Challenge

Init ==
    /\ Nonces!Init
    /\ posted = {}
    /\ users = {}
    /\ credentials = {}
    /\ nickname = [cr \in Credential |-> ""]
    /\ pc = [h \in Handler |-> "idle"]
    /\ \E n \in Name : /\ forUser = [ch \in Challenge |-> n]
                       /\ owner = [cr \in Credential |-> n]
                       /\ name = [h \in Handler |-> n]
    /\ \E cr \in Credential :
         /\ attested = [ch \in Challenge |-> [credential |-> cr, genuine |-> FALSE]]
         /\ target = [h \in Handler |-> cr]
    /\ \E ch \in Challenge : /\ chal = [h \in Handler |-> ch]
                            /\ through = [cr \in Credential |-> ch]
    /\ label = [h \in Handler |-> ""]
    /\ revoked = {}

Goto(h, place) == pc' = [pc EXCEPT ![h] = place]

-----------------------------------------------------------------------------
(* registration_options                                                        *)

(* get_or_create_user: its SELECT.                                             *)
SelectUser(h, n) ==
    /\ pc[h] = "idle"
    /\ Goto(h, IF n \in users THEN "list" ELSE "insert_user")
    /\ name' = [name EXCEPT ![h] = n]
    /\ UNCHANGED <<nonceVars, browserVars, users, rowVars, chal, target, label,
                   historyVars>>

(* Its INSERT and COMMIT: the username is unique, so a second one is an        *)
(* IntegrityError and the request ends in a 500.                               *)
InsertUser(h) ==
    /\ pc[h] = "insert_user"
    /\ Goto(h, IF name[h] \in users THEN "conflict" ELSE "list")
    /\ users' = users \cup {name[h]}
    /\ UNCHANGED <<nonceVars, browserVars, rowVars, name, chal, target, label,
                   historyVars>>

(* get_credentials_for_user; the exclude list and a random challenge.  The     *)
(* list is advice to the authenticator: nothing depends on it afterwards.      *)
MakeOptions(h, ch) ==
    /\ pc[h] = "list"
    /\ ch \notin issued
    /\ \A g \in Handler : pc[g] = "save" => chal[g] # ch
    /\ Goto(h, "save")
    /\ chal' = [chal EXCEPT ![h] = ch]
    /\ UNCHANGED <<nonceVars, browserVars, users, rowVars, name, target, label,
                   historyVars>>

SaveChallenge(h) ==
    /\ pc[h] = "save"
    /\ Nonces!Issue(chal[h])
    /\ forUser' = [forUser EXCEPT ![chal[h]] = name[h]]
    /\ Goto(h, "idle")
    /\ UNCHANGED <<browserVars, users, rowVars, name, chal, target, label, historyVars>>

(* webauthn_client.js register(): the authenticator creates a passkey and the  *)
(* attestation is posted; not every post is well-formed and for this gateway   *)
(* (genuine).  The id may be one that another ceremony presented.              *)
Attest(ch, cr, genuine) ==
    /\ ch \in issued \ posted
    /\ posted' = posted \cup {ch}
    /\ attested' = [attested EXCEPT ![ch] = [credential |-> cr, genuine |-> genuine]]
    /\ UNCHANGED <<nonceVars, users, rowVars, handlerVars, historyVars>>

-----------------------------------------------------------------------------
(* registration_verify                                                         *)

(* consume_challenge (a challenge that is gone is answered 400) and            *)
(* verify_registration, before the next await.  The challenge is spent whether *)
(* or not the attestation verifies; n is req.username, which the browser       *)
(* chooses.                                                                    *)
Verify(h, ch, n) ==
    /\ pc[h] = "idle"
    /\ ch \in posted
    /\ Nonces!Spend(ch)
    /\ Goto(h, IF attested[ch].genuine THEN "insert_credential" ELSE "idle")
    /\ name' = [name EXCEPT ![h] = n]
    /\ chal' = [chal EXCEPT ![h] = ch]
    /\ UNCHANGED <<forUser, browserVars, users, rowVars, target, label, historyVars>>

MutRegistrant(h) == name[h] \* req.username is believed
MutNoRegistrant(h) == ""    \* the user_id is not saved and its absence not noticed
(* The user_id saved with the challenge; req.username counts only without it,  *)
(* which never happens: registration_options always saves one.                 *)
Registrant(h) == forUser[chal[h]]

(* save_credential: INSERT and COMMIT; a second row of one id is refused.      *)
InsertCredential(h) ==
    LET cr == attested[chal[h]].credential
    IN  /\ pc[h] = "insert_credential"
        /\ cr \notin credentials
        /\ credentials' = credentials \cup {cr}
        /\ owner' = [owner EXCEPT ![cr] = Registrant(h)]
        /\ nickname' = [nickname EXCEPT ![cr] = ""]
        /\ through' = [through EXCEPT ![cr] = chal[h]]
        /\ Goto(h, "idle")
        /\ UNCHANGED <<nonceVars, browserVars, users, name, chal, target, label, revoked>>

-----------------------------------------------------------------------------
(* rename_user_credential and revoke_user_credential: the SELECT of            *)
(* rename_credential and delete_credential finds the user's own passkeys only; *)
(* another is answered 404.                                                    *)
SelectCredential(h, n, cr, action, text) ==
    /\ pc[h] = "idle"
    /\ cr \in credentials /\ owner[cr] = n
    /\ Goto(h, action)
    /\ name' = [name EXCEPT ![h] = n]
    /\ target' = [target EXCEPT ![h] = cr]
    /\ label' = [label EXCEPT ![h] = text]
    /\ UNCHANGED <<nonceVars, browserVars, users, rowVars, chal, historyVars>>

MutRenameCommit(h) == \* an upsert
    /\ pc[h] = "rename"
    /\ credentials' = credentials \cup {target[h]}
    /\ nickname' = [nickname EXCEPT ![target[h]] = label[h]]
    /\ Goto(h, "idle")
    /\ UNCHANGED <<nonceVars, browserVars, users, owner, name, chal, target, label,
                   historyVars>>
RenameCommit(h) ==
    /\ pc[h] = "rename"
    /\ target[h] \in credentials
    /\ nickname' = [nickname EXCEPT ![target[h]] = label[h]]
    /\ Goto(h, "idle")
    /\ UNCHANGED <<nonceVars, browserVars, users, credentials, owner, name, chal, target,
                   label, historyVars>>

(* A DELETE that matches no row is only warned about: a second revocation that *)
(* found the row before the first one committed succeeds as well.  It names    *)
(* the row by its id: one that was registered anew since the SELECT goes too,  *)
(* as it takes the new nickname in a rename.                                   *)
DeleteCommit(h) ==
    /\ pc[h] = "delete"
    /\ credentials' = credentials \ {target[h]}
    /\ revoked' = IF target[h] \in credentials THEN revoked \cup {through[target[h]]}
                                               ELSE revoked
    /\ Goto(h, "idle")
    /\ UNCHANGED <<nonceVars, browserVars, users, owner, nickname, name, chal, target, label,
                   through>>

-----------------------------------------------------------------------------
(* A statement fails and the request ends in a 500 with nothing written: a     *)
(* second row of one passkey (IntegrityError), an UPDATE that matches no row   *)
(* (StaleDataError), a database that is locked or gone.                        *)
Fail(h) ==
    /\ pc[h] \in {"insert_user", "list", "insert_credential", "rename", "delete"}
    /\ Goto(h, "idle")
    /\ UNCHANGED <<nonceVars, browserVars, users, rowVars, name, chal, target, label,
                   historyVars>>

(* The 500 of a lost race for a username is answered.                          *)
AnswerConflict(h) ==
    /\ pc[h] = "conflict"
    /\ Goto(h, "idle")
    /\ UNCHANGED <<nonceVars, browserVars, users, rowVars, name, chal, target, label,
                   historyVars>>

(* A challenge expires, or the process restarts: its requests are lost and,    *)
(* without Redis, its challenges too.                                          *)
Expire(ch) ==
    /\ ch \in live
    /\ Nonces!Forget({ch})
    /\ UNCHANGED <<forUser, browserVars, users, rowVars, handlerVars, historyVars>>

Restart ==
    /\ \E S \in SUBSET live : Nonces!Forget(S)
    /\ pc' = [h \in Handler |-> "idle"]
    /\ UNCHANGED <<forUser, browserVars, users, rowVars, name, chal, target, label,
                   historyVars>>

Handle(h) ==
    \/ \E n \in Name : SelectUser(h, n)
    \/ InsertUser(h)
    \/ \E ch \in Challenge : MakeOptions(h, ch)
    \/ SaveChallenge(h)
    \/ \E ch \in Challenge, n \in Name : Verify(h, ch, n)
    \/ InsertCredential(h)
    \/ \E n \in Name, cr \in Credential :
         \/ \E text \in Nickname : SelectCredential(h, n, cr, "rename", text)
         \/ SelectCredential(h, n, cr, "delete", "")
    \/ RenameCommit(h) \/ DeleteCommit(h) \/ Fail(h) \/ AnswerConflict(h)

Next ==
    \/ \E h \in Handler : Handle(h)
    \/ \E ch \in Challenge, cr \in Credential, genuine \in BOOLEAN :
         Attest(ch, cr, genuine)
    \/ \E ch \in Challenge : Expire(ch)
    \/ Restart

Spec == Init /\ [][Next]_vars

-----------------------------------------------------------------------------
(* A passkey belongs to the user whose registration asked for it: behind every *)
(* row stands one genuine attestation, whose challenge was made for that user  *)
(* and is spent, whatever the request says and whoever registers beside it.    *)
Registered(cr) ==
    LET ch == through[cr]
    IN  /\ owner[cr] \in users
        /\ ch \in posted
        /\ attested[ch].credential = cr
        /\ attested[ch].genuine
        /\ uses[ch] = 1
        /\ forUser[ch] = owner[cr]

OwnedByRegistrant == \A cr \in credentials : Registered(cr)

(* Revoking a passkey undoes its registration for good: the ceremony that was  *)
(* behind the row is behind no row again, by a registration delivered twice or *)
(* late or by a rename that had found the row.  Only a new ceremony, with a    *)
(* challenge of its own, brings the id back.                                   *)
RevocationIsFinal == \A cr \in credentials : through[cr] \notin revoked
=============================================================================
