--------------------------- MODULE LoginCeremony ----------------------------
(* The passkey login of gateway/main.py (login_options, login_verify), with    *)
(* the counter check of gateway/crypto/authentication.py, the credential rows  *)
(* of gateway/storage/database.py and the passkey revocation that may run      *)
(* beside it.                                                                  *)
(*                                                                             *)
(* Challenges are the one-time nonces that ChallengeStore implements.  A       *)
(* handler is a coroutine of the event loop: every action runs from one await  *)
(* to the next, so another handler may run between any two of them.  A posted  *)
(* assertion stays in the network: it may be delivered late, out of order or   *)
(* more than once.                                                             *)
EXTENDS Naturals

CONSTANTS
    Handler,        \* concurrent request handlers
    Device,         \* authenticators: more than one holds a synced or cloned
                    \* key, and a copy's counter may lag behind
    User, Credential, Owner,
    Challenge,
    InitialCount,   \* the signature counter stored at registration
    Counterless,    \* credentials whose authenticator always reports 0
    MaxCount        \* bound of an authenticator's counter and of a forged one

ASSUME CeremonyAssumption ==
    /\ Owner \in [Credential -> User]
    /\ InitialCount \in [Credential -> Nat]
    /\ Counterless \in SUBSET Credential
    /\ \A cr \in Counterless : InitialCount[cr] = 0
    /\ MaxCount \in Nat

VARIABLES
    issued, live, uses, \* the challenge store, as OneTimeNonce
    devCount,       \* the authenticators' own counters
    posted,         \* challenges whose signed assertion was sent to login_verify
    assertion,      \* what was signed for a posted challenge
    enrolled,       \* rows of the credentials table
    signCount,      \* Credential.sign_count of those rows
    pc, chal,       \* per handler: where it waits, the challenge it verifies
    target,         \* per handler: the credential it loaded
    stored,         \* per handler: stored_cred.sign_count as loaded
    fresh,          \* per handler: the count the UPDATE's own SELECT saw
    accepted,       \* challenges whose assertion passed verification
    flagged,        \* challenges whose assertion was answered 403 and alarmed
    sessions,       \* session tokens created, per challenge
    raced           \* credentials of which two logins ran at the same time

nonceVars == <<issued, live, uses>>
browserVars == <<devCount, posted, assertion>>
rowVars == <<enrolled, signCount>>
handlerVars == <<pc, chal, target, stored, fresh>>
outcomeVars == <<accepted, flagged, sessions, raced>>
vars == <<nonceVars, browserVars, rowVars, handlerVars, outcomeVars>>

Nonces == INSTANCE OneTimeNonce WITH Nonce <- Challenge

(* How verify_authentication_response judges an assertion: what it checks      *)
(* before the counter (challenge, origin, RP id, flags) or after it (the       *)
(* signature) may fail.                                                        *)
Form == {"good", "bad_client_data", "bad_signature"}
Assertion == [credential : Credential, count : Nat, form : Form]

Busy == {"consume", "select", "commit", "user", "delete"}

TypeOK ==
    /\ Nonces!TypeOK
    /\ devCount \in [Credential -> [Device -> Nat]]
    /\ posted \in SUBSET Challenge
    /\ assertion \in [Challenge -> Assertion]
    /\ enrolled \in SUBSET Credential
    /\ signCount \in [Credential -> Nat]
    /\ pc \in [Handler -> Busy \cup {"idle"}]
    /\ chal \in [Handler -> Challenge]
    /\ target \in [Handler -> Credential]
    /\ stored \in [Handler -> Nat]
    /\ fresh \in [Handler -> Nat]
    /\ accepted \in SUBSET Challenge
    /\ flagged \in SUBSET Challenge
    /\ sessions \in [Challenge -> Nat]
    /\ raced \in SUBSET Credential

Init ==
    /\ Nonces!Init
    /\ devCount \in [Credential -> [Device -> 0..MaxCount]]
    /\ \A cr \in Credential, d \in Device : devCount[cr][d] <= InitialCount[cr]
    /\ posted = {}
    /\ \E cr \in Credential :
         /\ assertion = [ch \in Challenge |->
                           [credential |-> cr, count |-> 0, form |-> "good"]]
         /\ target = [h \in Handler |-> cr]
    /\ enrolled = Credential
    /\ signCount = InitialCount
    /\ pc = [h \in Handler |-> "idle"]
    /\ chal \in {[h \in Handler |-> ch] : ch \in Challenge}
    /\ stored = [h \in Handler |-> 0]
    /\ fresh = [h \in Handler |-> 0]
    /\ accepted = {}
    /\ flagged = {}
    /\ sessions = [ch \in Challenge |-> 0]
    /\ raced = {}

-----------------------------------------------------------------------------
(* login_options: a fresh challenge is saved and returned to a browser.        *)
LoginOptions(ch) ==
    /\ Nonces!Issue(ch)
    /\ UNCHANGED <<browserVars, rowVars, handlerVars, outcomeVars>>

(* An assertion that answers an issued challenge reaches the network.  A       *)
(* challenge is answered once; one that its client abandons is never posted.   *)
Post(ch, a) ==
    /\ ch \in issued \ posted
    /\ posted' = posted \cup {ch}
    /\ assertion' = [assertion EXCEPT ![ch] = a]
    /\ UNCHANGED <<nonceVars, rowVars, handlerVars, outcomeVars>>

(* webauthn_client.js login(): the authenticator increments its counter and    *)
(* signs the challenge, possibly for another origin or RP id.                  *)
SignAndPost(ch, cr, d, form) ==
    /\ IF cr \in Counterless
         THEN UNCHANGED devCount
         ELSE /\ devCount[cr][d] < MaxCount
              /\ devCount' = [devCount EXCEPT ![cr][d] = @ + 1]
    /\ Post(ch, [credential |-> cr, count |-> devCount'[cr][d], form |-> form])

(* An assertion that no authenticator signed: it states any count at all, also *)
(* for a credential whose authenticator keeps no counter.                      *)
Forge(ch, cr, count) ==
    /\ Post(ch, [credential |-> cr, count |-> count, form |-> "bad_signature"])
    /\ UNCHANGED devCount

-----------------------------------------------------------------------------
(* login_verify *)

MutGoto(h, label) == \* an answered request does not free its handler
    pc' = [pc EXCEPT ![h] = IF label = "idle" THEN "answered" ELSE label]
Goto(h, label) == pc' = [pc EXCEPT ![h] = label]

(* A handler that has loaded a credential and not yet answered.                *)
InLogin(h) == pc[h] \in {"consume", "select", "commit", "user"}

(* get_credential_by_id: an unknown credential is answered 404, a known one is *)
(* kept in stored_cred for the rest of the request.                            *)
Lookup(h, ch) ==
    LET cr == assertion[ch].credential
    IN  /\ pc[h] = "idle"
        /\ ch \in posted
        /\ cr \in enrolled
        /\ Goto(h, "consume")
        /\ chal' = [chal EXCEPT ![h] = ch]
        /\ target' = [target EXCEPT ![h] = cr]
        /\ stored' = [stored EXCEPT ![h] = signCount[cr]]
        /\ raced' = IF \E g \in Handler : InLogin(g) /\ target[g] = cr
                      THEN raced \cup {cr} ELSE raced
        /\ UNCHANGED <<nonceVars, browserVars, rowVars, fresh, accepted, flagged,
                       sessions>>

MutCounterZeroOnly(h) == assertion[chal[h]].count = 0 /\ stored[h] > 0
MutCounterEqualPasses(h) == assertion[chal[h]].count < stored[h]

(* The counter check of WebAuthn 7.2, against the count loaded by Lookup.      *)
CounterViolated(h) ==
    LET count == assertion[chal[h]].count
    IN  (count > 0 \/ stored[h] > 0) /\ count <= stored[h]

MutConsume(ch) == \* get_challenge instead of consume_challenge
    /\ ch \in live
    /\ uses' = [uses EXCEPT ![ch] = @ + 1]
    /\ UNCHANGED <<issued, live>>

(* consume_challenge: fetch and delete in one step.                            *)
Consume(ch) == Nonces!Spend(ch)

(* consume_challenge found nothing: 400.                                       *)
RefuseChallenge(h) ==
    /\ pc[h] = "consume"
    /\ chal[h] \notin live
    /\ Goto(h, "idle")
    /\ UNCHANGED <<nonceVars, browserVars, rowVars, chal, target, stored, fresh,
                   outcomeVars>>

(* consume_challenge returned the challenge; verify_authentication runs before *)
(* the next await.  Its three outcomes: 400, the alarm and 403, or verified.   *)
Verify(h) ==
    LET a == assertion[chal[h]]
    IN  /\ pc[h] = "consume"
        /\ Consume(chal[h])
        /\ \/ /\ a.form = "bad_client_data"
              /\ Goto(h, "idle")
              /\ UNCHANGED <<accepted, flagged>>
           \/ /\ a.form # "bad_client_data"
              /\ CounterViolated(h)
              /\ Goto(h, "idle")
              /\ flagged' = flagged \cup {chal[h]}
              /\ UNCHANGED accepted
           \/ /\ a.form = "bad_signature"
              /\ ~CounterViolated(h)
              /\ Goto(h, "idle")
              /\ UNCHANGED <<accepted, flagged>>
           \/ /\ a.form = "good"
              /\ ~CounterViolated(h)
              /\ Goto(h, "select")
              /\ accepted' = accepted \cup {chal[h]}
              /\ UNCHANGED flagged
        /\ UNCHANGED <<browserVars, rowVars, chal, target, stored, fresh, sessions,
                       raced>>

(* update_credential_sign_count: its SELECT.  A row that is gone is skipped    *)
(* without an error, and the login goes on.                                    *)
UpdateSelect(h) ==
    /\ pc[h] = "select"
    /\ IF target[h] \in enrolled
         THEN /\ Goto(h, "commit")
              /\ fresh' = [fresh EXCEPT ![h] = signCount[target[h]]]
         ELSE /\ Goto(h, "user")
              /\ UNCHANGED fresh
    /\ UNCHANGED <<nonceVars, browserVars, rowVars, chal, target, stored, outcomeVars>>

MutUpdateCommit(h) == \* counts the logins instead of keeping the device's count
    /\ pc[h] = "commit"
    /\ target[h] \in enrolled
    /\ Goto(h, "user")
    /\ signCount' = [signCount EXCEPT ![target[h]] = fresh[h] + 1]
    /\ UNCHANGED <<nonceVars, browserVars, enrolled, chal, target, stored, fresh,
                   outcomeVars>>

(* Its UPDATE and COMMIT: the new count is written whatever the row holds by   *)
(* now; the ORM leaves the column out when the SELECT saw the same value.      *)
UpdateCommit(h) ==
    LET count == assertion[chal[h]].count
    IN  /\ pc[h] = "commit"
        /\ target[h] \in enrolled
        /\ Goto(h, "user")
        /\ signCount' = IF fresh[h] = count THEN signCount
                        ELSE [signCount EXCEPT ![target[h]] = count]
        /\ UNCHANGED <<nonceVars, browserVars, enrolled, chal, target, stored, fresh,
                       outcomeVars>>

(* A statement after the challenge was spent, or of a deletion, fails: the     *)
(* database was locked or lost, or the UPDATE matched no row (StaleDataError). *)
(* It writes nothing and the request ends in a 500.                            *)
StatementFails(h) ==
    /\ pc[h] \in {"select", "commit", "user", "delete"}
    /\ Goto(h, "idle")
    /\ UNCHANGED <<nonceVars, browserVars, rowVars, chal, target, stored, fresh,
                   outcomeVars>>

(* get_user_by_id finds the owner (users are never deleted) and the session    *)
(* token is created and returned.                                              *)
IssueSession(h) ==
    /\ pc[h] = "user"
    /\ Goto(h, "idle")
    /\ sessions' = [sessions EXCEPT ![chal[h]] = @ + 1]
    /\ UNCHANGED <<nonceVars, browserVars, rowVars, chal, target, stored, fresh,
                   accepted, flagged, raced>>

-----------------------------------------------------------------------------
(* revoke_user_credential, by a user who once logged in: delete_credential's   *)
(* SELECT, then its DELETE and COMMIT.                                         *)
LoggedIn(u) == \E ch \in Challenge :
                  sessions[ch] > 0 /\ Owner[assertion[ch].credential] = u

DeleteSelect(h, cr) ==
    /\ pc[h] = "idle"
    /\ LoggedIn(Owner[cr])
    /\ cr \in enrolled
    /\ Goto(h, "delete")
    /\ target' = [target EXCEPT ![h] = cr]
    /\ UNCHANGED <<nonceVars, browserVars, rowVars, chal, stored, fresh, outcomeVars>>

DeleteCommit(h) ==
    /\ pc[h] = "delete"
    /\ Goto(h, "idle")
    /\ enrolled' = enrolled \ {target[h]}
    /\ UNCHANGED <<nonceVars, browserVars, signCount, chal, target, stored, fresh,
                   outcomeVars>>

-----------------------------------------------------------------------------
(* A challenge's TTL runs out in the store.                                    *)
Expire(ch) ==
    /\ ch \in live
    /\ Nonces!Forget({ch})
    /\ UNCHANGED <<browserVars, rowVars, handlerVars, outcomeVars>>

(* The gateway restarts: requests are lost, and with the in-memory store the   *)
(* challenges too; the database stays.                                         *)
Restart ==
    /\ \E S \in SUBSET live : Nonces!Forget(S)
    /\ pc' = [h \in Handler |-> "idle"]
    /\ UNCHANGED <<browserVars, rowVars, chal, target, stored, fresh, outcomeVars>>

Handle(h) ==
    \/ \E ch \in Challenge : Lookup(h, ch)
    \/ RefuseChallenge(h) \/ Verify(h)
    \/ UpdateSelect(h) \/ UpdateCommit(h) \/ StatementFails(h) \/ IssueSession(h)
    \/ \E cr \in Credential : DeleteSelect(h, cr)
    \/ DeleteCommit(h)

Next ==
    \/ \E ch \in Challenge : LoginOptions(ch) \/ Expire(ch)
    \/ \E ch \in Challenge, cr \in Credential :
         \/ \E d \in Device, form \in Form \ {"bad_signature"} :
              SignAndPost(ch, cr, d, form)
         \/ \E count \in 0..MaxCount : Forge(ch, cr, count)
    \/ \E h \in Handler : Handle(h)
    \/ Restart

Spec == Init /\ [][Next]_vars

-----------------------------------------------------------------------------
Count(ch) == assertion[ch].count
SameCredential(a, b) == assertion[a].credential = assertion[b].credential

(* A login is earned, and only once: however often and however late its        *)
(* assertion is delivered, one challenge yields at most one session, and only  *)
(* through a genuine assertion whose challenge was spent.                      *)
EarnedOnce ==
    \A ch \in Challenge :
        /\ sessions[ch] <= 1
        /\ sessions[ch] > 0 => /\ ch \in posted \cap accepted
                               /\ assertion[ch].form = "good"
                               /\ uses[ch] = 1

(* A clone alarm (403) has a cause outside its own assertion: the registration *)
(* or ANOTHER assertion of the credential, genuine and accepted, showed a      *)
(* count at least as high.  So neither a duplicate nor a late delivery makes   *)
(* an assertion raise the alarm against itself.  The one that raises it may be *)
(* forged, with a signature that is not looked at: the count is checked first. *)
AlarmHasCause ==
    \A a \in flagged :
        \/ InitialCount[assertion[a].credential] >= Count(a)
        \/ \E b \in accepted :
              b # a /\ SameCredential(a, b) /\ Count(b) >= Count(a)

(* The persisted counter is always one a genuine authenticator reported: the   *)
(* count of registration or a higher one of an accepted assertion, whatever    *)
(* the order in which concurrent logins write.                                 *)
CounterIsGenuine ==
    \A cr \in Credential :
        \/ signCount[cr] = InitialCount[cr]
        \/ \E a \in accepted :
              /\ assertion[a].credential = cr
              /\ assertion[a].form = "good"
              /\ Count(a) = signCount[cr]
              /\ Count(a) > InitialCount[cr]

(* ADR-001, "Atomic Persistence": once an assertion has been accepted, a       *)
(* concurrent or replayed request with the same count is rejected, so no two   *)
(* sessions of a credential rest on the same nonzero count.                    *)
CountReused(a, b) ==
    /\ a # b /\ SameCredential(a, b)
    /\ sessions[a] > 0 /\ sessions[b] > 0
    /\ Count(a) > 0 /\ Count(a) = Count(b)

NoDuplicateCounter == \A a, b \in Challenge : ~CountReused(a, b)

(* The same for every credential whose logins never overlapped: then a copied  *)
(* key is noticed, however its assertions are delayed, duplicated or cut short *)
(* by failures, restarts and the passkey's deletion.                           *)
NoDuplicateUnlessRaced ==
    \A a, b \in Challenge : CountReused(a, b) => assertion[a].credential \in raced

(* ADR-001, "Strict Monotonicity" and `max(stored, incoming)`: the stored      *)
(* counter of a credential never goes down, as long as no two logins of the    *)
(* credential overlapped; overlapping ones may commit in either order.         *)
CounterGrowsUnlessRaced ==
    [][\A cr \in Credential : signCount'[cr] >= signCount[cr] \/ cr \in raced]_vars
=============================================================================
