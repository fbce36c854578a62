-------------------------- MODULE EnrolmentProofs ---------------------------
(* Proofs about Enrolment for any number of handlers, users, challenges and    *)
(* passkeys.                                                                   *)
EXTENDS Enrolment, TLAPS

(* A challenge is spent at most once.                                          *)
NonceInv ==
    \A ch \in Challenge : /\ uses[ch] <= 1
                          /\ ch \in live \/ ch \notin issued => uses[ch] = 0

(* Every challenge is made for a user that has a row, by one handler.          *)
MadeForUser ==
    /\ posted \subseteq issued
    /\ \A ch \in issued : forUser[ch] \in users
    /\ \A h \in Handler :
         /\ pc[h] \in {"list", "save"} => name[h] \in users
         /\ pc[h] = "save" => chal[h] \notin issued
         /\ pc[h] = "save" =>
              \A g \in Handler : pc[g] = "save" /\ chal[g] = chal[h] => g = h

(* A verified attestation waits, in one handler, for its first row.            *)
VerifiedInv ==
    \A h \in Handler : pc[h] = "insert_credential" =>
        /\ chal[h] \in posted /\ attested[chal[h]].genuine /\ uses[chal[h]] = 1
        /\ chal[h] \notin revoked /\ \A cr \in credentials : through[cr] # chal[h]
        /\ \A g \in Handler :
             pc[g] = "insert_credential" /\ chal[g] = chal[h] => g = h

(* Rows and revocations come from spent challenges, and none from both.        *)
RowsInv ==
    /\ OwnedByRegistrant
    /\ \A ch \in revoked : ch \in posted /\ uses[ch] = 1
    /\ RevocationIsFinal

IInv ==
    /\ TypeOK
    /\ NonceInv
    /\ MadeForUser
    /\ VerifiedInv
    /\ RowsInv

-----------------------------------------------------------------------------
LEMMA SpendKeepsType ==
  ASSUME Nonces!TypeOK, NEW ch \in Challenge, Nonces!Spend(ch) PROVE Nonces!TypeOK'
  BY DEF Nonces!TypeOK, Nonces!Spend

(* Every action keeps the variables' types.                                    *)
LEMMA TypePreserved == ASSUME TypeOK, [Next]_vars PROVE TypeOK'
  <1> USE DEF TypeOK, Nonces!TypeOK, Waiting, historyVars
  <1>1. ASSUME NEW h \in Handler, NEW n \in Name, SelectUser(h, n) PROVE TypeOK'
    BY <1>1 DEF SelectUser, Goto, nonceVars, browserVars, rowVars
  <1>2. ASSUME NEW h \in Handler, InsertUser(h) PROVE TypeOK'
    BY <1>2 DEF InsertUser, Goto, nonceVars, browserVars, rowVars
  <1>3. ASSUME NEW h \in Handler, NEW ch \in Challenge, MakeOptions(h, ch) PROVE TypeOK'
    BY <1>3 DEF MakeOptions, Goto, nonceVars, browserVars, rowVars
  <1>4. ASSUME NEW h \in Handler, SaveChallenge(h) PROVE TypeOK'
    BY <1>4 DEF SaveChallenge, Goto, Nonces!Issue, browserVars, rowVars
  <1>5. ASSUME NEW h \in Handler, NEW ch \in Challenge, NEW n \in Name, Verify(h, ch, n)
        PROVE  TypeOK'
    <2>1. Nonces!TypeOK'
      BY <1>5, SpendKeepsType DEF Verify
    <2>2. pc' \in [Handler -> Waiting \cup {"idle", "conflict"}]
      BY <1>5 DEF Verify, Goto
    <2> QED BY <1>5, <2>1, <2>2 DEF Verify, browserVars, rowVars
  <1>6. ASSUME NEW h \in Handler, InsertCredential(h) PROVE TypeOK'
    <2>1. chal[h] \in Challenge /\ attested[chal[h]].credential \in Credential
      OBVIOUS
    <2>3. forUser[chal[h]] \in Name
      BY <2>1
    <2>4. credentials' \in SUBSET Credential
      BY <1>6, <2>1 DEF InsertCredential
    <2>5. owner' \in [Credential -> Name]
      BY <1>6, <2>1, <2>3 DEF InsertCredential, Registrant
    <2>6. nickname' \in [Credential -> Nickname \cup {""}]
      BY <1>6, <2>1 DEF InsertCredential
    <2>7. through' \in [Credential -> Challenge]
      BY <1>6, <2>1 DEF InsertCredential
    <2>2. pc' \in [Handler -> Waiting \cup {"idle", "conflict"}]
      BY <1>6 DEF InsertCredential, Goto
    <2> QED BY <1>6, <2>2, <2>4, <2>5, <2>6, <2>7 DEF InsertCredential, nonceVars, browserVars
  <1>7. ASSUME NEW h \in Handler, NEW n \in Name, NEW cr \in Credential,
              NEW action \in {"rename", "delete"}, NEW text \in Nickname \cup {""},
              SelectCredential(h, n, cr, action, text)
        PROVE  TypeOK'
    BY <1>7 DEF SelectCredential, Goto, nonceVars, browserVars, rowVars
  <1>8. ASSUME NEW h \in Handler, RenameCommit(h) PROVE TypeOK'
    BY <1>8 DEF RenameCommit, Goto, nonceVars, browserVars
  <1>9. ASSUME NEW h \in Handler, DeleteCommit(h) PROVE TypeOK'
    BY <1>9 DEF DeleteCommit, Goto, nonceVars, browserVars
  <1>10. ASSUME NEW h \in Handler, Fail(h) \/ AnswerConflict(h) PROVE TypeOK'
    BY <1>10 DEF Fail, AnswerConflict, Goto, nonceVars, browserVars, rowVars
  <1>11. ASSUME NEW ch \in Challenge, NEW cr \in Credential, NEW genuine \in BOOLEAN,
                Attest(ch, cr, genuine)
         PROVE  TypeOK'
    BY <1>11 DEF Attest, nonceVars, rowVars, handlerVars
  <1>12. ASSUME NEW ch \in Challenge, Expire(ch) PROVE TypeOK'
    BY <1>12 DEF Expire, Nonces!Forget, browserVars, rowVars, handlerVars
  <1>13. ASSUME Restart PROVE TypeOK'
    BY <1>13 DEF Restart, Nonces!Forget, browserVars, rowVars
  <1>14. ASSUME UNCHANGED vars PROVE TypeOK'
    BY <1>14 DEF vars, nonceVars, browserVars, rowVars, handlerVars
  <1> HIDE DEF TypeOK, Nonces!TypeOK, Waiting
  <1> QED BY <1>1, <1>2, <1>3, <1>4, <1>5, <1>6, <1>7, <1>8, <1>9, <1>10, <1>11, <1>12,
             <1>13, <1>14 DEF Next, Handle

LEMMA InitIInv == Init => IInv
  <1> SUFFICES ASSUME Init PROVE IInv
    OBVIOUS
  <1>1. PICK n \in Name : /\ forUser = [ch \in Challenge |-> n]
                          /\ owner = [cr \in Credential |-> n]
                          /\ name = [h \in Handler |-> n]
    BY DEF Init
  <1>2. PICK cr \in Credential :
          /\ attested = [ch \in Challenge |-> [credential |-> cr, genuine |-> FALSE]]
          /\ target = [h \in Handler |-> cr]
    BY DEF Init
  <1>3. PICK c \in Challenge : /\ chal = [h \in Handler |-> c]
                              /\ through = [k \in Credential |-> c]
    BY DEF Init
  <1>4. TypeOK
    BY <1>1, <1>2, <1>3 DEF Init, TypeOK, Nonces!Init, Nonces!TypeOK, Waiting
  <1>5. NonceInv
    <2> SUFFICES ASSUME NEW ch \in Challenge PROVE uses[ch] <= 1 /\ uses[ch] = 0
      BY DEF NonceInv
    <2>1. uses[ch] = 0
      BY DEF Init, Nonces!Init
    <2>2. 0 <= 1
      OBVIOUS
    <2> QED BY <2>1, <2>2
  <1> QED BY <1>4, <1>5 DEF IInv, Init, Nonces!Init, MadeForUser, VerifiedInv,
                            RowsInv, OwnedByRegistrant, RevocationIsFinal

(* Enrolment's state always has its type.                                      *)
THEOREM TypeCorrect == Spec => []TypeOK
  <1>1. Init => TypeOK
    BY InitIInv DEF IInv
  <1>2. TypeOK /\ [Next]_vars => TypeOK'
    BY TypePreserved
  <1> QED BY <1>1, <1>2, PTL DEF Spec

-----------------------------------------------------------------------------
(* Registered survives what only adds users, attestations and uses that do not *)
(* belong to the passkey's challenge.                                          *)
LEMMA RegisteredKept ==
  ASSUME NEW cr, Registered(cr), users \subseteq users', posted \subseteq posted',
         owner'[cr] = owner[cr], through'[cr] = through[cr],
         \A ch \in posted : UNCHANGED <<attested[ch], forUser[ch]>>,
         \A ch \in posted : uses[ch] = 1 => uses'[ch] = 1
  PROVE  Registered(cr)'
  BY DEF Registered

(* Steps of the browsers, the clock and of handlers that only end.             *)
LEMMA QuietKeepsIInv ==
  ASSUME IInv, TypeOK', UNCHANGED <<issued, uses, forUser, users, owner, posted, attested>>,
         UNCHANGED <<credentials, through, revoked, name, chal, target>>, live' \subseteq live,
         \A h \in Handler : pc'[h] \in {pc[h], "idle"}
  PROVE  IInv'
  <1>1. NonceInv' /\ MadeForUser' /\ VerifiedInv'
    BY DEF IInv, NonceInv, MadeForUser, VerifiedInv
  <1>2. RowsInv'
    BY DEF IInv, RowsInv, OwnedByRegistrant, Registered, RevocationIsFinal
  <1> QED BY <1>1, <1>2 DEF IInv

LEMMA IInvPreserved == ASSUME IInv, [Next]_vars PROVE IInv'
  <1>0. TypeOK /\ TypeOK' /\ NonceInv /\ MadeForUser /\ VerifiedInv /\ RowsInv
    BY TypePreserved DEF IInv
  <1> USE DEF historyVars
  <1>1. ASSUME NEW h \in Handler, NEW n \in Name, SelectUser(h, n) PROVE IInv'
    <2>1. /\ UNCHANGED <<issued, live, uses, forUser, posted, attested, users, credentials,
                        owner, chal, target, through, revoked>>
          /\ \A g \in Handler : g # h => UNCHANGED <<pc[g], name[g]>>
          /\ pc'[h] \in {"list", "insert_user"} /\ name'[h] = n
          /\ pc'[h] = "list" => n \in users
      BY <1>0, <1>1 DEF SelectUser, Goto, nonceVars, browserVars, rowVars, TypeOK
    <2>2. NonceInv'
      BY <1>0, <2>1 DEF NonceInv
    <2>3. MadeForUser'
      BY <1>0, <2>1 DEF MadeForUser
    <2>4. VerifiedInv'
      BY <1>0, <2>1 DEF VerifiedInv
    <2>5. RowsInv'
      BY <1>0, <2>1 DEF RowsInv, OwnedByRegistrant, Registered, RevocationIsFinal
    <2> QED BY <1>0, <2>2, <2>3, <2>4, <2>5 DEF IInv
  <1>2. ASSUME NEW h \in Handler, InsertUser(h) PROVE IInv'
    <2>1. /\ UNCHANGED <<issued, live, uses, forUser, posted, attested, credentials,
                        owner, name, chal, target, through, revoked>>
          /\ \A g \in Handler : g # h => pc'[g] = pc[g]
          /\ pc'[h] \in {"list", "conflict"}
          /\ name[h] \in users' /\ users \subseteq users'
      BY <1>0, <1>2 DEF InsertUser, Goto, nonceVars, browserVars, rowVars, TypeOK
    <2>2. NonceInv'
      BY <1>0, <2>1 DEF NonceInv
    <2>3. MadeForUser'
      BY <1>0, <2>1 DEF MadeForUser
    <2>4. VerifiedInv'
      BY <1>0, <2>1 DEF VerifiedInv
    <2>5. RowsInv'
      BY <1>0, <2>1 DEF RowsInv, OwnedByRegistrant, Registered, RevocationIsFinal
    <2> QED BY <1>0, <2>2, <2>3, <2>4, <2>5 DEF IInv
  <1>3. ASSUME NEW h \in Handler, NEW ch \in Challenge, MakeOptions(h, ch) PROVE IInv'
    <2>1. /\ UNCHANGED <<issued, live, uses, forUser, posted, attested, users, credentials,
                        owner, name, target, through, revoked>>
          /\ \A g \in Handler : g # h => UNCHANGED <<pc[g], chal[g]>>
          /\ pc[h] = "list" /\ pc'[h] = "save" /\ chal'[h] = ch /\ ch \notin issued
          /\ \A g \in Handler : pc[g] = "save" => chal[g] # ch
      BY <1>0, <1>3 DEF MakeOptions, Goto, nonceVars, browserVars, rowVars, TypeOK
    <2>2. NonceInv'
      BY <1>0, <2>1 DEF NonceInv
    <2>3. MadeForUser'
      BY <1>0, <2>1 DEF MadeForUser
    <2>4. VerifiedInv'
      BY <1>0, <2>1 DEF VerifiedInv
    <2>5. RowsInv'
      BY <1>0, <2>1 DEF RowsInv, OwnedByRegistrant, Registered, RevocationIsFinal
    <2> QED BY <1>0, <2>2, <2>3, <2>4, <2>5 DEF IInv
  <1>4. ASSUME NEW h \in Handler, SaveChallenge(h) PROVE IInv'
    <2> DEFINE ch == chal[h]
    <2>1. /\ UNCHANGED <<uses, posted, attested, users, credentials, owner, name, chal,
                        target, through, revoked>>
          /\ \A g \in Handler : g # h => pc'[g] = pc[g]
          /\ pc[h] = "save" /\ pc'[h] = "idle"
          /\ ch \notin issued /\ issued' = issued \cup {ch} /\ live' = live \cup {ch}
          /\ forUser'[ch] = name[h]
          /\ \A c \in Challenge : c # ch => forUser'[c] = forUser[c]
      BY <1>0, <1>4 DEF SaveChallenge, Nonces!Issue, Goto, browserVars, rowVars, TypeOK
    <2>0. posted \subseteq issued /\ issued \subseteq Challenge /\ posted \subseteq Challenge
      BY <1>0 DEF MadeForUser, TypeOK, Nonces!TypeOK
    <2> HIDE DEF ch
    <2>2. NonceInv'
      BY <1>0, <2>1 DEF NonceInv
    <2>3. MadeForUser'
      <3>1. posted' \subseteq issued'
        BY <2>0, <2>1
      <3>2. \A c \in issued' : forUser'[c] \in users'
        BY <1>0, <2>0, <2>1 DEF MadeForUser
      <3>3. \A g \in Handler : pc'[g] = "save" => chal[g] # ch /\ g # h
        BY <1>0, <2>1 DEF MadeForUser, ch
      <3> QED BY <1>0, <2>1, <3>1, <3>2, <3>3 DEF MadeForUser
    <2>4. VerifiedInv'
      BY <1>0, <2>1 DEF VerifiedInv
    <2>5. ASSUME NEW cr \in credentials PROVE Registered(cr)'
      BY <1>0, <2>0, <2>1, RegisteredKept DEF RowsInv, OwnedByRegistrant
    <2>6. RowsInv'
      BY <1>0, <2>1, <2>5 DEF RowsInv, OwnedByRegistrant, RevocationIsFinal
    <2> QED BY <1>0, <2>2, <2>3, <2>4, <2>6 DEF IInv
  <1>5. ASSUME NEW h \in Handler, NEW ch \in Challenge, NEW n \in Name, Verify(h, ch, n)
        PROVE  IInv'
    <2>1. /\ UNCHANGED <<issued, forUser, posted, attested, users, credentials, owner,
                        target, through, revoked>>
          /\ \A g \in Handler : g # h => UNCHANGED <<pc[g], chal[g], name[g]>>
          /\ pc'[h] \in {"insert_credential", "idle"} /\ chal'[h] = ch
          /\ pc'[h] = "insert_credential" => attested[ch].genuine
          /\ ch \in posted /\ ch \in live /\ live' = live \ {ch}
          /\ \A c \in Challenge : c # ch => uses'[c] = uses[c]
          /\ uses'[ch] = uses[ch] + 1
      BY ZenonT(30), <1>0, <1>5 DEF Verify, Nonces!Spend, Goto, browserVars, rowVars, TypeOK,
                        Nonces!TypeOK
    <2>2. uses[ch] = 0 /\ uses'[ch] = 1
      BY <1>0, <2>1 DEF NonceInv
    <2>3. posted \subseteq issued /\ posted \subseteq Challenge
      BY <1>0, <2>1 DEF MadeForUser, TypeOK
    <2>4. NonceInv'
      <3> SUFFICES ASSUME NEW c \in Challenge
                   PROVE  uses'[c] <= 1 /\ (c \in live' \/ c \notin issued' => uses'[c] = 0)
        BY DEF NonceInv
      <3>1. CASE c = ch
        BY <2>1, <2>2, <2>3, <3>1
      <3>2. CASE c # ch
        BY <1>0, <2>1, <3>2 DEF NonceInv
      <3> QED BY <3>1, <3>2
    <2>5. MadeForUser'
      BY <1>0, <2>1 DEF MadeForUser
    <2>6. ch \notin revoked /\ \A cr \in credentials : through[cr] # ch
      BY <1>0, <2>2 DEF RowsInv, OwnedByRegistrant, Registered
    <2>7. VerifiedInv'
      <3>1. \A g \in Handler : g # h /\ pc[g] = "insert_credential" => chal[g] # ch
        BY <1>0, <2>2 DEF VerifiedInv
      <3>2. ASSUME NEW g \in Handler, g # h, pc'[g] = "insert_credential"
            PROVE  /\ chal[g] \in posted /\ attested[chal[g]].genuine /\ uses'[chal[g]] = 1
                   /\ chal[g] \notin revoked /\ \A cr \in credentials : through[cr] # chal[g]
        BY <1>0, <2>1, <2>3, <3>1, <3>2 DEF VerifiedInv
      <3>3. pc'[h] = "insert_credential" =>
              /\ ch \in posted /\ attested[ch].genuine /\ uses'[ch] = 1
              /\ ch \notin revoked /\ \A cr \in credentials : through[cr] # ch
        BY <2>1, <2>2, <2>6
      <3>4. ASSUME NEW g \in Handler, NEW f \in Handler, pc'[g] = "insert_credential",
                   pc'[f] = "insert_credential", chal'[g] = chal'[f]
            PROVE  f = g
        BY <1>0, <2>1, <3>1, <3>4 DEF VerifiedInv
      <3> QED BY <2>1, <3>2, <3>3, <3>4 DEF VerifiedInv
    <2>8. \A c \in posted : uses[c] = 1 => uses'[c] = 1
      BY <2>1, <2>2, <2>3
    <2>9. ASSUME NEW cr \in credentials PROVE Registered(cr)'
      BY <1>0, <2>1, <2>8, RegisteredKept DEF RowsInv, OwnedByRegistrant
    <2>10. RowsInv'
      BY <1>0, <2>1, <2>8, <2>9 DEF RowsInv, OwnedByRegistrant, RevocationIsFinal
    <2> QED BY <1>0, <2>4, <2>5, <2>7, <2>10 DEF IInv
  <1>6. ASSUME NEW h \in Handler, InsertCredential(h) PROVE IInv'
    <2>0. PICK cr \in Credential : cr = attested[chal[h]].credential
      BY <1>0 DEF TypeOK
    <2>1. /\ UNCHANGED <<issued, live, uses, forUser, posted, attested, users, name, chal,
                        target, revoked>>
          /\ \A g \in Handler : g # h => pc'[g] = pc[g]
          /\ pc[h] = "insert_credential" /\ pc'[h] = "idle"
          /\ credentials' = credentials \cup {cr}
          /\ \A c \in Credential : c # cr => owner'[c] = owner[c] /\ through'[c] = through[c]
          /\ owner'[cr] = forUser[chal[h]] /\ through'[cr] = chal[h] /\ cr \notin credentials
      <3>1. /\ pc \in [Handler -> Waiting \cup {"idle", "conflict"}]
            /\ owner \in [Credential -> Name] /\ through \in [Credential -> Challenge]
        BY <1>0 DEF TypeOK
      <3>2. /\ UNCHANGED <<nonceVars, browserVars, users, name, chal, target, revoked>>
            /\ pc[h] = "insert_credential"
            /\ pc' = [pc EXCEPT ![h] = "idle"]
            /\ credentials' = credentials \cup {cr}
            /\ owner' = [owner EXCEPT ![cr] = forUser[chal[h]]]
            /\ through' = [through EXCEPT ![cr] = chal[h]]
            /\ cr \notin credentials
        BY <1>6, <2>0 DEF InsertCredential, Registrant, Goto
      <3> QED BY <3>1, <3>2 DEF nonceVars, browserVars
    <2>2. /\ chal[h] \in posted /\ attested[chal[h]].genuine /\ uses[chal[h]] = 1
          /\ chal[h] \notin revoked
          /\ forUser[chal[h]] \in users
      BY <1>0, <2>1 DEF VerifiedInv, MadeForUser
    <2>3. credentials \subseteq Credential
      BY <1>0 DEF TypeOK
    <2>4. \A g \in Handler : g # h /\ pc[g] = "insert_credential" => chal[g] # chal[h]
      BY <1>0, <2>1 DEF VerifiedInv
    <2>5. NonceInv'
      BY <1>0, <2>1 DEF NonceInv
    <2>6. MadeForUser'
      BY <1>0, <2>1 DEF MadeForUser
    <2>7. VerifiedInv'
      <3>1. ASSUME NEW g \in Handler, pc'[g] = "insert_credential"
            PROVE  \A c \in credentials' : through'[c] # chal[g]
        BY <1>0, <2>1, <2>3, <2>4, <3>1 DEF VerifiedInv
      <3> QED BY <1>0, <2>1, <3>1 DEF VerifiedInv
    <2>8. Registered(cr)'
      BY <2>0, <2>1, <2>2 DEF Registered
    <2>9. ASSUME NEW c \in credentials PROVE Registered(c)'
      BY <1>0, <2>1, <2>3, RegisteredKept DEF RowsInv, OwnedByRegistrant
    <2>10. RowsInv'
      BY <1>0, <2>1, <2>2, <2>3, <2>8, <2>9 DEF RowsInv, OwnedByRegistrant, RevocationIsFinal
    <2> QED BY <1>0, <2>5, <2>6, <2>7, <2>10 DEF IInv
  <1>7. ASSUME NEW h \in Handler, NEW n \in Name, NEW cr \in Credential,
              NEW action \in {"rename", "delete"}, NEW text \in Nickname \cup {""},
              SelectCredential(h, n, cr, action, text)
        PROVE  IInv'
    <2>1. /\ UNCHANGED <<issued, live, uses, forUser, posted, attested, users, credentials,
                        owner, chal, through, revoked>>
          /\ \A g \in Handler : g # h => UNCHANGED <<pc[g], name[g], target[g]>>
          /\ pc'[h] \notin {"list", "save", "insert_credential"} /\ target'[h] \in credentials
      BY ZenonT(30), <1>0, <1>7
      DEF SelectCredential, Goto, nonceVars, browserVars, rowVars, TypeOK
    <2>2. NonceInv'
      BY <1>0, <2>1 DEF NonceInv
    <2>3. MadeForUser'
      <3>1. \A g \in Handler : pc'[g] \in {"list", "save"} =>
               g # h /\ pc'[g] = pc[g] /\ name'[g] = name[g]
        BY <2>1
      <3>2. posted' \subseteq issued' /\ \A c \in issued' : forUser'[c] \in users'
        BY <1>0, <2>1 DEF MadeForUser
      <3>3. ASSUME NEW g \in Handler, pc'[g] \in {"list", "save"}
            PROVE  name'[g] \in users'
        <4>1. pc[g] \in {"list", "save"} /\ name'[g] = name[g] /\ users' = users
          BY <2>1, <3>1, <3>3
        <4> QED BY <1>0, <4>1 DEF MadeForUser
      <3>4. ASSUME NEW g \in Handler, pc'[g] = "save" PROVE chal'[g] \notin issued'
        BY <1>0, <2>1, <3>1, <3>4 DEF MadeForUser
      <3>5. ASSUME NEW f \in Handler, NEW g \in Handler, pc'[f] = "save", pc'[g] = "save",
                   chal'[f] = chal'[g]
            PROVE  f = g
        <4>1. pc[f] = "save" /\ pc[g] = "save" /\ chal[f] = chal[g]
          BY <2>1, <3>1, <3>5
        <4> QED BY <1>0, <4>1 DEF MadeForUser
      <3> QED BY <3>2, <3>3, <3>4, <3>5 DEF MadeForUser
    <2>4. VerifiedInv'
      <3>1. \A g \in Handler :
               pc'[g] = "insert_credential" => pc[g] = "insert_credential"
        BY <2>1
      <3> QED BY <1>0, <2>1, <3>1 DEF VerifiedInv
    <2>5. ASSUME NEW c \in credentials PROVE Registered(c)'
      BY <1>0, <2>1 DEF RowsInv, OwnedByRegistrant, Registered
    <2>6. RowsInv'
      BY <1>0, <2>1, <2>5 DEF RowsInv, OwnedByRegistrant, RevocationIsFinal
    <2> QED BY <1>0, <2>2, <2>3, <2>4, <2>6 DEF IInv
  <1>8. ASSUME NEW h \in Handler, RenameCommit(h) PROVE IInv'
    BY ZenonT(30), <1>0, <1>8, QuietKeepsIInv
    DEF RenameCommit, Goto, nonceVars, browserVars, TypeOK
  <1>9. ASSUME NEW h \in Handler, DeleteCommit(h) PROVE IInv'
    <2>1. /\ UNCHANGED <<issued, live, uses, forUser, posted, attested, users, owner, name,
                        chal, target, through>>
          /\ \A g \in Handler : g # h => pc'[g] = pc[g]
          /\ pc[h] = "delete" /\ pc'[h] = "idle"
          /\ credentials' = credentials \ {target[h]}
          /\ \A ch \in revoked' : \/ ch \in revoked
                                  \/ target[h] \in credentials /\ ch = through[target[h]]
      BY <1>0, <1>9 DEF DeleteCommit, Goto, nonceVars, browserVars, TypeOK
    <2>2. NonceInv'
      BY <1>0, <2>1 DEF NonceInv
    <2>3. MadeForUser'
      BY <1>0, <2>1 DEF MadeForUser
    <2>4. VerifiedInv'
      BY <1>0, <2>1 DEF VerifiedInv
    <2>5. \A cr \in credentials' : Registered(cr)'
      BY <1>0, <2>1 DEF RowsInv, OwnedByRegistrant, Registered
    <2>6. \A ch \in revoked' : ch \in posted /\ uses[ch] = 1
      BY <1>0, <2>1 DEF RowsInv, OwnedByRegistrant, Registered
    <2>7. \A a, b \in credentials : through[a] = through[b] => a = b
      BY <1>0 DEF RowsInv, OwnedByRegistrant, Registered
    <2>8. RowsInv'
      BY <1>0, <2>1, <2>5, <2>6, <2>7 DEF RowsInv, OwnedByRegistrant, RevocationIsFinal
    <2> QED BY <1>0, <2>2, <2>3, <2>4, <2>8 DEF IInv
  <1>10. ASSUME NEW h \in Handler, Fail(h) \/ AnswerConflict(h) PROVE IInv'
    BY <1>0, <1>10, QuietKeepsIInv
    DEF Fail, AnswerConflict, Goto, nonceVars, browserVars, rowVars, TypeOK
  <1>11. ASSUME NEW ch \in Challenge, NEW cr \in Credential, NEW genuine \in BOOLEAN,
                Attest(ch, cr, genuine)
         PROVE  IInv'
    <2>1. /\ UNCHANGED <<issued, live, uses, forUser, users, credentials, owner, pc, name,
                        chal, target, through, revoked>>
          /\ ch \in issued /\ ch \notin posted /\ posted' = posted \cup {ch}
          /\ \A c \in posted : attested'[c] = attested[c]
      BY <1>0, <1>11 DEF Attest, nonceVars, rowVars, handlerVars, TypeOK
    <2>2. NonceInv'
      BY <1>0, <2>1 DEF NonceInv
    <2>3. MadeForUser'
      BY <1>0, <2>1 DEF MadeForUser
    <2>4. VerifiedInv'
      BY <1>0, <2>1 DEF VerifiedInv
    <2>5. ASSUME NEW c \in credentials PROVE Registered(c)'
      BY <1>0, <2>1, RegisteredKept DEF RowsInv, OwnedByRegistrant
    <2>6. RowsInv'
      BY <1>0, <2>1, <2>5 DEF RowsInv, OwnedByRegistrant, RevocationIsFinal
    <2> QED BY <1>0, <2>2, <2>3, <2>4, <2>6 DEF IInv
  <1>12. ASSUME NEW ch \in Challenge, Expire(ch) PROVE IInv'
    BY <1>0, <1>12, QuietKeepsIInv
    DEF Expire, Nonces!Forget, browserVars, rowVars, handlerVars
  <1>13. ASSUME Restart PROVE IInv'
    BY <1>0, <1>13, QuietKeepsIInv DEF Restart, Nonces!Forget, browserVars, rowVars, TypeOK
  <1>14. ASSUME UNCHANGED vars PROVE IInv'
    BY <1>0, <1>14, QuietKeepsIInv DEF vars, nonceVars, browserVars, rowVars, handlerVars
  <1> QED BY <1>1, <1>2, <1>3, <1>4, <1>5, <1>6, <1>7, <1>8, <1>9, <1>10, <1>11, <1>12,
             <1>13, <1>14 DEF Next, Handle

THEOREM Invariance == Spec => []IInv
  <1>1. IInv /\ [Next]_vars => IInv'
    BY IInvPreserved
  <1> QED BY InitIInv, <1>1, PTL DEF Spec

(* A passkey belongs to the user whose registration asked for it.              *)
THEOREM OwnedByRegistrantHolds == Spec => []OwnedByRegistrant
  <1>1. IInv => OwnedByRegistrant
    BY DEF IInv, RowsInv
  <1> QED BY Invariance, <1>1, PTL

(* A ceremony whose passkey was revoked is behind no passkey again.            *)
THEOREM RevocationIsFinalHolds == Spec => []RevocationIsFinal
  <1>1. IInv => RevocationIsFinal
    BY DEF IInv, RowsInv
  <1> QED BY Invariance, <1>1, PTL

-----------------------------------------------------------------------------
(* Every step of a registration is one of OneTimeNonce's, or none.             *)
LEMMA EnrolmentUsesNonces == IInv /\ [Next]_vars => [Nonces!Next]_(Nonces!vars)
  <1> SUFFICES ASSUME IInv, [Next]_vars
               PROVE  Nonces!Next \/ UNCHANGED Nonces!vars
    OBVIOUS
  <1> USE DEF Nonces!Next, Nonces!vars, nonceVars
  <1>1. \A h \in Handler : chal[h] \in Challenge
    BY DEF IInv, TypeOK
  <1>2. ASSUME NEW h \in Handler, SaveChallenge(h) PROVE Nonces!Issue(chal[h])
    BY <1>2 DEF SaveChallenge
  <1>3. ASSUME NEW h \in Handler, NEW ch \in Challenge, NEW n \in Name, Verify(h, ch, n)
        PROVE  Nonces!Spend(ch)
    BY <1>3 DEF Verify
  <1>4. ASSUME NEW ch \in Challenge, Expire(ch) PROVE Nonces!Next
    BY <1>4 DEF Expire
  <1>5. CASE Restart
    BY <1>5 DEF Restart
  <1>6. ASSUME NEW ch \in Challenge, NEW cr \in Credential, NEW genuine \in BOOLEAN,
               Attest(ch, cr, genuine)
        PROVE  UNCHANGED Nonces!vars
    BY <1>6 DEF Attest
  <1>7. ASSUME NEW h \in Handler, Handle(h), ~SaveChallenge(h),
               \A ch \in Challenge, n \in Name : ~Verify(h, ch, n)
        PROVE  UNCHANGED Nonces!vars
    BY <1>7 DEF Handle, SelectUser, InsertUser, MakeOptions, InsertCredential,
                SelectCredential, RenameCommit, DeleteCommit, Fail, AnswerConflict
  <1>8. CASE UNCHANGED vars
    BY <1>8 DEF vars
  <1> QED BY <1>1, <1>2, <1>3, <1>4, <1>5, <1>6, <1>7, <1>8 DEF Next

(* Registration, too, asks of its challenges only what OneTimeNonce promises,  *)
(* which the challenge store was shown to implement.                           *)
THEOREM UsesNonces == Spec => Nonces!Spec
  <1>1. Init => Nonces!Init
    BY DEF Init
  <1> QED BY <1>1, Invariance, EnrolmentUsesNonces, PTL DEF Spec, Nonces!Spec
=============================================================================
