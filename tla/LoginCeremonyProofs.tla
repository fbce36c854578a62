------------------------ MODULE LoginCeremonyProofs -------------------------
(* Proofs about LoginCeremony for any number of handlers, devices, users,      *)
(* credentials and challenges.                                                 *)
EXTENDS LoginCeremony, TLAPS

Verified(h) == pc[h] \in {"select", "commit", "user"}

(* A challenge is spent at most once, and only after it was issued.            *)
NonceInv ==
    \A ch \in Challenge : /\ uses[ch] <= 1
                          /\ ch \in live \/ ch \notin issued => uses[ch] = 0

(* What was posted answers an issued challenge, and it is a posted assertion   *)
(* of the loaded credential that a handler verifies.                           *)
PostedInv ==
    /\ posted \subseteq issued
    /\ \A h \in Handler : InLogin(h) =>
         chal[h] \in posted /\ target[h] = assertion[chal[h]].credential

(* The outcome of an assertion is decided when its challenge is spent.         *)
OutcomeInv ==
    /\ \A ch \in accepted : /\ ch \in posted /\ uses[ch] = 1
                            /\ assertion[ch].form = "good"
    /\ \A ch \in flagged : ch \in posted /\ uses[ch] = 1 /\ ch \notin accepted

(* One handler at most carries an accepted assertion on to its session.        *)
SessionInv ==
    /\ \A ch \in Challenge : sessions[ch] <= 1 /\ (sessions[ch] > 0 => ch \in accepted)
    /\ \A h \in Handler : Verified(h) =>
         /\ chal[h] \in accepted /\ sessions[chal[h]] = 0
         /\ \A g \in Handler : Verified(g) /\ chal[g] = chal[h] => g = h

(* A count that the credential's registration or an accepted assertion showed. *)
Genuine(cr, n) ==
    \/ n = InitialCount[cr]
    \/ \E a \in accepted : /\ assertion[a].credential = cr
                           /\ assertion[a].form = "good"
                           /\ Count(a) = n
                           /\ Count(a) > InitialCount[cr]

(* Every count the gateway holds, in the row or in a request, is genuine.      *)
CountInv ==
    /\ \A cr \in Credential : Genuine(cr, signCount[cr])
    /\ \A h \in Handler : pc[h] = "consume" => Genuine(target[h], stored[h])
    /\ \A a \in accepted : Genuine(assertion[a].credential, Count(a))

IInv ==
    /\ TypeOK
    /\ NonceInv
    /\ PostedInv
    /\ OutcomeInv
    /\ SessionInv
    /\ CountInv
    /\ AlarmHasCause

-----------------------------------------------------------------------------
(* A challenge is answered, with or without an authenticator.                  *)
PostsAnswer(ch) ==
    \E cr \in Credential :
        \/ \E d \in Device, form \in Form \ {"bad_signature"} : SignAndPost(ch, cr, d, form)
        \/ \E count \in 0..MaxCount : Forge(ch, cr, count)

(* Either way one assertion is posted, and the counters stay numbers.          *)
LEMMA PostsOne ==
  ASSUME TypeOK, NEW ch \in Challenge, PostsAnswer(ch)
  PROVE  /\ \E a \in Assertion : Post(ch, a)
         /\ devCount' \in [Credential -> [Device -> Nat]]
  <1> USE CeremonyAssumption DEF TypeOK
  <1>1. ASSUME NEW cr \in Credential, NEW d \in Device, NEW form \in Form,
               SignAndPost(ch, cr, d, form)
        PROVE  /\ \E a \in Assertion : Post(ch, a)
               /\ devCount' \in [Credential -> [Device -> Nat]]
    <2>1. devCount' \in [Credential -> [Device -> Nat]]
      <3>1. CASE cr \in Counterless
        BY <1>1, <3>1 DEF SignAndPost
      <3>2. CASE cr \notin Counterless
        <4> DEFINE counters == [devCount[cr] EXCEPT ![d] = devCount[cr][d] + 1]
        <4>1. devCount' = [devCount EXCEPT ![cr] = counters]
          BY <1>1, <3>2 DEF SignAndPost
        <4>2. devCount[cr] \in [Device -> Nat]
          OBVIOUS
        <4>3. counters \in [Device -> Nat]
          BY <4>2
        <4> HIDE DEF counters
        <4> QED BY <4>1, <4>3
      <3> QED BY <3>1, <3>2
    <2>2. devCount'[cr][d] \in Nat
      BY <2>1
    <2>3. [credential |-> cr, count |-> devCount'[cr][d], form |-> form] \in Assertion
      BY <2>2 DEF Assertion
    <2> QED BY <1>1, <2>1, <2>3 DEF SignAndPost
  <1>2. ASSUME NEW cr \in Credential, NEW count \in 0..MaxCount, Forge(ch, cr, count)
        PROVE  /\ \E a \in Assertion : Post(ch, a)
               /\ devCount' \in [Credential -> [Device -> Nat]]
    <2>1. [credential |-> cr, count |-> count, form |-> "bad_signature"] \in Assertion
      BY DEF Assertion, Form
    <2> QED BY <1>2, <2>1 DEF Forge
  <1> QED BY <1>1, <1>2 DEF PostsAnswer

(* Every action keeps the variables' types.                                    *)
LEMMA TypePreserved == ASSUME TypeOK, [Next]_vars PROVE TypeOK'
  <1> USE CeremonyAssumption DEF TypeOK, Nonces!TypeOK, Assertion, Form, Busy
  <1>1. ASSUME NEW ch \in Challenge, LoginOptions(ch) PROVE TypeOK'
    BY <1>1 DEF LoginOptions, Nonces!Issue, browserVars, rowVars, handlerVars, outcomeVars
  <1>2. ASSUME NEW ch \in Challenge, Expire(ch) PROVE TypeOK'
    BY <1>2 DEF Expire, Nonces!Forget, browserVars, rowVars, handlerVars, outcomeVars
  <1>3. ASSUME NEW ch \in Challenge, PostsAnswer(ch) PROVE TypeOK'
    <2>1. PICK a \in Assertion : Post(ch, a)
      BY <1>3, PostsOne
    <2>2. devCount' \in [Credential -> [Device -> Nat]]
      BY <1>3, PostsOne
    <2> QED BY <2>1, <2>2 DEF Post, nonceVars, rowVars, handlerVars, outcomeVars
  <1>4. ASSUME NEW h \in Handler, NEW ch \in Challenge, Lookup(h, ch) PROVE TypeOK'
    BY <1>4 DEF Lookup, InLogin, Goto, nonceVars, browserVars, rowVars
  <1>5. ASSUME NEW h \in Handler, RefuseChallenge(h) PROVE TypeOK'
    BY <1>5 DEF RefuseChallenge, Goto, nonceVars, browserVars, rowVars, outcomeVars
  <1>6. ASSUME NEW h \in Handler, Verify(h) PROVE TypeOK'
    <2>1. Nonces!TypeOK'
      BY <1>6 DEF Verify, Consume, Nonces!Spend
    <2>2. pc' \in [Handler -> Busy \cup {"idle"}]
      BY <1>6 DEF Verify, Goto
    <2>3. accepted' \in SUBSET Challenge /\ flagged' \in SUBSET Challenge
      BY <1>6 DEF Verify
    <2> QED BY <1>6, <2>1, <2>2, <2>3 DEF Verify, browserVars, rowVars
  <1>7. ASSUME NEW h \in Handler, UpdateSelect(h) PROVE TypeOK'
    <2>1. fresh' \in [Handler -> Nat]
      BY <1>7 DEF UpdateSelect, rowVars
    <2>2. pc' \in [Handler -> Busy \cup {"idle"}]
      BY <1>7 DEF UpdateSelect, Goto
    <2>3. UNCHANGED <<nonceVars, browserVars, rowVars, chal, target, stored, outcomeVars>>
      BY <1>7 DEF UpdateSelect
    <2> QED BY <2>1, <2>2, <2>3 DEF nonceVars, browserVars, rowVars, outcomeVars
  <1>8. ASSUME NEW h \in Handler, UpdateCommit(h) PROVE TypeOK'
    BY <1>8 DEF UpdateCommit, Goto, nonceVars, browserVars, outcomeVars
  <1>9. ASSUME NEW h \in Handler, StatementFails(h) PROVE TypeOK'
    BY <1>9 DEF StatementFails, Goto, nonceVars, browserVars, rowVars, outcomeVars
  <1>10. ASSUME NEW h \in Handler, IssueSession(h) PROVE TypeOK'
    BY <1>10 DEF IssueSession, Goto, nonceVars, browserVars, rowVars
  <1>11. ASSUME NEW h \in Handler, NEW cr \in Credential, DeleteSelect(h, cr) PROVE TypeOK'
    BY <1>11 DEF DeleteSelect, Goto, nonceVars, browserVars, rowVars, outcomeVars
  <1>12. ASSUME NEW h \in Handler, DeleteCommit(h) PROVE TypeOK'
    BY <1>12 DEF DeleteCommit, Goto, nonceVars, browserVars, outcomeVars
  <1>13. ASSUME Restart PROVE TypeOK'
    BY <1>13 DEF Restart, Nonces!Forget, browserVars, rowVars, outcomeVars
  <1>14. ASSUME UNCHANGED vars PROVE TypeOK'
    BY <1>14 DEF vars, nonceVars, browserVars, rowVars, handlerVars, outcomeVars
  <1> QED BY SMTT(30), <1>1, <1>2, <1>3, <1>4, <1>5, <1>6, <1>7, <1>8, <1>9, <1>10, <1>11,
             <1>12, <1>13, <1>14
          DEF Next, Handle, PostsAnswer

LEMMA InitType == Init => TypeOK
  <1> SUFFICES ASSUME Init PROVE TypeOK
    OBVIOUS
  <1>1. PICK cr \in Credential :
          /\ assertion = [ch \in Challenge |->
                            [credential |-> cr, count |-> 0, form |-> "good"]]
          /\ target = [h \in Handler |-> cr]
    BY DEF Init
  <1>2. PICK c \in Challenge : chal = [h \in Handler |-> c]
    BY DEF Init
  <1>3. devCount \in [Credential -> [Device -> Nat]]
    BY CeremonyAssumption DEF Init
  <1>4. assertion \in [Challenge -> Assertion]
    BY <1>1 DEF Assertion, Form
  <1> QED BY CeremonyAssumption, <1>1, <1>2, <1>3, <1>4
          DEF Init, TypeOK, Nonces!Init, Nonces!TypeOK, Busy

(* LoginCeremony's state always has its type.                                  *)
THEOREM TypeCorrect == Spec => []TypeOK
  <1>1. TypeOK /\ [Next]_vars => TypeOK'
    BY TypePreserved
  <1> QED BY InitType, <1>1, PTL DEF Spec

-----------------------------------------------------------------------------
(* Challenges stay one-time.                                                   *)
LEMMA NonceInvPreserved == ASSUME IInv, [Next]_vars PROVE NonceInv'
  <1> USE CeremonyAssumption DEF TypeOK, Nonces!TypeOK, Assertion, Form, Busy
  <1>0. TypeOK /\ TypeOK' /\ NonceInv
    BY TypePreserved DEF IInv
  <1>1. ASSUME NEW ch \in Challenge, LoginOptions(ch) PROVE NonceInv'
    BY <1>0, <1>1
    DEF LoginOptions, Nonces!Issue, browserVars, rowVars, handlerVars, outcomeVars,
        NonceInv
  <1>2. ASSUME NEW ch \in Challenge, Expire(ch) PROVE NonceInv'
    BY <1>0, <1>2
    DEF Expire, Nonces!Forget, browserVars, rowVars, handlerVars, outcomeVars,
        NonceInv
  <1>3. ASSUME NEW ch \in Challenge, PostsAnswer(ch) PROVE NonceInv'
    <2>1. PICK a \in Assertion : Post(ch, a)
      BY <1>0, <1>3, PostsOne
    <2> QED BY <1>0, <2>1
        DEF Post, nonceVars, rowVars, handlerVars, outcomeVars,
            NonceInv
  <1>4. ASSUME NEW h \in Handler, NEW ch \in Challenge, Lookup(h, ch) PROVE NonceInv'
    BY <1>0, <1>4
    DEF Lookup, InLogin, Goto, nonceVars, browserVars, rowVars,
        NonceInv
  <1>5. ASSUME NEW h \in Handler, RefuseChallenge(h) PROVE NonceInv'
    BY <1>0, <1>5
    DEF RefuseChallenge, Goto, nonceVars, browserVars, rowVars, outcomeVars,
        NonceInv
  <1>6. ASSUME NEW h \in Handler, Verify(h) PROVE NonceInv'
    BY <1>0, <1>6
    DEF Verify, Goto, Consume, Nonces!Spend, CounterViolated, browserVars, rowVars,
        NonceInv
  <1>7. ASSUME NEW h \in Handler, UpdateSelect(h) PROVE NonceInv'
    BY <1>0, <1>7
    DEF UpdateSelect, Goto, nonceVars, browserVars, rowVars, outcomeVars,
        NonceInv
  <1>8. ASSUME NEW h \in Handler, UpdateCommit(h) PROVE NonceInv'
    BY <1>0, <1>8
    DEF UpdateCommit, Goto, nonceVars, browserVars, outcomeVars,
        NonceInv
  <1>9. ASSUME NEW h \in Handler, StatementFails(h) PROVE NonceInv'
    BY <1>0, <1>9
    DEF StatementFails, Goto, nonceVars, browserVars, rowVars, outcomeVars,
        NonceInv
  <1>10. ASSUME NEW h \in Handler, IssueSession(h) PROVE NonceInv'
    BY <1>0, <1>10
    DEF IssueSession, Goto, nonceVars, browserVars, rowVars,
        NonceInv
  <1>11. ASSUME NEW h \in Handler, NEW cr \in Credential, DeleteSelect(h, cr) PROVE NonceInv'
    BY <1>0, <1>11
    DEF DeleteSelect, Goto, nonceVars, browserVars, rowVars, outcomeVars,
        NonceInv
  <1>12. ASSUME NEW h \in Handler, DeleteCommit(h) PROVE NonceInv'
    BY <1>0, <1>12
    DEF DeleteCommit, Goto, nonceVars, browserVars, outcomeVars,
        NonceInv
  <1>13. ASSUME Restart PROVE NonceInv'
    BY <1>0, <1>13
    DEF Restart, Nonces!Forget, browserVars, rowVars, outcomeVars,
        NonceInv
  <1>14. ASSUME UNCHANGED vars PROVE NonceInv'
    BY <1>0, <1>14
    DEF vars, nonceVars, browserVars, rowVars, handlerVars, outcomeVars,
        NonceInv
  <1> QED BY <1>1, <1>2, <1>3, <1>4, <1>5, <1>6, <1>7, <1>8, <1>9, <1>10, <1>11, <1>12,
             <1>13, <1>14
          DEF Next, Handle, PostsAnswer

(* Handlers keep verifying what was posted.                                    *)
LEMMA PostedInvPreserved == ASSUME IInv, [Next]_vars PROVE PostedInv'
  <1> USE CeremonyAssumption DEF TypeOK, Nonces!TypeOK, Assertion, Form, Busy
  <1>0. TypeOK /\ TypeOK' /\ PostedInv
    BY TypePreserved DEF IInv
  <1>1. ASSUME NEW ch \in Challenge, LoginOptions(ch) PROVE PostedInv'
    BY <1>0, <1>1
    DEF LoginOptions, Nonces!Issue, browserVars, rowVars, handlerVars, outcomeVars,
        PostedInv, InLogin
  <1>2. ASSUME NEW ch \in Challenge, Expire(ch) PROVE PostedInv'
    BY <1>0, <1>2
    DEF Expire, Nonces!Forget, browserVars, rowVars, handlerVars, outcomeVars,
        PostedInv, InLogin
  <1>3. ASSUME NEW ch \in Challenge, PostsAnswer(ch) PROVE PostedInv'
    <2>1. PICK a \in Assertion : Post(ch, a)
      BY <1>0, <1>3, PostsOne
    <2> QED BY <1>0, <2>1
        DEF Post, nonceVars, rowVars, handlerVars, outcomeVars,
            PostedInv, InLogin
  <1>4. ASSUME NEW h \in Handler, NEW ch \in Challenge, Lookup(h, ch) PROVE PostedInv'
    BY <1>0, <1>4
    DEF Lookup, InLogin, Goto, nonceVars, browserVars, rowVars,
        PostedInv, InLogin
  <1>5. ASSUME NEW h \in Handler, RefuseChallenge(h) PROVE PostedInv'
    BY <1>0, <1>5
    DEF RefuseChallenge, Goto, nonceVars, browserVars, rowVars, outcomeVars,
        PostedInv, InLogin
  <1>6. ASSUME NEW h \in Handler, Verify(h) PROVE PostedInv'
    BY <1>0, <1>6
    DEF Verify, Goto, Consume, Nonces!Spend, CounterViolated, browserVars, rowVars,
        PostedInv, InLogin
  <1>7. ASSUME NEW h \in Handler, UpdateSelect(h) PROVE PostedInv'
    BY <1>0, <1>7
    DEF UpdateSelect, Goto, nonceVars, browserVars, rowVars, outcomeVars,
        PostedInv, InLogin
  <1>8. ASSUME NEW h \in Handler, UpdateCommit(h) PROVE PostedInv'
    BY <1>0, <1>8
    DEF UpdateCommit, Goto, nonceVars, browserVars, outcomeVars,
        PostedInv, InLogin
  <1>9. ASSUME NEW h \in Handler, StatementFails(h) PROVE PostedInv'
    BY <1>0, <1>9
    DEF StatementFails, Goto, nonceVars, browserVars, rowVars, outcomeVars,
        PostedInv, InLogin
  <1>10. ASSUME NEW h \in Handler, IssueSession(h) PROVE PostedInv'
    BY <1>0, <1>10
    DEF IssueSession, Goto, nonceVars, browserVars, rowVars,
        PostedInv, InLogin
  <1>11. ASSUME NEW h \in Handler, NEW cr \in Credential, DeleteSelect(h, cr) PROVE PostedInv'
    BY <1>0, <1>11
    DEF DeleteSelect, Goto, nonceVars, browserVars, rowVars, outcomeVars,
        PostedInv, InLogin
  <1>12. ASSUME NEW h \in Handler, DeleteCommit(h) PROVE PostedInv'
    BY <1>0, <1>12
    DEF DeleteCommit, Goto, nonceVars, browserVars, outcomeVars,
        PostedInv, InLogin
  <1>13. ASSUME Restart PROVE PostedInv'
    BY <1>0, <1>13
    DEF Restart, Nonces!Forget, browserVars, rowVars, outcomeVars,
        PostedInv, InLogin
  <1>14. ASSUME UNCHANGED vars PROVE PostedInv'
    BY <1>0, <1>14
    DEF vars, nonceVars, browserVars, rowVars, handlerVars, outcomeVars,
        PostedInv, InLogin
  <1> QED BY <1>1, <1>2, <1>3, <1>4, <1>5, <1>6, <1>7, <1>8, <1>9, <1>10, <1>11, <1>12,
             <1>13, <1>14
          DEF Next, Handle, PostsAnswer

(* Outcomes stay decided.                                                      *)
LEMMA OutcomeInvPreserved == ASSUME IInv, [Next]_vars PROVE OutcomeInv'
  <1> USE CeremonyAssumption DEF TypeOK, Nonces!TypeOK, Assertion, Form, Busy
  <1>0. TypeOK /\ TypeOK' /\ NonceInv /\ PostedInv /\ OutcomeInv /\ SessionInv
    BY TypePreserved DEF IInv
  <1>1. ASSUME NEW ch \in Challenge, LoginOptions(ch) PROVE OutcomeInv'
    BY <1>0, <1>1
    DEF LoginOptions, Nonces!Issue, browserVars, rowVars, handlerVars, outcomeVars,
        NonceInv, PostedInv, OutcomeInv, InLogin, Verified
  <1>2. ASSUME NEW ch \in Challenge, Expire(ch) PROVE OutcomeInv'
    BY <1>0, <1>2
    DEF Expire, Nonces!Forget, browserVars, rowVars, handlerVars, outcomeVars,
        NonceInv, PostedInv, OutcomeInv, InLogin, Verified
  <1>3. ASSUME NEW ch \in Challenge, PostsAnswer(ch) PROVE OutcomeInv'
    <2>1. PICK a \in Assertion : Post(ch, a)
      BY <1>0, <1>3, PostsOne
    <2> QED BY <1>0, <2>1
        DEF Post, nonceVars, rowVars, handlerVars, outcomeVars,
            NonceInv, PostedInv, OutcomeInv, InLogin, Verified
  <1>4. ASSUME NEW h \in Handler, NEW ch \in Challenge, Lookup(h, ch) PROVE OutcomeInv'
    BY <1>0, <1>4
    DEF Lookup, InLogin, Goto, nonceVars, browserVars, rowVars,
        NonceInv, PostedInv, OutcomeInv, InLogin, Verified
  <1>5. ASSUME NEW h \in Handler, RefuseChallenge(h) PROVE OutcomeInv'
    BY <1>0, <1>5
    DEF RefuseChallenge, Goto, nonceVars, browserVars, rowVars, outcomeVars,
        NonceInv, PostedInv, OutcomeInv, InLogin, Verified
  <1>6. ASSUME NEW h \in Handler, Verify(h) PROVE OutcomeInv'
    BY <1>0, <1>6
    DEF Verify, Goto, Consume, Nonces!Spend, CounterViolated, browserVars, rowVars,
        NonceInv, PostedInv, OutcomeInv, InLogin, Verified
  <1>7. ASSUME NEW h \in Handler, UpdateSelect(h) PROVE OutcomeInv'
    BY <1>0, <1>7
    DEF UpdateSelect, Goto, nonceVars, browserVars, rowVars, outcomeVars,
        NonceInv, PostedInv, OutcomeInv, InLogin, Verified
  <1>8. ASSUME NEW h \in Handler, UpdateCommit(h) PROVE OutcomeInv'
    BY <1>0, <1>8
    DEF UpdateCommit, Goto, nonceVars, browserVars, outcomeVars,
        NonceInv, PostedInv, OutcomeInv, InLogin, Verified
  <1>9. ASSUME NEW h \in Handler, StatementFails(h) PROVE OutcomeInv'
    BY <1>0, <1>9
    DEF StatementFails, Goto, nonceVars, browserVars, rowVars, outcomeVars,
        NonceInv, PostedInv, OutcomeInv, InLogin, Verified
  <1>10. ASSUME NEW h \in Handler, IssueSession(h) PROVE OutcomeInv'
    BY <1>0, <1>10
    DEF IssueSession, Goto, nonceVars, browserVars, rowVars,
        NonceInv, PostedInv, OutcomeInv, InLogin, Verified
  <1>11. ASSUME NEW h \in Handler, NEW cr \in Credential, DeleteSelect(h, cr) PROVE OutcomeInv'
    BY <1>0, <1>11
    DEF DeleteSelect, Goto, nonceVars, browserVars, rowVars, outcomeVars,
        NonceInv, PostedInv, OutcomeInv, InLogin, Verified
  <1>12. ASSUME NEW h \in Handler, DeleteCommit(h) PROVE OutcomeInv'
    BY <1>0, <1>12
    DEF DeleteCommit, Goto, nonceVars, browserVars, outcomeVars,
        NonceInv, PostedInv, OutcomeInv, InLogin, Verified
  <1>13. ASSUME Restart PROVE OutcomeInv'
    BY <1>0, <1>13
    DEF Restart, Nonces!Forget, browserVars, rowVars, outcomeVars,
        NonceInv, PostedInv, OutcomeInv, InLogin, Verified
  <1>14. ASSUME UNCHANGED vars PROVE OutcomeInv'
    BY <1>0, <1>14
    DEF vars, nonceVars, browserVars, rowVars, handlerVars, outcomeVars,
        NonceInv, PostedInv, OutcomeInv, InLogin, Verified
  <1> QED BY <1>1, <1>2, <1>3, <1>4, <1>5, <1>6, <1>7, <1>8, <1>9, <1>10, <1>11, <1>12,
             <1>13, <1>14
          DEF Next, Handle, PostsAnswer

(* A session is given to one handler's accepted assertion, once.               *)
LEMMA SessionInvPreserved == ASSUME IInv, [Next]_vars PROVE SessionInv'
  <1> USE CeremonyAssumption DEF TypeOK, Nonces!TypeOK, Assertion, Form, Busy
  <1>0. TypeOK /\ TypeOK' /\ NonceInv /\ PostedInv /\ OutcomeInv /\ SessionInv
    BY TypePreserved DEF IInv
  <1>1. ASSUME NEW ch \in Challenge, LoginOptions(ch) PROVE SessionInv'
    BY <1>0, <1>1
    DEF LoginOptions, Nonces!Issue, browserVars, rowVars, handlerVars, outcomeVars,
        NonceInv, PostedInv, OutcomeInv, SessionInv, InLogin, Verified
  <1>2. ASSUME NEW ch \in Challenge, Expire(ch) PROVE SessionInv'
    BY <1>0, <1>2
    DEF Expire, Nonces!Forget, browserVars, rowVars, handlerVars, outcomeVars,
        NonceInv, PostedInv, OutcomeInv, SessionInv, InLogin, Verified
  <1>3. ASSUME NEW ch \in Challenge, PostsAnswer(ch) PROVE SessionInv'
    <2>1. PICK a \in Assertion : Post(ch, a)
      BY <1>0, <1>3, PostsOne
    <2> QED BY <1>0, <2>1
        DEF Post, nonceVars, rowVars, handlerVars, outcomeVars,
            NonceInv, PostedInv, OutcomeInv, SessionInv, InLogin, Verified
  <1>4. ASSUME NEW h \in Handler, NEW ch \in Challenge, Lookup(h, ch) PROVE SessionInv'
    BY <1>0, <1>4
    DEF Lookup, InLogin, Goto, nonceVars, browserVars, rowVars,
        NonceInv, PostedInv, OutcomeInv, SessionInv, InLogin, Verified
  <1>5. ASSUME NEW h \in Handler, RefuseChallenge(h) PROVE SessionInv'
    BY <1>0, <1>5
    DEF RefuseChallenge, Goto, nonceVars, browserVars, rowVars, outcomeVars,
        NonceInv, PostedInv, OutcomeInv, SessionInv, InLogin, Verified
  <1>6. ASSUME NEW h \in Handler, Verify(h) PROVE SessionInv'
    BY <1>0, <1>6
    DEF Verify, Goto, Consume, Nonces!Spend, CounterViolated, browserVars, rowVars,
        NonceInv, PostedInv, OutcomeInv, SessionInv, InLogin, Verified
  <1>7. ASSUME NEW h \in Handler, UpdateSelect(h) PROVE SessionInv'
    BY <1>0, <1>7
    DEF UpdateSelect, Goto, nonceVars, browserVars, rowVars, outcomeVars,
        NonceInv, PostedInv, OutcomeInv, SessionInv, InLogin, Verified
  <1>8. ASSUME NEW h \in Handler, UpdateCommit(h) PROVE SessionInv'
    BY <1>0, <1>8
    DEF UpdateCommit, Goto, nonceVars, browserVars, outcomeVars,
        NonceInv, PostedInv, OutcomeInv, SessionInv, InLogin, Verified
  <1>9. ASSUME NEW h \in Handler, StatementFails(h) PROVE SessionInv'
    BY <1>0, <1>9
    DEF StatementFails, Goto, nonceVars, browserVars, rowVars, outcomeVars,
        NonceInv, PostedInv, OutcomeInv, SessionInv, InLogin, Verified
  <1>10. ASSUME NEW h \in Handler, IssueSession(h) PROVE SessionInv'
    BY <1>0, <1>10
    DEF IssueSession, Goto, nonceVars, browserVars, rowVars,
        NonceInv, PostedInv, OutcomeInv, SessionInv, InLogin, Verified
  <1>11. ASSUME NEW h \in Handler, NEW cr \in Credential, DeleteSelect(h, cr) PROVE SessionInv'
    BY <1>0, <1>11
    DEF DeleteSelect, Goto, nonceVars, browserVars, rowVars, outcomeVars,
        NonceInv, PostedInv, OutcomeInv, SessionInv, InLogin, Verified
  <1>12. ASSUME NEW h \in Handler, DeleteCommit(h) PROVE SessionInv'
    BY <1>0, <1>12
    DEF DeleteCommit, Goto, nonceVars, browserVars, outcomeVars,
        NonceInv, PostedInv, OutcomeInv, SessionInv, InLogin, Verified
  <1>13. ASSUME Restart PROVE SessionInv'
    BY <1>0, <1>13
    DEF Restart, Nonces!Forget, browserVars, rowVars, outcomeVars,
        NonceInv, PostedInv, OutcomeInv, SessionInv, InLogin, Verified
  <1>14. ASSUME UNCHANGED vars PROVE SessionInv'
    BY <1>0, <1>14
    DEF vars, nonceVars, browserVars, rowVars, handlerVars, outcomeVars,
        NonceInv, PostedInv, OutcomeInv, SessionInv, InLogin, Verified
  <1> QED BY <1>1, <1>2, <1>3, <1>4, <1>5, <1>6, <1>7, <1>8, <1>9, <1>10, <1>11, <1>12,
             <1>13, <1>14
          DEF Next, Handle, PostsAnswer

(* A genuine count stays genuine: accepted assertions are never forgotten nor  *)
(* changed.                                                                    *)
LEMMA GenuineKept ==
  ASSUME accepted \subseteq accepted',
         \A a \in accepted : assertion'[a] = assertion[a],
         NEW cr, NEW n, Genuine(cr, n)
  PROVE  Genuine(cr, n)'
  BY DEF Genuine, Count

(* Steps that neither load, accept nor write a count keep CountInv.            *)
LEMMA QuietKeepsCounts ==
  ASSUME TypeOK, CountInv, UNCHANGED <<accepted, signCount>>,
         \A a \in accepted : assertion'[a] = assertion[a],
         \A h \in Handler : pc'[h] = "consume" =>
            pc[h] = "consume" /\ target'[h] = target[h] /\ stored'[h] = stored[h]
  PROVE  CountInv'
  <1>1. \A cr \in Credential : Genuine(cr, signCount[cr])'
    BY GenuineKept DEF CountInv
  <1>2. ASSUME NEW h \in Handler, pc'[h] = "consume"
        PROVE  Genuine(target[h], stored[h])'
    BY <1>2, GenuineKept DEF CountInv
  <1>3. ASSUME NEW a \in accepted
        PROVE  Genuine(assertion[a].credential, Count(a))'
    BY <1>3, GenuineKept DEF CountInv, Count
  <1> QED BY <1>1, <1>2, <1>3 DEF CountInv

(* Counts stay genuine.                                                        *)
LEMMA CountInvPreserved == ASSUME IInv, [Next]_vars PROVE CountInv'
  <1>0. TypeOK /\ TypeOK' /\ PostedInv /\ OutcomeInv /\ CountInv
    BY TypePreserved DEF IInv
  <1> USE DEF TypeOK, Nonces!TypeOK, Busy
  <1>1. ASSUME NEW ch \in Challenge, LoginOptions(ch) PROVE CountInv'
    BY <1>0, <1>1, QuietKeepsCounts
    DEF LoginOptions, Nonces!Issue, browserVars, rowVars, handlerVars, outcomeVars
  <1>2. ASSUME NEW ch \in Challenge, Expire(ch) PROVE CountInv'
    BY <1>0, <1>2, QuietKeepsCounts
    DEF Expire, Nonces!Forget, browserVars, rowVars, handlerVars, outcomeVars
  <1>3. ASSUME NEW ch \in Challenge, PostsAnswer(ch) PROVE CountInv'
    <2>1. PICK a \in Assertion : Post(ch, a)
      BY <1>0, <1>3, PostsOne
    <2> QED BY <1>0, <2>1, QuietKeepsCounts
        DEF Post, nonceVars, rowVars, handlerVars, outcomeVars, PostedInv, OutcomeInv
  <1>4. ASSUME NEW h \in Handler, NEW ch \in Challenge, Lookup(h, ch) PROVE CountInv'
    <2>1. UNCHANGED <<accepted, assertion, signCount>>
      BY <1>4 DEF Lookup, browserVars, rowVars
    <2>2. ASSUME NEW g \in Handler, pc'[g] = "consume"
          PROVE  Genuine(target'[g], stored'[g])
      <3>1. CASE g = h
        BY <1>0, <1>4, <3>1 DEF Lookup, CountInv, Assertion
      <3>2. CASE g # h
        BY <1>0, <1>4, <2>2, <3>2 DEF Lookup, Goto, CountInv
      <3> QED BY <3>1, <3>2
    <2> QED BY <1>0, <2>1, <2>2 DEF CountInv, Genuine, Count
  <1>5. ASSUME NEW h \in Handler, RefuseChallenge(h) PROVE CountInv'
    BY <1>0, <1>5, QuietKeepsCounts
    DEF RefuseChallenge, Goto, nonceVars, browserVars, rowVars, outcomeVars
  <1>6. ASSUME NEW h \in Handler, Verify(h) PROVE CountInv'
    <2>1. UNCHANGED <<assertion, signCount, target, stored>> /\ accepted \subseteq accepted'
      BY <1>6 DEF Verify, browserVars, rowVars
    <2>2. \A cr \in Credential : Genuine(cr, signCount[cr])'
      BY <1>0, <2>1, GenuineKept DEF CountInv
    <2>3. ASSUME NEW g \in Handler, pc'[g] = "consume"
          PROVE  Genuine(target[g], stored[g])'
      <3>1. pc[g] = "consume"
        BY <1>0, <1>6, <2>3 DEF Verify, Goto
      <3> QED BY <1>0, <2>1, <3>1, GenuineKept DEF CountInv
    <2>4. ASSUME NEW a \in accepted'
          PROVE  Genuine(assertion[a].credential, Count(a))'
      <3>1. CASE a \in accepted
        BY <1>0, <2>1, <3>1, GenuineKept DEF CountInv, Count
      <3>2. CASE a \notin accepted
        <4>1. /\ a = chal[h] /\ pc[h] = "consume" /\ ~CounterViolated(h)
              /\ assertion[a].form = "good"
          BY <1>6, <2>4, <3>2 DEF Verify
        <4>2. Genuine(target[h], stored[h]) /\ target[h] = assertion[a].credential
          BY <1>0, <4>1 DEF CountInv, PostedInv, InLogin
        <4>3. /\ Count(a) \in Nat /\ stored[h] \in Nat
              /\ target[h] \in Credential /\ InitialCount[target[h]] \in Nat
          BY <1>0, <4>1, CeremonyAssumption DEF Assertion, Count
        <4>4. Count(a) > stored[h] \/ (Count(a) = 0 /\ stored[h] = 0)
          BY <4>1, <4>3 DEF CounterViolated, Count
        <4>5. stored[h] >= InitialCount[target[h]]
          BY <4>2, <4>3 DEF Genuine
        <4>6. Count(a) > InitialCount[target[h]] \/ Count(a) = InitialCount[target[h]]
          BY <4>3, <4>4, <4>5
        <4> QED BY <2>1, <2>4, <4>1, <4>2, <4>6 DEF Genuine, Count
      <3> QED BY <3>1, <3>2
    <2> QED BY <2>2, <2>3, <2>4 DEF CountInv
  <1>7. ASSUME NEW h \in Handler, UpdateSelect(h) PROVE CountInv'
    BY <1>0, <1>7, QuietKeepsCounts
    DEF UpdateSelect, Goto, nonceVars, browserVars, rowVars, outcomeVars
  <1>8. ASSUME NEW h \in Handler, UpdateCommit(h) PROVE CountInv'
    <2>1. UNCHANGED <<accepted, assertion, target, stored>>
      BY <1>8 DEF UpdateCommit, browserVars, outcomeVars
    <2>2. ASSUME NEW g \in Handler, pc'[g] = "consume" PROVE pc[g] = "consume"
      BY <1>0, <1>8, <2>2 DEF UpdateCommit, Goto
    <2>3. chal[h] \in accepted /\ target[h] = assertion[chal[h]].credential
      BY <1>8 DEF UpdateCommit, IInv, SessionInv, PostedInv, Verified, InLogin
    <2>4. \A cr \in Credential : Genuine(cr, signCount'[cr])
      BY <1>0, <1>8, <2>3 DEF UpdateCommit, CountInv, Count
    <2> QED BY <1>0, <2>1, <2>2, <2>4 DEF CountInv, Genuine, Count
  <1>9. ASSUME NEW h \in Handler, StatementFails(h) PROVE CountInv'
    BY <1>0, <1>9, QuietKeepsCounts
    DEF StatementFails, Goto, nonceVars, browserVars, rowVars, outcomeVars
  <1>10. ASSUME NEW h \in Handler, IssueSession(h) PROVE CountInv'
    BY <1>0, <1>10, QuietKeepsCounts
    DEF IssueSession, Goto, nonceVars, browserVars, rowVars
  <1>11. ASSUME NEW h \in Handler, NEW cr \in Credential, DeleteSelect(h, cr) PROVE CountInv'
    BY <1>0, <1>11, QuietKeepsCounts
    DEF DeleteSelect, Goto, nonceVars, browserVars, rowVars, outcomeVars
  <1>12. ASSUME NEW h \in Handler, DeleteCommit(h) PROVE CountInv'
    BY <1>0, <1>12, QuietKeepsCounts
    DEF DeleteCommit, Goto, nonceVars, browserVars, outcomeVars
  <1>13. ASSUME Restart PROVE CountInv'
    BY <1>0, <1>13, QuietKeepsCounts
    DEF Restart, Nonces!Forget, browserVars, rowVars, outcomeVars
  <1>14. ASSUME UNCHANGED vars PROVE CountInv'
    BY <1>0, <1>14, QuietKeepsCounts
    DEF vars, nonceVars, browserVars, rowVars, handlerVars, outcomeVars
  <1> QED BY <1>1, <1>2, <1>3, <1>4, <1>5, <1>6, <1>7, <1>8, <1>9, <1>10, <1>11, <1>12,
             <1>13, <1>14
          DEF Next, Handle, PostsAnswer

(* An alarm keeps its cause.                                                   *)
LEMMA CauseKept ==
  ASSUME AlarmHasCause, accepted \subseteq accepted', flagged' = flagged,
         \A a \in accepted \cup flagged : assertion'[a] = assertion[a]
  PROVE  AlarmHasCause'
  BY DEF AlarmHasCause, SameCredential, Count

(* Every alarm has a cause when it is raised, and keeps it.                    *)
LEMMA AlarmHasCausePreserved == ASSUME IInv, [Next]_vars PROVE AlarmHasCause'
  <1>0. TypeOK /\ NonceInv /\ PostedInv /\ OutcomeInv /\ CountInv /\ AlarmHasCause
    BY DEF IInv
  <1> USE DEF TypeOK, Nonces!TypeOK, Busy
  <1>1. ASSUME NEW ch \in Challenge, LoginOptions(ch) PROVE AlarmHasCause'
    BY <1>0, <1>1, CauseKept
    DEF LoginOptions, Nonces!Issue, browserVars, rowVars, handlerVars, outcomeVars
  <1>2. ASSUME NEW ch \in Challenge, Expire(ch) PROVE AlarmHasCause'
    BY <1>0, <1>2, CauseKept
    DEF Expire, Nonces!Forget, browserVars, rowVars, handlerVars, outcomeVars
  <1>3. ASSUME NEW ch \in Challenge, PostsAnswer(ch) PROVE AlarmHasCause'
    <2>1. PICK a \in Assertion : Post(ch, a)
      BY <1>0, <1>3, PostsOne
    <2> QED BY <1>0, <2>1, CauseKept
        DEF Post, nonceVars, rowVars, handlerVars, outcomeVars, PostedInv, OutcomeInv
  <1>4. ASSUME NEW h \in Handler, NEW ch \in Challenge, Lookup(h, ch) PROVE AlarmHasCause'
    BY <1>0, <1>4, CauseKept
    DEF Lookup, InLogin, Goto, nonceVars, browserVars, rowVars
  <1>5. ASSUME NEW h \in Handler, RefuseChallenge(h) PROVE AlarmHasCause'
    BY <1>0, <1>5, CauseKept
    DEF RefuseChallenge, Goto, nonceVars, browserVars, rowVars, outcomeVars
  <1>6. ASSUME NEW h \in Handler, Verify(h) PROVE AlarmHasCause'
    <2>1. UNCHANGED assertion /\ accepted \subseteq accepted'
      BY <1>6 DEF Verify, browserVars
    <2>2. ASSUME NEW a \in flagged', a \notin flagged
          PROVE  \/ InitialCount[assertion[a].credential] >= Count(a)
                 \/ \E b \in accepted :
                       b # a /\ SameCredential(a, b) /\ Count(b) >= Count(a)
      <3>1. a = chal[h] /\ pc[h] = "consume" /\ a \in live /\ CounterViolated(h)
        BY <1>6, <2>2 DEF Verify, Consume, Nonces!Spend
      <3>2. a \notin accepted
        BY <1>0, <3>1 DEF NonceInv, OutcomeInv
      <3>3. Genuine(target[h], stored[h]) /\ target[h] = assertion[a].credential
        BY <1>0, <3>1 DEF CountInv, PostedInv, InLogin
      <3>4. Count(a) \in Nat /\ stored[h] \in Nat /\ Count(a) <= stored[h]
        BY <1>0, <3>1 DEF CounterViolated, Count, Assertion
      <3> QED BY <3>2, <3>3, <3>4 DEF Genuine, SameCredential
    <2>3. \A a \in flagged : \/ InitialCount[assertion[a].credential] >= Count(a)
                             \/ \E b \in accepted :
                                   b # a /\ SameCredential(a, b) /\ Count(b) >= Count(a)
      BY <1>0 DEF AlarmHasCause
    <2> QED BY <2>1, <2>2, <2>3 DEF AlarmHasCause, SameCredential, Count
  <1>7. ASSUME NEW h \in Handler, UpdateSelect(h) PROVE AlarmHasCause'
    BY <1>0, <1>7, CauseKept
    DEF UpdateSelect, Goto, nonceVars, browserVars, rowVars, outcomeVars
  <1>8. ASSUME NEW h \in Handler, UpdateCommit(h) PROVE AlarmHasCause'
    BY <1>0, <1>8, CauseKept
    DEF UpdateCommit, Goto, nonceVars, browserVars, outcomeVars
  <1>9. ASSUME NEW h \in Handler, StatementFails(h) PROVE AlarmHasCause'
    BY <1>0, <1>9, CauseKept
    DEF StatementFails, Goto, nonceVars, browserVars, rowVars, outcomeVars
  <1>10. ASSUME NEW h \in Handler, IssueSession(h) PROVE AlarmHasCause'
    BY <1>0, <1>10, CauseKept
    DEF IssueSession, Goto, nonceVars, browserVars, rowVars
  <1>11. ASSUME NEW h \in Handler, NEW cr \in Credential, DeleteSelect(h, cr) PROVE AlarmHasCause'
    BY <1>0, <1>11, CauseKept
    DEF DeleteSelect, Goto, nonceVars, browserVars, rowVars, outcomeVars
  <1>12. ASSUME NEW h \in Handler, DeleteCommit(h) PROVE AlarmHasCause'
    BY <1>0, <1>12, CauseKept
    DEF DeleteCommit, Goto, nonceVars, browserVars, outcomeVars
  <1>13. ASSUME Restart PROVE AlarmHasCause'
    BY <1>0, <1>13, CauseKept
    DEF Restart, Nonces!Forget, browserVars, rowVars, outcomeVars
  <1>14. ASSUME UNCHANGED vars PROVE AlarmHasCause'
    BY <1>0, <1>14, CauseKept
    DEF vars, nonceVars, browserVars, rowVars, handlerVars, outcomeVars
  <1> QED BY <1>1, <1>2, <1>3, <1>4, <1>5, <1>6, <1>7, <1>8, <1>9, <1>10, <1>11, <1>12,
             <1>13, <1>14
          DEF Next, Handle, PostsAnswer

LEMMA InitIInv == Init => IInv
  <1> SUFFICES ASSUME Init PROVE IInv
    OBVIOUS
  <1>1. TypeOK
    BY InitType
  <1>2. PostedInv /\ OutcomeInv /\ AlarmHasCause
    BY DEF Init, Nonces!Init, PostedInv, OutcomeInv, AlarmHasCause, InLogin
  <1>3. NonceInv
    BY <1>1 DEF Init, Nonces!Init, NonceInv
  <1>4. SessionInv
    BY <1>1 DEF Init, SessionInv, Verified
  <1>5. CountInv
    BY DEF Init, CountInv, Genuine
  <1> QED BY <1>1, <1>2, <1>3, <1>4, <1>5 DEF IInv

THEOREM Invariance == Spec => []IInv
  <1>1. IInv /\ [Next]_vars => IInv'
    BY TypePreserved, NonceInvPreserved, PostedInvPreserved, OutcomeInvPreserved,
       SessionInvPreserved, CountInvPreserved, AlarmHasCausePreserved DEF IInv
  <1> QED BY InitIInv, <1>1, PTL DEF Spec

(* A challenge yields at most one session, and only through a genuine,         *)
(* accepted assertion.                                                         *)
THEOREM EarnedOnceHolds == Spec => []EarnedOnce
  <1>1. IInv => EarnedOnce
    BY DEF IInv, SessionInv, OutcomeInv, EarnedOnce
  <1> QED BY Invariance, <1>1, PTL

(* The alarm is never raised by an assertion against itself.                   *)
THEOREM AlarmHasCauseHolds == Spec => []AlarmHasCause
  <1>1. IInv => AlarmHasCause
    BY DEF IInv
  <1> QED BY Invariance, <1>1, PTL

(* The stored counter is always one that a genuine authenticator reported.     *)
THEOREM CounterIsGenuineHolds == Spec => []CounterIsGenuine
  <1>1. IInv => CounterIsGenuine
    BY DEF IInv, CountInv, Genuine, CounterIsGenuine
  <1> QED BY Invariance, <1>1, PTL

-----------------------------------------------------------------------------
(* Two logins of a credential at the same time mark it.                        *)
RacesAreMarked ==
    \A g, h \in Handler :
        g # h /\ InLogin(g) /\ InLogin(h) /\ target[g] = target[h] => target[h] \in raced

(* Of a credential whose logins never overlapped...                            *)
Alone(h) == InLogin(h) /\ target[h] \notin raced

(* ...what the login loaded is what the row holds, until it writes its count,  *)
(* unless the passkey is deleted meanwhile;                                    *)
LoadedIsCurrent ==
    \A h \in Handler : Alone(h) =>
        /\ pc[h] # "user" => stored[h] = signCount[target[h]]
        /\ pc[h] = "commit" => fresh[h] = signCount[target[h]]
        /\ pc[h] = "user" /\ target[h] \in enrolled => Count(chal[h]) = signCount[target[h]]

(* the count it accepted is above the one it loaded;                           *)
AcceptedIsAbove ==
    \A h \in Handler : Alone(h) /\ Verified(h) =>
        Count(chal[h]) > stored[h] \/ (Count(chal[h]) = 0 /\ stored[h] = 0)

(* and no session so far has a count above what is loaded or stored.           *)
BelowLoaded ==
    \A h \in Handler, a \in Challenge :
        Alone(h) /\ sessions[a] > 0 /\ assertion[a].credential = target[h]
            => Count(a) <= stored[h]

BelowStored ==
    \A a \in Challenge :
        sessions[a] > 0 /\ assertion[a].credential \in enrolled \ raced
            => Count(a) <= signCount[assertion[a].credential]

RaceInv ==
    /\ RacesAreMarked
    /\ LoadedIsCurrent
    /\ AcceptedIsAbove
    /\ BelowLoaded
    /\ BelowStored
    /\ NoDuplicateUnlessRaced

(* Steps that only take handlers out of a login, delete rows or sign anew.     *)
LEMMA QuietKeepsRaceInv ==
  ASSUME IInv, RaceInv,
         UNCHANGED <<sessions, signCount, raced>>, enrolled' \subseteq enrolled,
         \A a \in posted : assertion'[a] = assertion[a],
         \A h \in Handler : InLogin(h)' =>
            UNCHANGED <<pc[h], chal[h], target[h], stored[h], fresh[h]>>
  PROVE  RaceInv'
  <1>1. \A a \in Challenge : sessions[a] > 0 => a \in posted
    BY DEF IInv, SessionInv, OutcomeInv
  <1>2. \A h \in Handler : InLogin(h)' => InLogin(h) /\ chal[h] \in posted
    BY DEF InLogin, IInv, PostedInv
  <1>3. \A h \in Handler : Alone(h)' => Alone(h)
    BY <1>2 DEF Alone
  <1>4. \A h \in Handler : Alone(h)' => InLogin(h)'
    BY DEF Alone
  <1>5. RacesAreMarked'
    BY <1>2 DEF RaceInv, RacesAreMarked
  <1>6. LoadedIsCurrent'
    BY <1>2, <1>3, <1>4 DEF RaceInv, LoadedIsCurrent, Count
  <1>7. AcceptedIsAbove'
    BY <1>2, <1>3, <1>4 DEF RaceInv, AcceptedIsAbove, Verified, Count
  <1>8. BelowLoaded'
    BY <1>1, <1>2, <1>3, <1>4 DEF RaceInv, BelowLoaded, Count
  <1>9. BelowStored'
    BY <1>1 DEF RaceInv, BelowStored, Count
  <1>10. NoDuplicateUnlessRaced'
    BY <1>1 DEF RaceInv, NoDuplicateUnlessRaced, CountReused, SameCredential, Count
  <1> QED BY <1>5, <1>6, <1>7, <1>8, <1>9, <1>10 DEF RaceInv

LEMMA RaceInvPreserved == ASSUME IInv, RaceInv, [Next]_vars PROVE RaceInv'
  <1>0. /\ TypeOK /\ TypeOK' /\ PostedInv /\ SessionInv
        /\ RacesAreMarked /\ LoadedIsCurrent /\ AcceptedIsAbove
        /\ BelowLoaded /\ BelowStored /\ NoDuplicateUnlessRaced
    BY TypePreserved DEF IInv, RaceInv
  <1>n. \A a \in Challenge : Count(a) \in Nat
    BY <1>0 DEF TypeOK, Count, Assertion
  <1> USE DEF TypeOK, Busy
  <1>1. ASSUME NEW ch \in Challenge, LoginOptions(ch) PROVE RaceInv'
    BY <1>1, QuietKeepsRaceInv
    DEF LoginOptions, browserVars, rowVars, handlerVars, outcomeVars
  <1>2. ASSUME NEW ch \in Challenge, Expire(ch) PROVE RaceInv'
    BY <1>2, QuietKeepsRaceInv
    DEF Expire, browserVars, rowVars, handlerVars, outcomeVars
  <1>3. ASSUME NEW ch \in Challenge, PostsAnswer(ch) PROVE RaceInv'
    <2>1. PICK a \in Assertion : Post(ch, a)
      BY <1>0, <1>3, PostsOne
    <2> QED BY <1>0, <2>1, QuietKeepsRaceInv
        DEF Post, rowVars, handlerVars, outcomeVars
  <1>4. ASSUME NEW h \in Handler, NEW ch \in Challenge, Lookup(h, ch) PROVE RaceInv'
    <2> DEFINE cr == assertion[ch].credential
    <2>1. /\ UNCHANGED <<assertion, enrolled, signCount, sessions>>
          /\ cr \in enrolled /\ cr \in Credential /\ raced \subseteq raced'
          /\ target' = [target EXCEPT ![h] = cr]
          /\ stored' = [stored EXCEPT ![h] = signCount[cr]]
          /\ chal' = [chal EXCEPT ![h] = ch]
          /\ pc' = [pc EXCEPT ![h] = "consume"]
          /\ UNCHANGED fresh
          /\ pc[h] = "idle"
      BY <1>0, <1>4 DEF Lookup, Goto, browserVars, rowVars
    <2>2. \A g \in Handler : InLogin(g) /\ target[g] = cr => cr \in raced'
      BY <1>4 DEF Lookup
    <2> HIDE DEF cr
    <2>3. \A g \in Handler : g # h =>
             /\ InLogin(g)' <=> InLogin(g)
             /\ UNCHANGED <<pc[g], chal[g], target[g], stored[g], fresh[g]>>
             /\ Alone(g)' => Alone(g)
      BY <1>0, <2>1 DEF InLogin, Alone
    <2>4. RacesAreMarked'
      BY <1>0, <2>1, <2>2, <2>3 DEF RacesAreMarked, InLogin
    <2>5. LoadedIsCurrent'
      BY <1>0, <2>1, <2>3 DEF LoadedIsCurrent, Count
    <2>6. AcceptedIsAbove'
      BY <1>0, <2>1, <2>3 DEF AcceptedIsAbove, Verified, Count
    <2>7. BelowLoaded'
      BY <1>0, <2>1, <2>3 DEF BelowLoaded, BelowStored, Alone, Count
    <2>8. BelowStored'
      BY <1>0, <2>1 DEF BelowStored, Count
    <2>9. NoDuplicateUnlessRaced'
      BY <1>0, <2>1 DEF NoDuplicateUnlessRaced, CountReused, SameCredential, Count
    <2> QED BY <2>4, <2>5, <2>6, <2>7, <2>8, <2>9 DEF RaceInv
  <1>5. ASSUME NEW h \in Handler, RefuseChallenge(h) PROVE RaceInv'
    BY <1>0, <1>5, QuietKeepsRaceInv
    DEF RefuseChallenge, Goto, InLogin, browserVars, rowVars, outcomeVars
  <1>6. ASSUME NEW h \in Handler, Verify(h) PROVE RaceInv'
    <2>1. /\ UNCHANGED <<assertion, enrolled, signCount, sessions, raced, chal, target, stored, fresh>>
          /\ \A g \in Handler : g # h => pc'[g] = pc[g]
          /\ pc[h] = "consume" /\ pc'[h] \in {"idle", "select"}
          /\ pc'[h] = "select" => ~CounterViolated(h)
      BY <1>0, <1>6 DEF Verify, Goto, browserVars, rowVars
    <2>2. \A g \in Handler : (InLogin(g)' => InLogin(g)) /\ (Alone(g)' => Alone(g))
      BY <2>1 DEF InLogin, Alone
    <2>3. RacesAreMarked'
      BY <1>0, <2>1, <2>2 DEF RacesAreMarked
    <2>4. LoadedIsCurrent'
      BY <1>0, <2>1, <2>2 DEF LoadedIsCurrent, Count, Alone, InLogin
    <2>5. AcceptedIsAbove'
      BY <1>0, <1>n, <2>1, <2>2 DEF AcceptedIsAbove, Verified, CounterViolated, Count
    <2>6. BelowLoaded' /\ BelowStored'
      BY <1>0, <2>1, <2>2 DEF BelowLoaded, BelowStored, Count
    <2>7. NoDuplicateUnlessRaced'
      BY <1>0, <2>1 DEF NoDuplicateUnlessRaced, CountReused, SameCredential, Count
    <2> QED BY <2>3, <2>4, <2>5, <2>6, <2>7 DEF RaceInv
  <1>7. ASSUME NEW h \in Handler, UpdateSelect(h) PROVE RaceInv'
    <2>1. /\ UNCHANGED <<assertion, enrolled, signCount, sessions, raced, chal, target, stored>>
          /\ \A g \in Handler : g # h => UNCHANGED <<pc[g], fresh[g]>>
          /\ pc[h] = "select"
          /\ \/ pc'[h] = "commit" /\ fresh'[h] = signCount[target[h]]
             \/ pc'[h] = "user" /\ target[h] \notin enrolled
      BY <1>0, <1>7 DEF UpdateSelect, Goto, browserVars, rowVars, outcomeVars
    <2>2. \A g \in Handler : (InLogin(g)' <=> InLogin(g)) /\ (Alone(g)' <=> Alone(g))
      BY <2>1 DEF InLogin, Alone
    <2>3. RacesAreMarked'
      BY <1>0, <2>1, <2>2 DEF RacesAreMarked
    <2>4. LoadedIsCurrent'
      BY <1>0, <2>1, <2>2 DEF LoadedIsCurrent, Count
    <2>5. AcceptedIsAbove'
      BY <1>0, <2>1, <2>2 DEF AcceptedIsAbove, Verified, Count
    <2>6. BelowLoaded' /\ BelowStored'
      BY <1>0, <2>1, <2>2 DEF BelowLoaded, BelowStored, Count
    <2>7. NoDuplicateUnlessRaced'
      BY <1>0, <2>1 DEF NoDuplicateUnlessRaced, CountReused, SameCredential, Count
    <2> QED BY <2>3, <2>4, <2>5, <2>6, <2>7 DEF RaceInv
  <1>8. ASSUME NEW h \in Handler, UpdateCommit(h) PROVE RaceInv'
    <2>1. /\ UNCHANGED <<assertion, enrolled, sessions, raced, chal, target, stored, fresh>>
          /\ \A g \in Handler : g # h => pc'[g] = pc[g]
          /\ pc[h] = "commit" /\ pc'[h] = "user"
          /\ \A cr \in Credential : cr # target[h] => signCount'[cr] = signCount[cr]
          /\ fresh[h] = signCount[target[h]] => signCount'[target[h]] = Count(chal[h])
      BY <1>0, <1>8 DEF UpdateCommit, Goto, browserVars, outcomeVars, Count
    <2>2. \A g \in Handler : (InLogin(g)' <=> InLogin(g)) /\ (Alone(g)' <=> Alone(g))
      BY <2>1 DEF InLogin, Alone
    <2>3. \A g \in Handler : g # h /\ Alone(g) => target[g] # target[h]
      BY <1>0, <2>1 DEF RacesAreMarked, Alone, InLogin
    <2>4. Alone(h) => /\ signCount'[target[h]] = Count(chal[h])
                      /\ stored[h] = signCount[target[h]]
                      /\ Count(chal[h]) > stored[h] \/ (Count(chal[h]) = 0 /\ stored[h] = 0)
      BY <1>0, <2>1 DEF LoadedIsCurrent, AcceptedIsAbove, Verified
    <2>5. RacesAreMarked'
      BY <1>0, <2>1, <2>2 DEF RacesAreMarked
    <2>6. LoadedIsCurrent'
      BY <1>0, <2>1, <2>2, <2>3, <2>4 DEF LoadedIsCurrent, Count
    <2>7. AcceptedIsAbove'
      BY <1>0, <2>1, <2>2 DEF AcceptedIsAbove, Verified, Count
    <2>8. BelowLoaded'
      BY <1>0, <2>1, <2>2 DEF BelowLoaded, Count
    <2>9. BelowStored'
      <3> SUFFICES ASSUME NEW a \in Challenge, sessions[a] > 0,
                          assertion[a].credential \in enrolled \ raced
                   PROVE  Count(a) <= signCount'[assertion[a].credential]
        BY <2>1 DEF BelowStored, Count
      <3>1. CASE assertion[a].credential # target[h]
        BY <1>0, <2>1, <3>1 DEF BelowStored, Assertion
      <3>2. CASE assertion[a].credential = target[h]
        <4>1. Alone(h)
          BY <2>1, <3>2 DEF Alone, InLogin
        <4>2. Count(a) <= stored[h]
          BY <1>0, <3>2, <4>1 DEF BelowLoaded
        <4>3. Count(a) \in Nat /\ stored[h] \in Nat /\ Count(chal[h]) \in Nat
          BY <1>0, <1>n
        <4>4. Count(a) <= Count(chal[h])
          BY <2>4, <4>1, <4>2, <4>3
        <4> QED BY <2>4, <3>2, <4>1, <4>4
      <3> QED BY <3>1, <3>2
    <2>10. NoDuplicateUnlessRaced'
      BY <1>0, <2>1 DEF NoDuplicateUnlessRaced, CountReused, SameCredential, Count
    <2> QED BY <2>5, <2>6, <2>7, <2>8, <2>9, <2>10 DEF RaceInv
  <1>9. ASSUME NEW h \in Handler, StatementFails(h) PROVE RaceInv'
    BY <1>0, <1>9, QuietKeepsRaceInv
    DEF StatementFails, Goto, InLogin, browserVars, rowVars, outcomeVars
  <1>10. ASSUME NEW h \in Handler, IssueSession(h) PROVE RaceInv'
    <2>1. /\ UNCHANGED <<assertion, enrolled, signCount, raced, chal, target, stored, fresh>>
          /\ \A g \in Handler : g # h => pc'[g] = pc[g]
          /\ pc[h] = "user" /\ pc'[h] = "idle"
          /\ \A a \in Challenge : a # chal[h] => sessions'[a] = sessions[a]
          /\ target[h] = assertion[chal[h]].credential
      BY <1>0, <1>10 DEF IssueSession, Goto, browserVars, rowVars, PostedInv, InLogin
    <2>2. \A g \in Handler : /\ InLogin(g)' => InLogin(g)
                             /\ Alone(g)' => g # h /\ Alone(g)
      BY <2>1 DEF InLogin, Alone
    <2>3. \A g \in Handler : g # h /\ Alone(g) => target[g] # target[h]
      BY <1>0, <2>1 DEF RacesAreMarked, Alone, InLogin
    <2>4. target[h] \notin raced => Alone(h) /\ Verified(h)
      BY <2>1 DEF Alone, InLogin, Verified
    <2>5. RacesAreMarked'
      BY <1>0, <2>1, <2>2 DEF RacesAreMarked
    <2>6. LoadedIsCurrent'
      BY <1>0, <2>1, <2>2 DEF LoadedIsCurrent, Count
    <2>7. AcceptedIsAbove'
      BY <1>0, <2>1, <2>2 DEF AcceptedIsAbove, Verified, Count
    <2>8. BelowLoaded'
      BY ZenonT(30), <1>0, <2>1, <2>2, <2>3 DEF BelowLoaded, Count
    <2>9. BelowStored'
      <3> SUFFICES ASSUME NEW a \in Challenge, sessions'[a] > 0,
                          assertion[a].credential \in enrolled \ raced
                   PROVE  Count(a) <= signCount[assertion[a].credential]
        BY <2>1 DEF BelowStored, Count
      <3>1. CASE a # chal[h]
        BY <1>0, <2>1, <3>1 DEF BelowStored
      <3>2. CASE a = chal[h]
        <4>1. Count(a) = signCount[target[h]]
          BY <1>0, <2>1, <2>4, <3>2 DEF LoadedIsCurrent
        <4> QED BY <1>n, <2>1, <3>2, <4>1
      <3> QED BY <3>1, <3>2
    <2>10. NoDuplicateUnlessRaced'
      <3>1. ASSUME NEW a \in Challenge, a # chal[h], sessions[a] > 0,
                   SameCredential(a, chal[h]), Count(chal[h]) > 0, target[h] \notin raced
            PROVE  Count(a) # Count(chal[h])
        <4>1. Count(a) <= stored[h]
          BY <1>0, <2>1, <2>4, <3>1 DEF BelowLoaded, SameCredential
        <4>2. Count(chal[h]) > stored[h]
          BY <1>0, <1>n, <2>4, <3>1 DEF AcceptedIsAbove
        <4>3. Count(a) \in Nat /\ stored[h] \in Nat /\ Count(chal[h]) \in Nat
          BY <1>0, <1>n
        <4> QED BY <4>1, <4>2, <4>3
      <3> SUFFICES ASSUME NEW a \in Challenge, NEW b \in Challenge, CountReused(a, b)'
                   PROVE  assertion[a].credential \in raced
        BY <2>1 DEF NoDuplicateUnlessRaced
      <3>2. /\ a # b /\ SameCredential(a, b) /\ sessions'[a] > 0 /\ sessions'[b] > 0
            /\ Count(a) > 0 /\ Count(a) = Count(b)
        BY <2>1 DEF CountReused, SameCredential, Count
      <3>3. CASE a # chal[h] /\ b # chal[h]
        BY <1>0, <2>1, <3>2, <3>3 DEF NoDuplicateUnlessRaced, CountReused
      <3>4. CASE a = chal[h]
        BY <2>1, <3>1, <3>2, <3>4 DEF SameCredential
      <3>5. CASE b = chal[h]
        BY <2>1, <3>1, <3>2, <3>5 DEF SameCredential
      <3> QED BY <3>3, <3>4, <3>5
    <2> QED BY <2>5, <2>6, <2>7, <2>8, <2>9, <2>10 DEF RaceInv
  <1>11. ASSUME NEW h \in Handler, NEW cr \in Credential, DeleteSelect(h, cr) PROVE RaceInv'
    BY <1>0, <1>11, QuietKeepsRaceInv
    DEF DeleteSelect, Goto, InLogin, browserVars, rowVars, outcomeVars
  <1>12. ASSUME NEW h \in Handler, DeleteCommit(h) PROVE RaceInv'
    BY <1>0, <1>12, QuietKeepsRaceInv
    DEF DeleteCommit, Goto, InLogin, browserVars, outcomeVars
  <1>13. ASSUME Restart PROVE RaceInv'
    BY <1>0, <1>13, QuietKeepsRaceInv
    DEF Restart, InLogin, browserVars, rowVars, outcomeVars
  <1>14. ASSUME UNCHANGED vars PROVE RaceInv'
    BY <1>14, QuietKeepsRaceInv
    DEF vars, browserVars, rowVars, handlerVars, outcomeVars
  <1> QED BY <1>1, <1>2, <1>3, <1>4, <1>5, <1>6, <1>7, <1>8, <1>9, <1>10, <1>11, <1>12,
             <1>13, <1>14
          DEF Next, Handle, PostsAnswer

LEMMA InitRaceInv == Init => RaceInv
  <1> SUFFICES ASSUME Init PROVE RaceInv
    OBVIOUS
  <1>1. \A h \in Handler : ~InLogin(h)
    BY DEF Init, InLogin
  <1>2. \A ch \in Challenge : ~(sessions[ch] > 0)
    BY DEF Init
  <1> QED BY <1>1, <1>2
          DEF RaceInv, RacesAreMarked, LoadedIsCurrent, AcceptedIsAbove, Alone,
                            BelowLoaded, BelowStored, NoDuplicateUnlessRaced, CountReused

THEOREM RaceInvariance == Spec => [](IInv /\ RaceInv)
  <1>1. IInv /\ RaceInv /\ [Next]_vars => RaceInv'
    BY RaceInvPreserved
  <1> QED BY Invariance, InitRaceInv, <1>1, PTL DEF Spec

(* No two sessions of a credential rest on the same nonzero count unless two   *)
(* of its logins overlapped.                                                   *)
THEOREM NoDuplicateUnlessRacedHolds == Spec => []NoDuplicateUnlessRaced
  <1>1. IInv /\ RaceInv => NoDuplicateUnlessRaced
    BY DEF RaceInv
  <1> QED BY RaceInvariance, <1>1, PTL

(* The stored counter of a credential never goes down unless two of its logins *)
(* overlapped.                                                                 *)
THEOREM CounterGrowsUnlessRacedHolds == Spec => CounterGrowsUnlessRaced
  <1> DEFINE CountersGrow ==
        \A cr \in Credential : signCount'[cr] >= signCount[cr] \/ cr \in raced
  <1>1. IInv /\ RaceInv /\ [Next]_vars => [CountersGrow]_vars
    <2> SUFFICES ASSUME IInv, RaceInv, Next, NEW cr \in Credential, cr \notin raced
                 PROVE  signCount'[cr] >= signCount[cr]
      OBVIOUS
    <2>1. TypeOK /\ \A v \in Nat : v >= v
      BY DEF IInv
    <2>2. CASE signCount' = signCount
      BY <2>1, <2>2 DEF TypeOK
    <2>3. ASSUME NEW h \in Handler, UpdateCommit(h)
          PROVE  signCount'[cr] >= signCount[cr]
      <3>0. Count(chal[h]) \in Nat /\ stored[h] \in Nat /\ pc[h] = "commit"
        BY <2>1, <2>3 DEF TypeOK, Count, Assertion, UpdateCommit
      <3>1. signCount'[cr] = signCount[cr] \/ (cr = target[h] /\ signCount'[cr] = Count(chal[h]))
        BY <2>1, <2>3 DEF UpdateCommit, TypeOK, Count
      <3>2. ASSUME cr = target[h] PROVE Count(chal[h]) >= signCount[cr]
        <4>1. Alone(h)
          BY <3>0, <3>2 DEF Alone, InLogin
        <4>2. stored[h] = signCount[cr]
          BY <3>0, <3>2, <4>1 DEF RaceInv, LoadedIsCurrent
        <4>3. Count(chal[h]) > stored[h] \/ (Count(chal[h]) = 0 /\ stored[h] = 0)
          BY <3>0, <4>1 DEF RaceInv, AcceptedIsAbove, Verified
        <4> QED BY <3>0, <4>2, <4>3
      <3> QED BY <2>1, <3>1, <3>2 DEF TypeOK
    <2>4. (\E h \in Handler : UpdateCommit(h)) \/ signCount' = signCount
      BY DEF Next, Handle, LoginOptions, Expire, SignAndPost, Forge, Post, Lookup, RefuseChallenge,
             Verify, UpdateSelect, StatementFails, IssueSession, DeleteSelect,
             DeleteCommit, Restart, rowVars
    <2> QED BY <2>2, <2>3, <2>4
  <1> HIDE DEF CountersGrow
  <1>2. Spec => [][CountersGrow]_vars
    BY RaceInvariance, <1>1, PTL DEF Spec
  <1> QED BY <1>2 DEF CountersGrow, CounterGrowsUnlessRaced

-----------------------------------------------------------------------------
(* Every step of the ceremony is one of OneTimeNonce's, or none.               *)
LEMMA LoginUsesNonces == TypeOK /\ [Next]_vars => [Nonces!Next]_(Nonces!vars)
  <1> SUFFICES ASSUME TypeOK, [Next]_vars
               PROVE  Nonces!Next \/ UNCHANGED Nonces!vars
    OBVIOUS
  <1> USE DEF Nonces!Next, Nonces!vars, nonceVars
  <1>1. ASSUME NEW ch \in Challenge, LoginOptions(ch) PROVE Nonces!Issue(ch)
    BY <1>1 DEF LoginOptions
  <1>2. ASSUME NEW ch \in Challenge, Expire(ch) PROVE Nonces!Next
    BY <1>2 DEF Expire
  <1>3. ASSUME NEW h \in Handler, Verify(h) PROVE Nonces!Next
    <2>1. chal[h] \in Challenge
      BY DEF TypeOK
    <2> QED BY <1>3, <2>1 DEF Verify, Consume
  <1>4. CASE Restart
    BY <1>4 DEF Restart
  <1>5. ASSUME NEW ch \in Challenge, PostsAnswer(ch)
        PROVE  UNCHANGED Nonces!vars
    BY <1>5 DEF PostsAnswer, SignAndPost, Forge, Post
  <1>6. ASSUME NEW h \in Handler, Handle(h), ~Verify(h) PROVE UNCHANGED Nonces!vars
    BY <1>6 DEF Handle, Lookup, RefuseChallenge, UpdateSelect, UpdateCommit, StatementFails,
                IssueSession, DeleteSelect, DeleteCommit
  <1>7. CASE UNCHANGED vars
    BY <1>7 DEF vars
  <1> QED BY <1>1, <1>2, <1>3, <1>4, <1>5, <1>6, <1>7 DEF Next, PostsAnswer

(* The ceremony asks of its challenges only what OneTimeNonce, and so the      *)
(* challenge store, promises: what is proved above over OneTimeNonce holds     *)
(* over every store that implements it.                                        *)
THEOREM UsesNonces == Spec => Nonces!Spec
  <1>1. Init => Nonces!Init
    BY DEF Init
  <1> QED BY <1>1, TypeCorrect, LoginUsesNonces, PTL DEF Spec, Nonces!Spec
=============================================================================
