------------------------- MODULE SessionGateProofs --------------------------
(* Proofs about SessionGate, for every number of sessions, credentials and     *)
(* requests, every lifetime, step-up limit and precision of the clock.         *)
EXTENDS SessionGate, TLAPS

(* What the code must be given for a logout to last: blocklist entries that    *)
(* live as long as tokens, and, if the process restarts, a Redis that answers. *)
Lasting ==
    /\ RevokeTTL >= SessionTTL
    /\ \A f \in Faults : "restart" \in f => RedisConfigured /\ "redis" \notin f

Life == SessionTTL * TPS
Active(s) == logout[s] \in {"setex", "setex_done", "answered"}
Alive(s) == clock < auth[s] + Life
MemoryLasts(s) == memory_blocklist[s] >= auth[s] + Life
RedisLasts(s) == redis[s] >= auth[s] + Life

-----------------------------------------------------------------------------
(* A login is not in the future, and only a login can be logged out.           *)
LogoutsHaveLogins ==
    \A s \in Session : auth[s] <= clock /\ (auth[s] = 0 => logout[s] = "none")

(* Only a logout puts an entry in a blocklist.                                 *)
BlocklistsHaveLogouts ==
    \A s \in Session :
        memory_blocklist[s] # 0 \/ redis[s] # 0 => logout[s] # "none"

(* A request that waits belongs to a login.                                    *)
RequestsHaveLogins ==
    \A r \in Request : pc[r] \in Waiting => auth[sess[r]] # 0

(* Some session with the token of session s was told to log out.               *)
Named(s) == \E t \in Session : SameToken(s, t) /\ logout[t] # "none"

HitsHaveLogouts ==
    \A r \in Request : pc[r] = "get_done" /\ hit[r] => Named(sess[r])

IInv ==
    /\ TypeOK
    /\ LogoutsHaveLogins
    /\ BlocklistsHaveLogouts
    /\ RequestsHaveLogins
    /\ HitsHaveLogouts
    /\ LogoutReachesItsTokenOnly

(* A process that may restart has a Redis that it can rely on.                 *)
RestartHasRedis == "restart" \in faults => redis_available /\ ~RedisFails

(* Memory holds the logouts of a process that never restarts, and in any       *)
(* process those that Redis has not yet been told of.                          *)
MemoryHolds ==
    \A s \in Session :
        /\ Active(s) /\ Alive(s)
        /\ "restart" \notin faults \/ logout[s] = "setex"
        => MemoryLasts(s)

(* Redis holds the others, which is what a restart leaves.                     *)
RedisHolds ==
    \A s \in Session :
        /\ logout[s] \in {"setex_done", "answered"} /\ Alive(s)
        /\ "restart" \in faults
        => RedisLasts(s)

(* A Redis reply that missed a logout was overtaken by it: memory has it.      *)
ReplyOrMemory ==
    \A r \in Request :
        pc[r] = "get_done" /\ Active(sess[r]) /\ Alive(sess[r])
        => hit[r] \/ MemoryLasts(sess[r])

Lasts ==
    /\ RestartHasRedis
    /\ MemoryHolds
    /\ RedisHolds
    /\ ReplyOrMemory

-----------------------------------------------------------------------------
LEMMA LifeType == Life \in Nat
  <1>1. SessionTTL \in Nat /\ TPS \in Nat
    BY GateAssumption
  <1> QED BY <1>1 DEF Life

(* A blocklist entry lives at least as long as a token.                        *)
LEMMA EntryOutlives ==
  RevokeTTL * TPS \in Nat /\ (RevokeTTL >= SessionTTL => RevokeTTL * TPS >= Life)
  <1>1. SessionTTL \in Nat /\ RevokeTTL \in Nat /\ TPS \in Nat
    BY GateAssumption
  <1> QED BY <1>1 DEF Life

(* Truncation to seconds.                                                      *)
LEMMA Truncated ==
  ASSUME NEW x \in Nat
  PROVE  /\ Second(x) \in Nat
         /\ Second(x) * TPS \in Nat
         /\ Second(x) * TPS <= x
         /\ x < Second(x) * TPS + TPS
  <1>1. TPS \in Nat \ {0}
    BY GateAssumption
  <1>2. x \div TPS \in Nat /\ x = (x \div TPS) * TPS + (x % TPS) /\ x % TPS \in 0 .. TPS - 1
    BY <1>1
  <1>3. (x \div TPS) * TPS \in Nat
    BY <1>1, <1>2
  <1> QED BY <1>1, <1>2, <1>3 DEF Second

LEMMA Scaled ==
  ASSUME NEW a \in Nat, NEW b \in Nat
  PROVE  /\ a * TPS \in Nat
         /\ (a + 1) * TPS = a * TPS + TPS
         /\ a <= b => a * TPS <= b * TPS
         /\ (a + b) * TPS = a * TPS + b * TPS
  <1>1. TPS \in Nat \ {0}
    BY GateAssumption
  <1> QED BY <1>1

(* Seconds do not run backwards.                                               *)
LEMMA SecondsGrow ==
  ASSUME NEW x \in Nat, NEW y \in Nat, x <= y
  PROVE  Second(x) <= Second(y)
  <1>1. Second(x) \in Nat /\ Second(y) \in Nat
    BY Truncated
  <1> SUFFICES ASSUME Second(y) + 1 <= Second(x) PROVE FALSE
    BY <1>1
  <1>2. (Second(y) + 1) * TPS <= Second(x) * TPS
    BY <1>1, Scaled
  <1>3. (Second(y) + 1) * TPS = Second(y) * TPS + TPS
    BY <1>1, Scaled
  <1> QED BY <1>2, <1>3, Truncated, GateAssumption

(* A token that is valid belongs to a session whose lifetime is not over.      *)
LEMMA ValidIsAlive ==
  ASSUME TypeOK, NEW s \in Session, TokenValid(s)
  PROVE  Alive(s)
  <1>1. auth[s] + Life \in Nat /\ clock \in Nat
    BY LifeType DEF TypeOK
  <1>2. clock < Second(auth[s] + Life) * TPS
    BY DEF TokenValid, Exp, Life
  <1>3. Second(auth[s] + Life) * TPS \in Nat /\ Second(auth[s] + Life) * TPS <= auth[s] + Life
    BY <1>1, Truncated
  <1> HIDE DEF Life
  <1> QED BY <1>1, <1>2, <1>3 DEF Alive

(* Whole seconds apart by at most the limit are ticks apart by less than the   *)
(* limit and a second; whole seconds apart by more are ticks apart by more.    *)
LEMMA StepUpInTicks ==
  ASSUME NEW x \in Nat, NEW y \in Nat, y <= x
  PROVE  /\ Second(x) - Second(y) <= StepUpLimit => x - y < (StepUpLimit + 1) * TPS
         /\ ~(Second(x) - Second(y) <= StepUpLimit) => x - y > StepUpLimit * TPS
  <1>t. StepUpLimit \in Nat /\ TPS \in Nat \ {0} /\ Second(x) \in Nat /\ Second(y) \in Nat
    BY Truncated, GateAssumption
  <1>x. Second(x) * TPS \in Nat /\ Second(x) * TPS <= x /\ x < Second(x) * TPS + TPS
    BY Truncated
  <1>y. Second(y) * TPS \in Nat /\ Second(y) * TPS <= y /\ y < Second(y) * TPS + TPS
    BY Truncated
  <1>l. StepUpLimit * TPS \in Nat /\ (StepUpLimit + 1) * TPS = StepUpLimit * TPS + TPS
    BY <1>t, Scaled
  <1>1. ASSUME Second(x) - Second(y) <= StepUpLimit PROVE x - y < (StepUpLimit + 1) * TPS
    <2>1. Second(x) <= Second(y) + StepUpLimit /\ Second(y) + StepUpLimit \in Nat
      BY <1>t, <1>1
    <2>2. Second(x) * TPS <= (Second(y) + StepUpLimit) * TPS
      BY <1>t, <2>1, Scaled
    <2>3. (Second(y) + StepUpLimit) * TPS = Second(y) * TPS + StepUpLimit * TPS
      BY <1>t, Scaled
    <2> QED BY <1>t, <1>x, <1>y, <1>l, <2>2, <2>3
  <1>2. ASSUME ~(Second(x) - Second(y) <= StepUpLimit) PROVE x - y > StepUpLimit * TPS
    <2>1. Second(y) + (StepUpLimit + 1) <= Second(x) /\ StepUpLimit + 1 \in Nat
      BY <1>t, <1>2
    <2>2. (Second(y) + (StepUpLimit + 1)) * TPS <= Second(x) * TPS
      BY <1>t, <2>1, Scaled
    <2>3. (Second(y) + (StepUpLimit + 1)) * TPS = Second(y) * TPS + (StepUpLimit + 1) * TPS
      BY <1>t, <2>1, Scaled
    <2> QED BY <1>t, <1>x, <1>y, <1>l, <2>2, <2>3
  <1> QED BY <1>1, <1>2

-----------------------------------------------------------------------------
LEMMA JudgeType == ASSUME NEW s \in Session, NEW found PROVE Judge(s, found) \in Verdict
  BY DEF Judge, Verdict

LEMMA TypeHolds == TypeOK /\ [Next]_vars => TypeOK'
  <1> SUFFICES ASSUME TypeOK, [Next]_vars PROVE TypeOK'
    OBVIOUS
  <1> USE DEF TypeOK, Waiting, LogoutState
  <1>r. Reachable \subseteq BOOLEAN
    BY GateAssumption DEF Reachable
  <1>t. clock + RevokeTTL * TPS \in Nat
    BY EntryOutlives
  <1>1. CASE Tick
    BY <1>1 DEF Tick
  <1>2. CASE Restart
    BY <1>2, <1>r DEF Restart
  <1>3. ASSUME NEW s \in Session, Login(s) PROVE TypeOK'
    BY <1>3 DEF Login
  <1>4. ASSUME NEW s \in Session, LogoutBegin(s) PROVE TypeOK'
    BY <1>4, <1>t DEF LogoutBegin
  <1>5. ASSUME NEW s \in Session, LogoutApplied(s) PROVE TypeOK'
    BY <1>5, <1>t DEF LogoutApplied
  <1>6. ASSUME NEW s \in Session, LogoutAnswered(s) PROVE TypeOK'
    BY <1>6 DEF LogoutAnswered
  <1>7. ASSUME NEW r \in Request, NEW s \in Session, NEW upstream \in BOOLEAN,
               RequestBegin(r, s, upstream)
        PROVE  TypeOK'
    <2>1. Judge(s, FALSE) \in Verdict
      BY JudgeType
    <2> QED BY <1>7, <2>1 DEF RequestBegin, Verdict
  <1>8. ASSUME NEW r \in Request, GetApplied(r) PROVE TypeOK'
    BY <1>8 DEF GetApplied, InRedis
  <1>9. ASSUME NEW r \in Request, GetReply(r) PROVE TypeOK'
    <2>1. Judge(sess[r], hit[r]) \in Verdict
      BY JudgeType
    <2> QED BY <1>9, <2>1 DEF GetReply
  <1>10. ASSUME NEW r \in Request, GetFails(r) PROVE TypeOK'
    <2>1. Judge(sess[r], FALSE) \in Verdict
      BY JudgeType
    <2> QED BY <1>10, <2>1 DEF GetFails
  <1>11. ASSUME NEW r \in Request, Respond(r) PROVE TypeOK'
    BY <1>11 DEF Respond
  <1>12. CASE UNCHANGED vars
    BY <1>12 DEF vars
  <1> QED
    BY <1>1, <1>2, <1>3, <1>4, <1>5, <1>6, <1>7, <1>8, <1>9, <1>10, <1>11, <1>12 DEF Next

LEMMA InitEstablishes == Init => IInv
  <1> SUFFICES ASSUME Init PROVE IInv
    OBVIOUS
  <1>1. TypeOK
    BY GateAssumption DEF Init, TypeOK, Reachable, LogoutState
  <1> QED BY <1>1 DEF Init, IInv, TypeOK, LogoutsHaveLogins, BlocklistsHaveLogouts,
                      RequestsHaveLogins, HitsHaveLogouts, LogoutReachesItsTokenOnly, Waiting

(* Time and logins are only added, and what was logged out stays so.           *)
LEMMA Grows ==
  IInv /\ [Next]_vars =>
    /\ faults' = faults
    /\ clock' >= clock
    /\ \A s \in Session : auth[s] # 0 => auth'[s] = auth[s]
    /\ \A s \in Session : logout[s] # "none" => auth[s] # 0 /\ logout'[s] # "none"
  <1> SUFFICES ASSUME IInv, [Next]_vars
               PROVE  /\ faults' = faults
                      /\ clock' >= clock
                      /\ \A s \in Session : auth[s] # 0 => auth'[s] = auth[s]
                      /\ \A s \in Session : logout[s] # "none" => logout'[s] # "none"
    BY DEF IInv, LogoutsHaveLogins
  <1> USE DEF IInv, TypeOK
  <1>1. CASE Tick
    BY <1>1 DEF Tick
  <1>2. CASE Restart
    BY <1>2 DEF Restart
  <1>3. ASSUME NEW s \in Session, Login(s) \/ LogoutBegin(s) \/ LogoutApplied(s) \/ LogoutAnswered(s)
        PROVE  /\ faults' = faults
               /\ clock' >= clock
               /\ \A t \in Session : auth[t] # 0 => auth'[t] = auth[t]
               /\ \A t \in Session : logout[t] # "none" => logout'[t] # "none"
    BY <1>3 DEF Login, LogoutBegin, LogoutApplied, LogoutAnswered
  <1>4. ASSUME NEW r \in Request, NEW s \in Session, NEW upstream \in BOOLEAN,
               RequestBegin(r, s, upstream)
        PROVE  UNCHANGED <<faults, clock, auth, logout>>
    BY <1>4 DEF RequestBegin
  <1>5. CASE UNCHANGED vars
    BY <1>5 DEF vars
  <1>6. UNCHANGED <<faults, clock, auth, logout>> =>
          /\ faults' = faults
          /\ clock' >= clock
          /\ \A t \in Session : auth[t] # 0 => auth'[t] = auth[t]
          /\ \A t \in Session : logout[t] # "none" => logout'[t] # "none"
    OBVIOUS
  <1>7. ASSUME NEW r \in Request, GetApplied(r) \/ GetReply(r) \/ GetFails(r) \/ Respond(r)
        PROVE  UNCHANGED <<faults, clock, auth, logout>>
    BY <1>7 DEF GetApplied, GetReply, GetFails, Respond
  <1>8. CASE \E s \in Session : Login(s) \/ LogoutBegin(s) \/ LogoutApplied(s) \/ LogoutAnswered(s)
    BY <1>3, <1>8
  <1>9. CASE \E r \in Request, s \in Session, upstream \in BOOLEAN : RequestBegin(r, s, upstream)
    BY <1>4, <1>6, <1>9
  <1>10. CASE \E r \in Request : GetApplied(r) \/ GetReply(r) \/ GetFails(r) \/ Respond(r)
    BY <1>7, <1>6, <1>10
  <1> QED
    BY <1>1, <1>2, <1>5, <1>6, <1>8, <1>9, <1>10 DEF Next, vars

(* Whoever was named is named for ever.                                        *)
LEMMA NamedStays ==
  ASSUME IInv, [Next]_vars, NEW s \in Session, Named(s)
  PROVE  Named(s)'
  <1> PICK t \in Session : SameToken(s, t) /\ logout[t] # "none"
    BY DEF Named
  <1>1. SameToken(s, t)'
    BY Grows DEF SameToken, AuthTime
  <1>2. logout'[t] # "none"
    BY Grows
  <1> QED BY <1>1, <1>2 DEF Named

(* A blocklist names only those who were told to log out.                      *)
LEMMA FoundIsNamed ==
  ASSUME IInv, NEW s \in Session, InMemory(s) \/ InRedis(s)
  PROVE  Named(s)
  <1> PICK t \in Session : SameToken(s, t) /\ (memory_blocklist[t] > clock \/ redis[t] > clock)
    BY DEF InMemory, InRedis
  <1>1. memory_blocklist[t] # 0 \/ redis[t] # 0
    BY DEF IInv, TypeOK
  <1>2. logout[t] # "none"
    BY <1>1 DEF IInv, BlocklistsHaveLogouts
  <1> QED BY <1>2 DEF Named

(* What a verdict says of the session.                                         *)
LEMMA JudgeMeans ==
  ASSUME NEW s \in Session, NEW found \in BOOLEAN
  PROVE  /\ Judge(s, found) = "revoked" => found \/ InMemory(s)
         /\ Judge(s, found) \in {"fresh", "stale"} =>
              ~found /\ ~InMemory(s) /\ TokenValid(s)
         /\ Judge(s, found) = "fresh" => StepUpValid(s)
         /\ Judge(s, found) = "stale" => ~StepUpValid(s)
  BY DEF Judge

-----------------------------------------------------------------------------
LEMMA LoginsStep == IInv /\ [Next]_vars => LogoutsHaveLogins'
  <1> SUFFICES ASSUME IInv, [Next]_vars, NEW t \in Session
               PROVE  auth'[t] <= clock' /\ (auth'[t] = 0 => logout'[t] = "none")
    BY DEF LogoutsHaveLogins
  <1>t. TypeOK /\ auth[t] <= clock /\ (auth[t] = 0 => logout[t] = "none")
    BY DEF IInv, LogoutsHaveLogins
  <1> USE DEF TypeOK
  <1>1. CASE Tick
    BY <1>t, <1>1 DEF Tick
  <1>2. CASE Restart
    BY <1>t, <1>2 DEF Restart
  <1>3. CASE \E s \in Session : Login(s) \/ LogoutBegin(s) \/ LogoutApplied(s) \/ LogoutAnswered(s)
    BY <1>t, <1>3 DEF Login, LogoutBegin, LogoutApplied, LogoutAnswered
  <1>4. CASE \E r \in Request, s \in Session, upstream \in BOOLEAN : RequestBegin(r, s, upstream)
    BY <1>t, <1>4 DEF RequestBegin
  <1>5. CASE \E r \in Request : GetApplied(r) \/ GetReply(r) \/ GetFails(r) \/ Respond(r)
    BY <1>t, <1>5 DEF GetApplied, GetReply, GetFails, Respond
  <1>6. CASE UNCHANGED vars
    BY <1>t, <1>6 DEF vars
  <1> QED
    BY <1>1, <1>2, <1>3, <1>4, <1>5, <1>6 DEF Next

LEMMA BlocklistsStep == IInv /\ [Next]_vars => BlocklistsHaveLogouts'
  <1> SUFFICES ASSUME IInv, [Next]_vars, NEW t \in Session,
                      memory_blocklist'[t] # 0 \/ redis'[t] # 0
               PROVE  logout'[t] # "none"
    BY DEF BlocklistsHaveLogouts
  <1>t. TypeOK
    BY DEF IInv
  <1>k. memory_blocklist[t] # 0 \/ redis[t] # 0 => logout[t] # "none"
    BY DEF IInv, BlocklistsHaveLogouts
  <1>u. UNCHANGED <<memory_blocklist, redis>> => logout'[t] # "none"
    BY <1>k, Grows
  <1> USE DEF TypeOK
  <1>1. CASE Tick
    BY <1>u, <1>1 DEF Tick
  <1>2. CASE Restart
    <2>1. redis[t] # 0
      BY <1>2 DEF Restart
    <2> QED BY <2>1, <1>k, Grows
  <1>3. ASSUME NEW s \in Session, Login(s) PROVE logout'[t] # "none"
    BY <1>u, <1>3 DEF Login
  <1>4. ASSUME NEW s \in Session, LogoutBegin(s) PROVE logout'[t] # "none"
    <2>1. CASE t = s
      BY <1>t, <1>4, <2>1 DEF LogoutBegin
    <2>2. CASE t # s
      <3>1. memory_blocklist[t] # 0 \/ redis[t] # 0
        BY <1>t, <1>4, <2>2 DEF LogoutBegin
      <3> QED BY <3>1, <1>k, Grows
    <2> QED BY <2>1, <2>2
  <1>5. ASSUME NEW s \in Session, LogoutApplied(s) PROVE logout'[t] # "none"
    <2>1. CASE t = s
      BY <1>t, <1>5, <2>1 DEF LogoutApplied
    <2>2. CASE t # s
      <3>1. memory_blocklist[t] # 0 \/ redis[t] # 0
        BY <1>t, <1>5, <2>2 DEF LogoutApplied
      <3> QED BY <3>1, <1>k, Grows
    <2> QED BY <2>1, <2>2
  <1>6. ASSUME NEW s \in Session, LogoutAnswered(s) PROVE logout'[t] # "none"
    BY <1>u, <1>6 DEF LogoutAnswered
  <1>7. CASE \E r \in Request, s \in Session, upstream \in BOOLEAN : RequestBegin(r, s, upstream)
    BY <1>u, <1>7 DEF RequestBegin
  <1>8. CASE \E r \in Request : GetApplied(r) \/ GetReply(r) \/ GetFails(r) \/ Respond(r)
    BY <1>u, <1>8 DEF GetApplied, GetReply, GetFails, Respond
  <1>9. CASE UNCHANGED vars
    BY <1>u, <1>9 DEF vars
  <1> QED
    BY <1>1, <1>2, <1>3, <1>4, <1>5, <1>6, <1>7, <1>8, <1>9 DEF Next

(* Steps of no request leave the requests alone; those of a request leave the  *)
(* tokens alone.                                                               *)
LEMMA RequestsStep ==
  IInv /\ [Next]_vars =>
      RequestsHaveLogins' /\ HitsHaveLogouts' /\ LogoutReachesItsTokenOnly'
  <1> DEFINE Sound(q) == /\ pc'[q] \in Waiting => auth'[sess'[q]] # 0
                         /\ pc'[q] = "get_done" /\ hit'[q] => Named(sess[q])'
                         /\ pc'[q] = "revoked" => Named(sess[q])'
  <1> SUFFICES ASSUME IInv, [Next]_vars, NEW q \in Request PROVE Sound(q)
    BY DEF RequestsHaveLogins, HitsHaveLogouts, LogoutReachesItsTokenOnly, Named
  <1>t. TypeOK /\ TypeOK'
    BY TypeHolds DEF IInv
  <1>k. /\ pc[q] \in Waiting => auth[sess[q]] # 0
        /\ pc[q] = "get_done" /\ hit[q] => Named(sess[q])
        /\ pc[q] = "revoked" => Named(sess[q])
    BY DEF IInv, RequestsHaveLogins, HitsHaveLogouts, LogoutReachesItsTokenOnly, Named
  <1>s. sess[q] \in Session /\ sess'[q] \in Session
    BY <1>t DEF TypeOK
  <1>u. ASSUME pc'[q] = pc[q], sess'[q] = sess[q], hit'[q] = hit[q] PROVE Sound(q)
    <2>1. Named(sess[q]) => Named(sess[q])'
      <3> SUFFICES ASSUME Named(sess[q]) PROVE Named(sess[q])'
        OBVIOUS
      <3>1. \E t \in Session : SameToken(sess[q], t)' /\ logout'[t] # "none"
        <4> PICK t \in Session : SameToken(sess[q], t) /\ logout[t] # "none"
          BY DEF Named
        <4>1. SameToken(sess[q], t)'
          BY <1>s, <1>u, Grows DEF SameToken, AuthTime
        <4>2. logout'[t] # "none"
          BY Grows
        <4> QED BY <4>1, <4>2
      <3> QED BY <3>1 DEF Named
    <2> QED BY <1>k, <1>s, <1>u, <2>1, Grows
  <1>v. ASSUME UNCHANGED <<pc, sess, hit>> PROVE Sound(q)
    BY <1>u, <1>v
  <1>i. ASSUME pc'[q] \notin Waiting \cup {"revoked"} PROVE Sound(q)
    BY <1>i DEF Waiting
  <1>j. ASSUME UNCHANGED <<clock, auth, memory_blocklist, redis, logout>>,
               pc'[q] = "revoked", Named(sess'[q])
        PROVE  Sound(q)
    BY <1>j DEF Named, SameToken, AuthTime, Waiting
  <1> USE DEF TypeOK
  <1>1. CASE Tick
    BY <1>v, <1>1 DEF Tick
  <1>2. CASE Restart
    BY <1>i, <1>2 DEF Restart, Waiting
  <1>3. CASE \E s \in Session : Login(s) \/ LogoutBegin(s) \/ LogoutApplied(s) \/ LogoutAnswered(s)
    BY <1>v, <1>3 DEF Login, LogoutBegin, LogoutApplied, LogoutAnswered
  <1>4. ASSUME NEW r \in Request, NEW s \in Session, NEW upstream \in BOOLEAN,
               RequestBegin(r, s, upstream)
        PROVE  Sound(q)
    <2>1. CASE q # r
      BY <1>t, <1>u, <1>4, <2>1 DEF RequestBegin
    <2>2. CASE q = r /\ pc'[q] \notin {"get", "revoked"}
      <3>1. pc'[q] # "get_done"
        BY <1>t, <1>4, <2>2, JudgeType DEF RequestBegin, Verdict
      <3> QED BY <1>i, <2>2, <3>1 DEF Waiting
    <2>3. CASE q = r /\ pc'[q] = "get"
      BY <1>t, <1>4, <2>3 DEF RequestBegin, Waiting
    <2>4. CASE q = r /\ pc'[q] = "revoked"
      <3>1. Judge(s, FALSE) = "revoked" /\ sess'[q] = s
        BY <1>t, <1>4, <2>4 DEF RequestBegin
      <3>2. Named(sess'[q])
        BY <3>1, JudgeMeans, FoundIsNamed
      <3> QED BY <1>j, <1>4, <2>4, <3>2 DEF RequestBegin
    <2> QED BY <2>1, <2>2, <2>3, <2>4
  <1>5. ASSUME NEW r \in Request, GetApplied(r) PROVE Sound(q)
    <2>1. CASE q # r
      BY <1>t, <1>u, <1>5, <2>1 DEF GetApplied
    <2>2. CASE q = r
      <3>1. pc[q] = "get" /\ pc'[q] = "get_done" /\ hit'[q] = InRedis(sess[q])
            /\ UNCHANGED <<auth, logout, sess>>
        BY <1>t, <1>5, <2>2 DEF GetApplied
      <3>2. hit'[q] => Named(sess[q])
        BY <1>s, <3>1, FoundIsNamed
      <3>3. Named(sess[q]) => Named(sess[q])'
        BY <3>1 DEF Named, SameToken, AuthTime
      <3> QED BY <1>k, <3>1, <3>2, <3>3 DEF Waiting
    <2> QED BY <2>1, <2>2
  <1>6. ASSUME NEW r \in Request, NEW found \in BOOLEAN, found => Named(sess[r]),
               pc' = [pc EXCEPT ![r] = Judge(sess[r], found)],
               UNCHANGED <<clock, auth, memory_blocklist, redis, logout, sess, hit>>
        PROVE  Sound(q)
    <2>1. CASE q # r
      BY <1>t, <1>u, <1>6, <2>1
    <2>2. CASE q = r
      <3>1. pc'[q] = Judge(sess[q], found) /\ sess'[q] = sess[q]
        BY <1>t, <1>6, <2>2
      <3>2. pc'[q] \in Verdict
        BY <3>1, <1>s, JudgeType
      <3>3. pc'[q] = "revoked" => Named(sess'[q])
        BY <1>6, <1>s, <2>2, <3>1, JudgeMeans, FoundIsNamed
      <3> QED BY <1>i, <1>j, <1>6, <3>2, <3>3 DEF Verdict, Waiting
    <2> QED BY <2>1, <2>2
  <1>7. ASSUME NEW r \in Request, GetReply(r) PROVE Sound(q)
    <2>1. hit[r] \in BOOLEAN /\ (hit[r] => Named(sess[r]))
      BY <1>t, <1>7 DEF GetReply, IInv, HitsHaveLogouts
    <2> QED BY <1>6, <1>7, <2>1 DEF GetReply
  <1>8. ASSUME NEW r \in Request, GetFails(r) PROVE Sound(q)
    BY <1>6, <1>8 DEF GetFails
  <1>9. ASSUME NEW r \in Request, Respond(r) PROVE Sound(q)
    <2>1. CASE q # r
      BY <1>t, <1>u, <1>9, <2>1 DEF Respond
    <2>2. CASE q = r
      BY <1>t, <1>i, <1>9, <2>2 DEF Respond, Waiting
    <2> QED BY <2>1, <2>2
  <1>10. CASE UNCHANGED vars
    BY <1>v, <1>10 DEF vars
  <1> QED
    BY <1>1, <1>2, <1>3, <1>4, <1>5, <1>7, <1>8, <1>9, <1>10 DEF Next

(* The invariant that needs no assumption about lifetimes or faults.           *)
THEOREM Inductive == Spec => []IInv
  <1>1. IInv /\ [Next]_vars => IInv'
    BY TypeHolds, LoginsStep, BlocklistsStep, RequestsStep DEF IInv
  <1> QED
    BY <1>1, InitEstablishes, PTL DEF Spec

(* Sessions, blocklists and requests stay within their types.                  *)
THEOREM TypeCorrect == Spec => []TypeOK
  <1>1. IInv => TypeOK
    BY DEF IInv
  <1> QED
    BY <1>1, Inductive, PTL

(* is_revoked says yes only of a token that somebody logged out.               *)
THEOREM LogoutReachesItsTokenOnlyHolds == Spec => []LogoutReachesItsTokenOnly
  <1>1. IInv => LogoutReachesItsTokenOnly
    BY DEF IInv
  <1> QED
    BY <1>1, Inductive, PTL

(* Whoever is called fresh logged in less than the limit and a second ago, and *)
(* whoever is called stale logged in longer ago than the limit.                *)
THEOREM StepUpIsTimelyHolds == Spec => StepUpIsTimely
  <1> DEFINE Timely(r) ==
        LET ticks == clock - auth[sess'[r]]
        IN  /\ Judged(r, "fresh") => ticks < (StepUpLimit + 1) * TPS
            /\ Judged(r, "stale") => ticks > StepUpLimit * TPS
  <1>1. IInv /\ [Next]_vars => \A r \in Request : Timely(r)
    <2> SUFFICES ASSUME IInv, [Next]_vars, NEW r \in Request PROVE Timely(r)
      OBVIOUS
    <2>t. TypeOK /\ \A s \in Session : auth[s] <= clock
      BY DEF IInv, LogoutsHaveLogins
    <2>j. ASSUME NEW s \in Session, NEW found \in BOOLEAN,
                 pc'[r] = Judge(s, found), sess'[r] = s
          PROVE  Timely(r)
      <3>1. /\ pc'[r] = "fresh" => Second(clock) - Second(auth[s]) <= StepUpLimit
            /\ pc'[r] = "stale" => ~(Second(clock) - Second(auth[s]) <= StepUpLimit)
        BY <2>j, JudgeMeans DEF StepUpValid, AuthTime
      <3>2. auth[s] \in Nat /\ clock \in Nat /\ auth[s] <= clock
        BY <2>t DEF TypeOK
      <3> QED BY <2>j, <3>1, <3>2, StepUpInTicks DEF Judged
    <2>n. ASSUME pc'[r] = pc[r] \/ pc'[r] \notin {"fresh", "stale"} PROVE Timely(r)
      BY <2>n DEF Judged
    <2> HIDE DEF Timely
    <2>1. CASE Tick \/ Restart \/ UNCHANGED vars
      BY <2>n, <2>1 DEF Tick, Restart, vars
    <2>2. CASE \E s \in Session : Login(s) \/ LogoutBegin(s) \/ LogoutApplied(s) \/ LogoutAnswered(s)
      BY <2>n, <2>2 DEF Login, LogoutBegin, LogoutApplied, LogoutAnswered
    <2>3. ASSUME NEW q \in Request, NEW s \in Session, NEW upstream \in BOOLEAN,
                 RequestBegin(q, s, upstream)
          PROVE  Timely(r)
      <3>1. CASE q # r
        BY <2>t, <2>n, <2>3, <3>1 DEF RequestBegin, TypeOK
      <3>2. CASE q = r /\ pc'[r] \in {"expired", "get"}
        BY <2>n, <3>2
      <3>3. CASE q = r /\ pc'[r] \notin {"expired", "get"}
        BY <2>t, <2>j, <2>3, <3>3 DEF RequestBegin, TypeOK
      <3> QED BY <3>1, <3>2, <3>3
    <2>4. ASSUME NEW q \in Request, GetApplied(q) \/ Respond(q) PROVE Timely(r)
      BY <2>t, <2>n, <2>4 DEF GetApplied, Respond, TypeOK
    <2>5. ASSUME NEW q \in Request, GetReply(q) \/ GetFails(q) PROVE Timely(r)
      <3>1. CASE q # r
        BY <2>t, <2>n, <2>5, <3>1 DEF GetReply, GetFails, TypeOK
      <3>2. CASE q = r
        <4>1. sess'[r] = sess[r] /\ sess[r] \in Session /\ hit[r] \in BOOLEAN
          BY <2>t, <2>5, <3>2 DEF GetReply, GetFails, TypeOK
        <4>2. pc'[r] = Judge(sess[r], hit[r]) \/ pc'[r] = Judge(sess[r], FALSE)
          BY <2>t, <2>5, <3>2 DEF GetReply, GetFails, TypeOK
        <4> QED BY <2>j, <4>1, <4>2
      <3> QED BY <3>1, <3>2
    <2> QED BY <2>1, <2>2, <2>3, <2>4, <2>5 DEF Next
  <1>2. (\A r \in Request : Timely(r)) =>
          \A r \in Request :
            LET age == clock - auth[sess'[r]]
            IN  /\ Judged(r, "fresh") => age < (StepUpLimit + 1) * TPS
                /\ Judged(r, "stale") => age > StepUpLimit * TPS
    OBVIOUS
  <1> QED
    BY <1>1, <1>2, Inductive, PTL DEF Spec, StepUpIsTimely

-----------------------------------------------------------------------------
(* The invariant that a lasting logout needs.                                  *)
LEMMA InitLasts == Lasting /\ Init => Lasts
  <1> SUFFICES ASSUME Lasting, Init PROVE Lasts
    OBVIOUS
  <1>1. RestartHasRedis
    BY GateAssumption DEF Lasting, Init, RestartHasRedis, Reachable, RedisFails
  <1> QED
    BY <1>1 DEF Init, Lasts, MemoryHolds, RedisHolds, ReplyOrMemory, Active

LEMMA RestartHasRedisStep ==
  Lasting /\ TypeOK /\ RestartHasRedis /\ [Next]_vars => RestartHasRedis'
  <1> SUFFICES ASSUME Lasting, TypeOK, RestartHasRedis, [Next]_vars PROVE RestartHasRedis'
    OBVIOUS
  <1>1. CASE Restart
    BY <1>1 DEF Restart, Lasting, TypeOK, RestartHasRedis, Reachable, RedisFails
  <1>2. UNCHANGED <<faults, redis_available>> => RestartHasRedis'
    BY DEF RestartHasRedis, RedisFails
  <1>3. CASE Tick
    BY <1>2, <1>3 DEF Tick
  <1>4. CASE \E s \in Session : Login(s) \/ LogoutBegin(s) \/ LogoutApplied(s) \/ LogoutAnswered(s)
    BY <1>2, <1>4 DEF Login, LogoutBegin, LogoutApplied, LogoutAnswered
  <1>5. CASE \E r \in Request, s \in Session, upstream \in BOOLEAN : RequestBegin(r, s, upstream)
    BY <1>2, <1>5 DEF RequestBegin
  <1>6. CASE \E r \in Request : GetApplied(r) \/ GetReply(r) \/ GetFails(r) \/ Respond(r)
    BY <1>2, <1>6 DEF GetApplied, GetReply, GetFails, Respond
  <1>7. CASE UNCHANGED vars
    BY <1>2, <1>7 DEF vars
  <1> QED BY <1>1, <1>3, <1>4, <1>5, <1>6, <1>7 DEF Next

(* Logged out before the step and after it, or logged out by it.               *)
LEMMA ActiveStep ==
  ASSUME IInv, [Next]_vars, NEW s \in Session, Active(s)'
  PROVE  \/ LogoutBegin(s)
         \/ Active(s) /\ auth[s] # 0 /\ (logout'[s] = "setex" => logout[s] = "setex")
  <1> DEFINE Was == Active(s) /\ (logout'[s] = "setex" => logout[s] = "setex")
  <1> SUFFICES LogoutBegin(s) \/ Was
    BY DEF IInv, LogoutsHaveLogins, Active
  <1> USE DEF IInv, TypeOK, Active
  <1>1. CASE Restart
    BY <1>1 DEF Restart
  <1>2. UNCHANGED logout => Was
    OBVIOUS
  <1>3. CASE Tick \/ UNCHANGED vars
    BY <1>2, <1>3 DEF Tick, vars
  <1>4. ASSUME NEW t \in Session, LogoutBegin(t) PROVE LogoutBegin(s) \/ Was
    BY <1>4 DEF LogoutBegin
  <1>5. ASSUME NEW t \in Session, Login(t) \/ LogoutApplied(t) \/ LogoutAnswered(t)
        PROVE  Was
    BY <1>5 DEF Login, LogoutApplied, LogoutAnswered
  <1>6. CASE \E r \in Request, t \in Session, upstream \in BOOLEAN : RequestBegin(r, t, upstream)
    BY <1>2, <1>6 DEF RequestBegin
  <1>7. CASE \E r \in Request : GetApplied(r) \/ GetReply(r) \/ GetFails(r) \/ Respond(r)
    BY <1>2, <1>7 DEF GetApplied, GetReply, GetFails, Respond
  <1> QED BY <1>1, <1>3, <1>4, <1>5, <1>6, <1>7 DEF Next

(* A session that is alive after the step was alive before, with the same      *)
(* time of login, unless the step is its login.                                *)
LEMMA AliveStep ==
  ASSUME IInv, [Next]_vars, NEW s \in Session, auth[s] # 0, Alive(s)'
  PROVE  Alive(s) /\ auth'[s] = auth[s]
  <1>1. clock' >= clock /\ auth'[s] = auth[s]
    BY Grows
  <1>2. TypeOK'
    BY TypeHolds DEF IInv
  <1>3. clock \in Nat /\ clock' \in Nat /\ auth[s] \in Nat
    BY <1>2 DEF IInv, TypeOK
  <1> QED BY <1>1, <1>3, LifeType DEF Alive

(* A logout enters memory for longer than its token lives.                     *)
LEMMA BeginLasts ==
  ASSUME IInv, RevokeTTL >= SessionTTL, NEW s \in Session, LogoutBegin(s)
  PROVE  MemoryLasts(s)'
  <1>1. memory_blocklist'[s] = clock + RevokeTTL * TPS /\ auth'[s] = auth[s]
    BY DEF LogoutBegin
  <1>2. clock \in Nat /\ auth[s] \in Nat /\ Life \in Nat /\ auth[s] <= clock
    BY LifeType DEF IInv, TypeOK, LogoutsHaveLogins
  <1> QED BY <1>1, <1>2, EntryOutlives DEF MemoryLasts, Life

(* An entry in memory outlasts every step but a restart.                       *)
LEMMA MemoryStep ==
  ASSUME IInv, [Next]_vars, ~Restart, NEW s \in Session, auth[s] # 0, Alive(s)',
         MemoryLasts(s), RevokeTTL >= SessionTTL
  PROVE  MemoryLasts(s)'
  <1>a. Alive(s) /\ auth'[s] = auth[s]
    BY AliveStep
  <1>t. clock \in Nat /\ auth[s] \in Nat /\ memory_blocklist[s] \in Nat /\ Life \in Nat
        /\ TypeOK /\ auth[s] <= clock
    BY LifeType DEF IInv, TypeOK, LogoutsHaveLogins
  <1>k. memory_blocklist'[s] = memory_blocklist[s] => MemoryLasts(s)'
    BY <1>a, <1>t DEF MemoryLasts, Life
  <1>1. CASE Tick \/ UNCHANGED vars
    BY <1>k, <1>1 DEF Tick, vars
  <1>2. ASSUME NEW t \in Session, LogoutBegin(t) PROVE MemoryLasts(s)'
    <2>1. CASE t = s
      BY <1>2, <2>1, BeginLasts
    <2>2. CASE t # s
      <3>1. memory_blocklist[s] > clock
        BY <1>a, <1>t DEF MemoryLasts, Alive
      <3>2. memory_blocklist'[s] = memory_blocklist[s]
        BY <1>2, <2>2, <3>1 DEF LogoutBegin
      <3> QED BY <1>k, <3>2
    <2> QED BY <2>1, <2>2
  <1>3. CASE \E t \in Session : Login(t) \/ LogoutApplied(t) \/ LogoutAnswered(t)
    BY <1>k, <1>3 DEF Login, LogoutApplied, LogoutAnswered
  <1>4. CASE \E r \in Request, t \in Session, upstream \in BOOLEAN : RequestBegin(r, t, upstream)
    BY <1>k, <1>4 DEF RequestBegin
  <1>5. CASE \E r \in Request : GetApplied(r) \/ GetReply(r) \/ GetFails(r) \/ Respond(r)
    BY <1>k, <1>5 DEF GetApplied, GetReply, GetFails, Respond
  <1> QED BY <1>1, <1>2, <1>3, <1>4, <1>5 DEF Next

LEMMA MemoryHoldsStep ==
  Lasting /\ IInv /\ Lasts /\ [Next]_vars => MemoryHolds'
  <1> SUFFICES ASSUME Lasting, IInv, Lasts, [Next]_vars, NEW s \in Session,
                      Active(s)', Alive(s)', "restart" \notin faults' \/ logout'[s] = "setex"
               PROVE  MemoryLasts(s)'
    BY DEF MemoryHolds
  <1>1. CASE LogoutBegin(s)
    BY <1>1, BeginLasts DEF Lasting
  <1>2. CASE ~LogoutBegin(s)
    <2>1. Active(s) /\ auth[s] # 0 /\ (logout'[s] = "setex" => logout[s] = "setex")
      BY <1>2, ActiveStep
    <2>2. Alive(s)
      BY <2>1, AliveStep
    <2>3. MemoryLasts(s)
      BY <2>1, <2>2, Grows DEF Lasts, MemoryHolds
    <2>4. ~Restart
      BY Grows DEF Restart, IInv, TypeOK
    <2> QED BY <2>1, <2>3, <2>4, MemoryStep DEF Lasting
  <1> QED BY <1>1, <1>2

LEMMA RedisHoldsStep ==
  Lasting /\ IInv /\ Lasts /\ [Next]_vars => RedisHolds'
  <1> SUFFICES ASSUME Lasting, IInv, Lasts, [Next]_vars, NEW s \in Session,
                      logout'[s] \in {"setex_done", "answered"}, Alive(s)',
                      "restart" \in faults'
               PROVE  RedisLasts(s)'
    BY DEF RedisHolds
  <1>f. redis_available /\ ~RedisFails /\ "restart" \in faults
    BY Grows DEF Lasts, RestartHasRedis
  <1>t. /\ TypeOK /\ clock \in Nat /\ auth[s] \in Nat /\ Life \in Nat
        /\ auth[s] <= clock /\ (auth[s] = 0 => logout[s] = "none")
    BY LifeType DEF IInv, TypeOK, LogoutsHaveLogins
  <1>k. ASSUME redis'[s] = redis[s], logout[s] \in {"setex_done", "answered"}
        PROVE  RedisLasts(s)'
    <2>1. auth[s] # 0
      BY <1>t, <1>k
    <2>2. Alive(s) /\ auth'[s] = auth[s]
      BY <2>1, AliveStep
    <2>3. RedisLasts(s)
      BY <1>f, <1>k, <2>2 DEF Lasts, RedisHolds
    <2> QED BY <1>k, <2>2, <2>3 DEF RedisLasts, Life
  <1>u. UNCHANGED <<redis, logout>> => RedisLasts(s)'
    BY <1>k
  <1> USE DEF TypeOK
  <1>1. CASE Tick \/ UNCHANGED vars
    BY <1>u, <1>1 DEF Tick, vars
  <1>2. CASE Restart
    BY <1>t, <1>k, <1>2 DEF Restart
  <1>3. ASSUME NEW t \in Session, Login(t) PROVE RedisLasts(s)'
    BY <1>u, <1>3 DEF Login
  <1>4. ASSUME NEW t \in Session, LogoutBegin(t) PROVE RedisLasts(s)'
    BY <1>t, <1>f, <1>k, <1>4 DEF LogoutBegin
  <1>5. ASSUME NEW t \in Session, LogoutApplied(t) PROVE RedisLasts(s)'
    <2>1. CASE t = s
      <3>1. redis'[s] = clock + RevokeTTL * TPS /\ auth'[s] = auth[s]
        BY <1>t, <1>5, <2>1 DEF LogoutApplied
      <3> QED BY <1>t, <3>1, EntryOutlives DEF RedisLasts, Life, Lasting
    <2>2. CASE t # s
      BY <1>t, <1>k, <1>5, <2>2 DEF LogoutApplied
    <2> QED BY <2>1, <2>2
  <1>6. ASSUME NEW t \in Session, LogoutAnswered(t) PROVE RedisLasts(s)'
    BY <1>t, <1>f, <1>k, <1>6 DEF LogoutAnswered
  <1>7. CASE \E r \in Request, t \in Session, upstream \in BOOLEAN : RequestBegin(r, t, upstream)
    BY <1>u, <1>7 DEF RequestBegin
  <1>8. CASE \E r \in Request : GetApplied(r) \/ GetReply(r) \/ GetFails(r) \/ Respond(r)
    BY <1>u, <1>8 DEF GetApplied, GetReply, GetFails, Respond
  <1> QED BY <1>1, <1>2, <1>3, <1>4, <1>5, <1>6, <1>7, <1>8 DEF Next

(* Redis finds the entry of a session that is alive.                           *)
LEMMA RedisFinds ==
  ASSUME TypeOK, NEW s \in Session, auth[s] # 0, Alive(s), RedisLasts(s)
  PROVE  InRedis(s)
  <1>1. redis[s] > clock
    BY LifeType DEF TypeOK, Alive, RedisLasts
  <1> QED BY <1>1 DEF InRedis, SameToken

LEMMA MemoryFinds ==
  ASSUME TypeOK, NEW s \in Session, auth[s] # 0, Alive(s), MemoryLasts(s)
  PROVE  InMemory(s)
  <1>1. memory_blocklist[s] > clock
    BY LifeType DEF TypeOK, Alive, MemoryLasts
  <1> QED BY <1>1 DEF InMemory, SameToken

LEMMA ReplyOrMemoryStep ==
  Lasting /\ IInv /\ Lasts /\ [Next]_vars => ReplyOrMemory'
  <1> SUFFICES ASSUME Lasting, IInv, Lasts, [Next]_vars, NEW q \in Request,
                      pc'[q] = "get_done", Active(sess[q])', Alive(sess[q])'
               PROVE  hit'[q] \/ MemoryLasts(sess[q])'
    BY DEF ReplyOrMemory
  <1>t. TypeOK /\ TypeOK' /\ RevokeTTL >= SessionTTL
    BY TypeHolds DEF IInv, Lasting
  <1> DEFINE s == sess'[q]
  <1>s. s \in Session
    BY <1>t DEF TypeOK
  <1>r. ~Restart
    BY DEF Restart
  <1>a. CASE LogoutBegin(s)
    BY <1>a, <1>s, <1>t, BeginLasts DEF MemoryLasts
  <1>b. CASE ~LogoutBegin(s)
    <2>1. Active(s) /\ auth[s] # 0 /\ Alive(s) /\ auth'[s] = auth[s]
      BY <1>b, <1>s, ActiveStep, AliveStep DEF Active, Alive
    <2>m. MemoryLasts(s) => MemoryLasts(sess[q])'
      <3> SUFFICES ASSUME MemoryLasts(s) PROVE MemoryLasts(sess[q])'
        OBVIOUS
      <3>1. memory_blocklist'[s] >= auth'[s] + Life
        BY <1>r, <1>s, <1>t, <2>1, MemoryStep DEF MemoryLasts, Alive
      <3> QED BY <3>1 DEF MemoryLasts
    <2>k. ASSUME pc[q] = "get_done", sess'[q] = sess[q], hit'[q] = hit[q]
          PROVE  hit'[q] \/ MemoryLasts(sess[q])'
      BY <2>1, <2>m, <2>k DEF Lasts, ReplyOrMemory
    <2>2. CASE Tick \/ UNCHANGED vars
      BY <2>k, <2>2 DEF Tick, vars
    <2>3. CASE \E x \in Session : Login(x) \/ LogoutBegin(x) \/ LogoutApplied(x) \/ LogoutAnswered(x)
      BY <2>k, <2>3 DEF Login, LogoutBegin, LogoutApplied, LogoutAnswered
    <2>4. ASSUME NEW r \in Request, NEW x \in Session, NEW upstream \in BOOLEAN,
                 RequestBegin(r, x, upstream)
          PROVE  hit'[q] \/ MemoryLasts(sess[q])'
      <3>1. pc'[r] \in {"expired", "get", Judge(x, FALSE)}
        BY <1>t, <2>4 DEF RequestBegin, TypeOK
      <3>2. Judge(x, FALSE) \in Verdict
        BY JudgeType
      <3>3. q # r
        BY <3>1, <3>2 DEF Verdict
      <3> QED BY <1>t, <2>k, <2>4, <3>3 DEF RequestBegin, TypeOK
    <2>5. ASSUME NEW r \in Request, GetApplied(r)
          PROVE  hit'[q] \/ MemoryLasts(sess[q])'
      <3>1. CASE q # r
        BY <1>t, <2>k, <2>5, <3>1 DEF GetApplied, TypeOK
      <3>2. CASE q = r
        <4>1. hit'[q] = InRedis(s)
          BY <1>t, <2>5, <3>2 DEF GetApplied, TypeOK
        <4>2. CASE "restart" \notin faults \/ logout[s] = "setex"
          BY <1>s, <2>1, <2>m, <4>2 DEF Lasts, MemoryHolds
        <4>3. CASE "restart" \in faults /\ logout[s] # "setex"
          <5>1. RedisLasts(s)
            BY <1>s, <2>1, <4>3 DEF Lasts, RedisHolds, Active
          <5> QED BY <1>s, <1>t, <2>1, <4>1, <5>1, RedisFinds
        <4> QED BY <4>2, <4>3
      <3> QED BY <3>1, <3>2
    <2>6. ASSUME NEW r \in Request, GetReply(r) \/ GetFails(r) \/ Respond(r)
          PROVE  hit'[q] \/ MemoryLasts(sess[q])'
      <3>1. pc'[r] \in {Judge(sess[r], hit[r]), Judge(sess[r], FALSE), "idle"}
        BY <1>t, <2>6 DEF GetReply, GetFails, Respond, TypeOK
      <3>2. Judge(sess[r], hit[r]) \in Verdict /\ Judge(sess[r], FALSE) \in Verdict
        BY <1>t, JudgeType DEF TypeOK
      <3>3. q # r
        BY <3>1, <3>2 DEF Verdict
      <3> QED BY <1>t, <2>k, <2>6, <3>3 DEF GetReply, GetFails, Respond, TypeOK
    <2> QED BY <1>r, <2>2, <2>3, <2>4, <2>5, <2>6 DEF Next
  <1> QED BY <1>a, <1>b

LEMMA LastsStep == Lasting /\ IInv /\ Lasts /\ [Next]_vars => Lasts'
  BY RestartHasRedisStep, MemoryHoldsStep, RedisHoldsStep, ReplyOrMemoryStep
     DEF Lasts, IInv

-----------------------------------------------------------------------------
(* A session that is_revoked and the token let pass is not logged out.         *)
LEMMA AcceptedIsNotLoggedOut ==
  ASSUME Lasting, IInv, Lasts, NEW s \in Session, auth[s] # 0,
         NEW found \in BOOLEAN, Judge(s, found) \in {"fresh", "stale"},
         Active(s) /\ Alive(s) => found \/ MemoryLasts(s)
  PROVE  ~Active(s) /\ TokenValid(s)
  <1>t. TypeOK
    BY DEF IInv
  <1>1. ~found /\ ~InMemory(s) /\ TokenValid(s)
    BY JudgeMeans
  <1>2. Alive(s)
    BY <1>t, <1>1, ValidIsAlive
  <1> QED BY <1>t, <1>1, <1>2, MemoryFinds

(* A step that begins to accept a request is the judgement of a session that   *)
(* lasts.                                                                      *)
LEMMA AcceptanceIsSound ==
  ASSUME Lasting, IInv, Lasts, [Next]_vars, NEW r \in Request,
         pc'[r] # pc[r], pc'[r] \in {"fresh", "stale"}
  PROVE  /\ UNCHANGED <<faults, clock, auth, memory_blocklist, redis, redis_available,
                        logout, hit>>
         /\ pc' = [pc EXCEPT ![r] = pc'[r]]
         /\ \A q \in Request : q # r => sess'[q] = sess[q]
         /\ sess'[r] \in Session /\ auth[sess'[r]] # 0
         /\ ~Active(sess'[r]) /\ TokenValid(sess'[r])
         /\ pc'[r] = "fresh" <=> StepUpValid(sess'[r])
  <1> DEFINE Goal == /\ UNCHANGED <<faults, clock, auth, memory_blocklist, redis,
                                    redis_available, logout, hit>>
                     /\ pc' = [pc EXCEPT ![r] = pc'[r]]
                     /\ \A q \in Request : q # r => sess'[q] = sess[q]
                     /\ sess'[r] \in Session /\ auth[sess'[r]] # 0
                     /\ ~Active(sess'[r]) /\ TokenValid(sess'[r])
                     /\ pc'[r] = "fresh" <=> StepUpValid(sess'[r])
  <1> SUFFICES Goal
    OBVIOUS
  <1>t. TypeOK
    BY DEF IInv
  <1>j. ASSUME NEW s \in Session, NEW found \in BOOLEAN, auth[s] # 0,
               pc' = [pc EXCEPT ![r] = Judge(s, found)], sess' = [sess EXCEPT ![r] = s],
               UNCHANGED <<faults, clock, auth, memory_blocklist, redis, redis_available,
                           logout, hit>>,
               Active(s) /\ Alive(s) => found \/ MemoryLasts(s)
        PROVE  Goal
    <2>1. pc'[r] = Judge(s, found) /\ sess'[r] = s
      BY <1>t, <1>j DEF TypeOK
    <2>2. ~Active(s) /\ TokenValid(s)
      BY <1>j, <2>1, AcceptedIsNotLoggedOut
    <2>3. pc'[r] = "fresh" <=> StepUpValid(s)
      BY <1>j, <2>1, JudgeMeans
    <2>4. \A q \in Request : q # r => sess'[q] = sess[q]
      BY <1>t, <1>j DEF TypeOK
    <2>5. pc' = [pc EXCEPT ![r] = pc'[r]]
      BY <1>j, <2>1
    <2> QED BY <1>j, <2>1, <2>2, <2>3, <2>4, <2>5
  <1>r. ASSUME NEW s \in Session, redis_available = FALSE \/ RedisFails
        PROVE  Active(s) /\ Alive(s) => MemoryLasts(s)
    BY <1>r DEF Lasts, RestartHasRedis, MemoryHolds
  <1> HIDE DEF Goal
  <1>1. CASE Tick \/ Restart \/ UNCHANGED vars
    BY <1>1 DEF Tick, Restart, vars
  <1>2. CASE \E s \in Session : Login(s) \/ LogoutBegin(s) \/ LogoutApplied(s) \/ LogoutAnswered(s)
    BY <1>2 DEF Login, LogoutBegin, LogoutApplied, LogoutAnswered
  <1>3. ASSUME NEW q \in Request, NEW s \in Session, NEW upstream \in BOOLEAN,
               RequestBegin(q, s, upstream)
        PROVE  Goal
    <2>1. q = r
      BY <1>t, <1>3 DEF RequestBegin, TypeOK
    <2>2. redis_available = FALSE /\ pc' = [pc EXCEPT ![r] = Judge(s, FALSE)]
      BY <1>t, <1>3, <2>1 DEF RequestBegin, TypeOK
    <2> QED BY <1>3, <1>j, <1>r, <2>1, <2>2 DEF RequestBegin
  <1>4. CASE \E q \in Request : GetApplied(q) \/ Respond(q)
    BY <1>t, <1>4 DEF GetApplied, Respond, TypeOK
  <1>5. ASSUME NEW q \in Request, NEW found \in BOOLEAN, pc[q] \in Waiting,
               pc' = [pc EXCEPT ![q] = Judge(sess[q], found)],
               UNCHANGED <<faults, clock, auth, memory_blocklist, redis, redis_available,
                           logout, sess, hit>>,
               Active(sess[q]) /\ Alive(sess[q]) => found \/ MemoryLasts(sess[q])
        PROVE  Goal
    <2>1. q = r
      BY <1>t, <1>5 DEF TypeOK
    <2>2. sess[r] \in Session /\ auth[sess[r]] # 0
      BY <1>t, <1>5, <2>1 DEF TypeOK, IInv, RequestsHaveLogins
    <2>3. sess' = [sess EXCEPT ![r] = sess[r]]
      BY <1>t, <1>5 DEF TypeOK
    <2> QED BY <1>5, <1>j, <2>1, <2>2, <2>3
  <1>6. ASSUME NEW q \in Request, GetReply(q) PROVE Goal
    <2>1. hit[q] \in BOOLEAN /\ pc[q] \in Waiting
      BY <1>t, <1>6 DEF GetReply, TypeOK, Waiting
    <2>2. Active(sess[q]) /\ Alive(sess[q]) => hit[q] \/ MemoryLasts(sess[q])
      BY <1>6 DEF GetReply, Lasts, ReplyOrMemory
    <2> QED BY <1>5, <1>6, <2>1, <2>2 DEF GetReply
  <1>7. ASSUME NEW q \in Request, GetFails(q) PROVE Goal
    <2>1. Active(sess[q]) /\ Alive(sess[q]) => MemoryLasts(sess[q])
      BY <1>t, <1>7, <1>r DEF GetFails, TypeOK
    <2> QED BY <1>5, <1>7, <2>1 DEF GetFails
  <1> QED BY <1>1, <1>2, <1>3, <1>4, <1>6, <1>7 DEF Next

(* A logout holds from the moment it runs, to the end of the token's life.     *)
THEOREM LogoutTakesEffectAtOnceHolds == Lasting => (Spec => LogoutTakesEffectAtOnce)
  <1> SUFFICES ASSUME Lasting PROVE Spec => LogoutTakesEffectAtOnce
    OBVIOUS
  <1>1. Init => Lasts
    BY InitLasts
  <1>2. IInv /\ Lasts /\ [Next]_vars => Lasts'
    BY LastsStep
  <1>3. IInv /\ Lasts /\ [Next]_vars =>
          \A r \in Request : Accepted(r) => logout[sess'[r]] \in {"none", "lost"}
    <2> SUFFICES ASSUME IInv, Lasts, [Next]_vars, NEW r \in Request, Accepted(r)
                 PROVE  logout[sess'[r]] \in {"none", "lost"}
      OBVIOUS
    <2>1. pc'[r] \in {"fresh", "stale"} /\ pc'[r] # pc[r]
      BY DEF Accepted, Judged
    <2>2. sess'[r] \in Session /\ ~Active(sess'[r])
      BY <2>1, AcceptanceIsSound
    <2> QED BY <2>2 DEF Active, IInv, TypeOK, LogoutState
  <1> QED
    BY <1>1, <1>2, <1>3, Inductive, PTL DEF Spec, LogoutTakesEffectAtOnce

-----------------------------------------------------------------------------
(* Seen through status and answer, a session grows older or stays as it is.    *)
LEMMA StatusGrowsOlder ==
  ASSUME TypeOK, TypeOK', NEW s \in Session, auth'[s] = auth[s], clock' >= clock,
         logout[s] = "answered" => logout'[s] = "answered"
  PROVE  \/ Status(s)' = Status(s)
         \/ <<Status(s), Status(s)'>> \in Contract!Older
  <1>1. clock \in Nat /\ clock' \in Nat /\ auth[s] \in Nat
    BY DEF TypeOK
  <1>2. /\ Second(clock) \in Nat /\ Second(clock') \in Nat /\ AuthTime(s) \in Nat
        /\ Second(clock) <= Second(clock')
    BY <1>1, Truncated, SecondsGrow DEF AuthTime
  <1>3. AuthTime(s)' = AuthTime(s) /\ Exp(s)' = Exp(s)
    BY DEF AuthTime, Exp
  <1>4. TokenValid(s)' => TokenValid(s)
    <2>1. Exp(s) * TPS \in Nat
      <3>1. auth[s] + SessionTTL * TPS \in Nat
        BY <1>1, LifeType DEF Life
      <3> QED BY <3>1, Truncated DEF Exp
    <2> QED BY <1>1, <1>3, <2>1 DEF TokenValid
  <1>5. StepUpValid(s)' => StepUpValid(s)
    <2>1. Second(clock)' = Second(clock')
      BY DEF Second
    <2> QED BY <1>2, <1>3, <2>1, GateAssumption DEF StepUpValid
  <1> QED
    BY <1>4, <1>5 DEF Status, Contract!Older

LEMMA StatusStays ==
  ASSUME NEW s \in Session, clock' = clock, auth'[s] = auth[s],
         logout'[s] = logout[s] \/ {logout[s], logout'[s]} \cap {"answered"} = {}
  PROVE  Status(s)' = Status(s)
  BY DEF Status, TokenValid, Exp, StepUpValid, AuthTime

LEMMA StatusType == ASSUME NEW s \in Session PROVE Status(s) \in Contract!Status
  BY DEF Status, Contract!Status

LEMMA AnswerType == ASSUME TypeOK, NEW r \in Request PROVE AnswerOf(r) \in Contract!Answer
  BY DEF AnswerOf, Contract!Answer, TypeOK

(* A login is fresh.                                                           *)
LEMMA LoginIsFresh ==
  ASSUME IInv, NEW s \in Session, Login(s)
  PROVE  Status(s) = "none" /\ Status(s)' = "fresh"
  <1>t. TypeOK /\ logout[s] # "answered"
    BY DEF IInv, LogoutsHaveLogins, Login
  <1>1. auth'[s] = clock /\ clock' = clock /\ logout' = logout /\ clock \in Nat \ {0}
    BY <1>t DEF Login, TypeOK
  <1>2. TokenValid(s)'
    <2>1. /\ SessionTTL >= 1 /\ SessionTTL \in Nat /\ TPS \in Nat \ {0}
          /\ clock + SessionTTL * TPS \in Nat
      BY <1>1, GateAssumption
    <2>2. SessionTTL * TPS >= TPS
      BY <2>1, Scaled
    <2> DEFINE later == clock + SessionTTL * TPS
    <2>3. later < Second(later) * TPS + TPS /\ Second(later) * TPS \in Nat
      BY <2>1, Truncated
    <2>4. clock < Second(later) * TPS
      BY <1>1, <2>1, <2>2, <2>3
    <2> QED BY <1>1, <2>4 DEF TokenValid, Exp, Second
  <1>3. StepUpValid(s)'
    <2>1. Second(clock) \in Nat
      BY <1>1, Truncated
    <2>2. Second(clock) - Second(clock) <= StepUpLimit
      BY <2>1, GateAssumption
    <2> QED BY <1>1, <2>2 DEF StepUpValid, AuthTime, Second
  <1>4. Status(s) = "none"
    BY DEF Login, Status
  <1>5. Status(s)' = "fresh"
    BY <1>t, <1>1, <1>2, <1>3 DEF Status
  <1> QED BY <1>4, <1>5

LEMMA AgeRefines ==
  ASSUME UNCHANGED <<pc, sess>>,
         \A s \in Session : \/ Status(s)' = Status(s)
                            \/ <<Status(s), Status(s)'>> \in Contract!Older
  PROVE  Contract!Next
  <1>1. \A s \in Session : Status(s)' \in Contract!Status
    BY DEF Status, Contract!Status
  <1>2. \A r \in Request : AnswerOf(r)' = AnswerOf(r)
    BY DEF AnswerOf
  <1>3. Contract!Age
    BY <1>1, <1>2 DEF Contract!Age
  <1> QED BY <1>3 DEF Contract!Next

LEMMA DoneRefines ==
  ASSUME TypeOK', \A s \in Session : Status(s)' = Status(s),
         \A r \in Request : AnswerOf(r)' \in {AnswerOf(r), <<>>}
  PROVE  Contract!Next
  <1>1. \A r \in Request : AnswerOf(r)' \in Contract!Answer
    BY DEF AnswerOf, Contract!Answer, TypeOK
  <1>2. Contract!Done
    BY <1>1 DEF Contract!Done
  <1> QED BY <1>2 DEF Contract!Next

(* A step of one request that changes where it stands is an answer or its end. *)
LEMMA RequestRefines ==
  ASSUME Lasting, IInv, Lasts, [Next]_vars, NEW r \in Request,
         UNCHANGED <<clock, auth, logout>>, pc'[r] # pc[r],
         \A q \in Request : q # r => pc'[q] = pc[q] /\ sess'[q] = sess[q]
  PROVE  Contract!Next
  <1>t. TypeOK /\ TypeOK'
    BY TypeHolds DEF IInv
  <1>s. \A s \in Session : Status(s)' = Status(s)
    BY StatusStays
  <1>o. \A q \in Request : q # r => AnswerOf(q)' = AnswerOf(q)
    BY DEF AnswerOf
  <1>1. CASE pc'[r] \notin Verdict
    <2>1. AnswerOf(r)' = <<>>
      BY <1>1 DEF AnswerOf, Verdict
    <2> QED BY <1>t, <1>s, <1>o, <2>1, DoneRefines
  <1>2. CASE pc'[r] \in {"revoked", "expired"}
    <2>1. AnswerOf(r)' = <<"refused">>
      BY <1>2 DEF AnswerOf, Verdict
    <2>2. Contract!Refuse(r)
      BY <1>s, <1>o, <2>1 DEF Contract!Refuse
    <2> QED BY <2>2 DEF Contract!Next
  <1>3. CASE pc'[r] \in {"fresh", "stale"}
    <2> DEFINE s == sess'[r]
    <2>1. /\ s \in Session /\ auth[s] # 0 /\ ~Active(s) /\ TokenValid(s)
          /\ pc'[r] = "fresh" <=> StepUpValid(s)
      BY <1>3, AcceptanceIsSound
    <2>2. Status(s) = IF pc'[r] = "fresh" THEN "fresh" ELSE "stale"
      BY <2>1 DEF Status, Active
    <2>3. CASE pc'[r] = "fresh"
      <3>1. AnswerOf(r)' = <<"authorised", s>>
        BY <2>3 DEF AnswerOf
      <3>2. Contract!Authorise(r, s)
        BY <1>s, <1>o, <2>1, <2>2, <2>3, <3>1 DEF Contract!Authorise
      <3> QED BY <2>1, <3>2 DEF Contract!Next
    <2>4. CASE pc'[r] = "stale"
      <3>1. AnswerOf(r)' = <<"served", s>>
        BY <2>4 DEF AnswerOf
      <3>2. Contract!Serve(r, s)
        BY <1>s, <1>o, <2>1, <2>2, <2>4, <3>1 DEF Contract!Serve
      <3> QED BY <2>1, <3>2 DEF Contract!Next
    <2> QED BY <1>3, <2>3, <2>4
  <1> QED BY <1>1, <1>2, <1>3 DEF Verdict

LEMMA InitRefines == Init => Contract!Init
  BY DEF Init, Contract!Init, Status, AnswerOf, Verdict

LEMMA StepRefines ==
  Lasting /\ IInv /\ Lasts /\ [Next]_vars => [Contract!Next]_(Contract!vars)
  <1> SUFFICES ASSUME Lasting, IInv, Lasts, [Next]_vars
               PROVE  Contract!Next \/ UNCHANGED Contract!vars
    OBVIOUS
  <1>t. TypeOK /\ TypeOK'
    BY TypeHolds DEF IInv
  <1>a. ASSUME UNCHANGED <<auth, pc, sess>>,
               \A s \in Session : logout[s] = "answered" => logout'[s] = "answered"
        PROVE  Contract!Next
    <2>1. clock' >= clock
      BY Grows
    <2>2. \A s \in Session : \/ Status(s)' = Status(s)
                             \/ <<Status(s), Status(s)'>> \in Contract!Older
      BY <1>t, <1>a, <2>1, StatusGrowsOlder
    <2> QED BY <1>a, <2>2, AgeRefines
  <1>1. CASE Tick
    BY <1>a, <1>1 DEF Tick
  <1>2. CASE Restart
    <2>1. ASSUME NEW s \in Session PROVE Status(s)' = Status(s)
      <3>1. logout'[s] = logout[s] \/ {logout[s], logout'[s]} \cap {"answered"} = {}
        BY <1>2 DEF Restart
      <3> QED BY <1>2, <3>1, StatusStays DEF Restart
    <2>2. \A r \in Request : AnswerOf(r)' = <<>>
      BY <1>2 DEF Restart, AnswerOf, Verdict
    <2> QED BY <1>t, <2>1, <2>2, DoneRefines
  <1>3. ASSUME NEW s \in Session, Login(s) PROVE Contract!Next
    <2>1. Status(s) = "none" /\ Status(s)' = "fresh"
      BY <1>3, LoginIsFresh
    <2>2. ASSUME NEW x \in Session, x # s PROVE Status(x)' = Status(x)
      <3>1. auth'[x] = auth[x] /\ clock' = clock /\ logout'[x] = logout[x]
        BY <1>t, <1>3, <2>2 DEF Login, TypeOK
      <3> QED BY <3>1, StatusStays
    <2>3. \A r \in Request : AnswerOf(r)' = AnswerOf(r)
      BY <1>3 DEF Login, AnswerOf
    <2>4. Contract!Login(s)
      BY <2>1, <2>2, <2>3 DEF Contract!Login
    <2> QED BY <2>4 DEF Contract!Next
  <1>4. ASSUME NEW s \in Session, LogoutBegin(s) \/ LogoutApplied(s) \/ LogoutAnswered(s)
        PROVE  Contract!Next
    <2>1. UNCHANGED <<auth, pc, sess>>
      BY <1>4 DEF LogoutBegin, LogoutApplied, LogoutAnswered
    <2>2. \A x \in Session : logout[x] = "answered" => logout'[x] = "answered"
      BY <1>t, <1>4 DEF LogoutBegin, LogoutApplied, LogoutAnswered, TypeOK
    <2> QED BY <1>a, <2>1, <2>2
  <1>5. ASSUME NEW r \in Request, NEW s \in Session, NEW upstream \in BOOLEAN,
               RequestBegin(r, s, upstream)
        PROVE  Contract!Next
    <2>1. Judge(s, FALSE) \in Verdict
      BY JudgeType
    <2>2. pc'[r] # pc[r]
      BY <1>t, <1>5, <2>1 DEF RequestBegin, TypeOK, Verdict
    <2>3. UNCHANGED <<clock, auth, logout>>
          /\ \A q \in Request : q # r => pc'[q] = pc[q] /\ sess'[q] = sess[q]
      BY <1>t, <1>5 DEF RequestBegin, TypeOK
    <2> QED BY <2>2, <2>3, RequestRefines
  <1>6. ASSUME NEW r \in Request, GetApplied(r) \/ GetReply(r) \/ GetFails(r) \/ Respond(r)
        PROVE  Contract!Next
    <2>1. Judge(sess[r], hit[r]) \in Verdict /\ Judge(sess[r], FALSE) \in Verdict
      BY <1>t, JudgeType DEF TypeOK
    <2>2. pc'[r] # pc[r]
      BY <1>t, <1>6, <2>1 DEF GetApplied, GetReply, GetFails, Respond, TypeOK, Waiting, Verdict
    <2>3. UNCHANGED <<clock, auth, logout>>
          /\ \A q \in Request : q # r => pc'[q] = pc[q] /\ sess'[q] = sess[q]
      BY <1>t, <1>6 DEF GetApplied, GetReply, GetFails, Respond, TypeOK
    <2> QED BY <2>2, <2>3, RequestRefines
  <1>7. CASE UNCHANGED vars
    BY <1>7 DEF vars, Contract!vars, Status, TokenValid, Exp, StepUpValid, AuthTime, AnswerOf
  <1> QED BY <1>1, <1>2, <1>3, <1>4, <1>5, <1>6, <1>7 DEF Next

(* With two blocklists of which either may fail or be lost, SessionGate keeps  *)
(* the contract of a session.                                                  *)
THEOREM KeepsContractHolds == Lasting => (Spec => KeepsContract)
  <1> SUFFICES ASSUME Lasting PROVE Spec => Contract!Spec
    BY DEF KeepsContract
  <1>1. Init => Lasts
    BY InitLasts
  <1>2. IInv /\ Lasts /\ [Next]_vars => Lasts'
    BY LastsStep
  <1>3. IInv /\ Lasts /\ [Next]_vars => [Contract!Next]_(Contract!vars)
    BY StepRefines
  <1> QED
    BY <1>1, <1>2, <1>3, Inductive, InitRefines, PTL DEF Spec, Contract!Spec
=============================================================================
