---------------------------- MODULE SessionGate -----------------------------
(* Session tokens from login to logout: gateway/crypto/tokens.py,              *)
(* gateway/crypto/token_revocation.py, get_current_session, logout and the     *)
(* step-up check of gateway/main.py, and the token check that                  *)
(* gateway/middleware/auth_proxy.py puts before /upstream.                     *)
(*                                                                             *)
(* A token is a signed JWT without an identifier of its own: two tokens of the *)
(* same credential made in the same second are the same string.  Its times are *)
(* whole seconds while the process reads the clock in fractions, so one second *)
(* is TPS ticks here.                                                          *)
EXTENDS Naturals

CONSTANTS
    Session,          \* logins of users, each yielding one token
    Credential, CredentialOf,
    Request,          \* requests that pass get_current_session
    TPS,              \* ticks per second
    SessionTTL,       \* SESSION_EXPIRATION_MINUTES, in seconds
    RevokeTTL,        \* the ttl_seconds that logout leaves at its default
    StepUpLimit,      \* STEP_UP_MAX_AGE_SECONDS
    RedisConfigured,  \* REDIS_URL is not empty
    Faults,           \* what may go wrong: each run of the gateway meets one
                      \* member, a subset of {"redis", "restart"}
    MaxClock          \* bound of the clock, in ticks

ASSUME GateAssumption ==
    /\ CredentialOf \in [Session -> Credential]
    /\ TPS \in Nat \ {0}
    /\ {SessionTTL, RevokeTTL} \subseteq Nat \ {0}
    /\ {StepUpLimit, MaxClock} \subseteq Nat
    /\ RedisConfigured \in BOOLEAN
    /\ Faults \in SUBSET SUBSET {"redis", "restart"}

VARIABLES
    faults,           \* the member of Faults; it never changes
    clock,
    auth,             \* session -> when it logged in; 0 before
    memory_blocklist, \* session whose logout wrote the entry -> its expiry
    redis,            \* the same for the webauthn:revoked keys in Redis
    redis_available,
    logout,           \* per session: how far its logout is
    pc, sess,         \* per request: where it waits or its verdict; its session
    hit               \* per request: what the Redis GET found

vars == <<faults, clock, auth, memory_blocklist, redis, redis_available, logout, pc,
          sess, hit>>

LogoutState == {"none", "setex", "setex_done", "answered", "lost"}
Waiting == {"get", "get_done"}
Verdict == {"revoked", "expired", "fresh", "stale"}

TypeOK ==
    /\ faults \in Faults
    /\ clock \in Nat \ {0}
    /\ auth \in [Session -> Nat]
    /\ memory_blocklist \in [Session -> Nat]
    /\ redis \in [Session -> Nat]
    /\ redis_available \in BOOLEAN
    /\ logout \in [Session -> LogoutState]
    /\ pc \in [Request -> {"idle"} \cup Waiting \cup Verdict]
    /\ sess \in [Request -> Session]
    /\ hit \in [Request -> BOOLEAN]

(* Redis may refuse a call, or the ping when the process starts.               *)
RedisFails == "redis" \in faults
Reachable == IF RedisFails THEN {FALSE, RedisConfigured} ELSE {RedisConfigured}

Init ==
    /\ faults \in Faults
    /\ clock = TPS
    /\ auth = [s \in Session |-> 0]
    /\ memory_blocklist = [s \in Session |-> 0]
    /\ redis = [s \in Session |-> 0]
    /\ redis_available \in Reachable
    /\ logout = [s \in Session |-> "none"]
    /\ pc = [r \in Request |-> "idle"]
    /\ sess \in {[r \in Request |-> s] : s \in Session}
    /\ hit = [r \in Request |-> FALSE]

-----------------------------------------------------------------------------
(* create_session_token: auth_time, iat and exp are truncated to seconds.      *)
Second(t) == t \div TPS
AuthTime(s) == Second(auth[s])
Exp(s) == Second(auth[s] + SessionTTL * TPS)
SameToken(s, t) == /\ auth[s] # 0 /\ auth[t] # 0
                   /\ CredentialOf[s] = CredentialOf[t]
                   /\ AuthTime(s) = AuthTime(t)

(* verify_session_token: expired from the second exp on.                       *)
TokenValid(s) == clock < Exp(s) * TPS

MutStepUpValid(s) == Second(clock) - AuthTime(s) < StepUpLimit

(* is_step_up_valid *)
StepUpValid(s) == Second(clock) - AuthTime(s) <= StepUpLimit

MutInRedis(s) == FALSE   \* only memory is asked
MutInMemory(s) == FALSE  \* only Redis is asked

MutInMemoryOfCredential(s) == \* the blocklist holds credentials, not tokens
    \E t \in Session : CredentialOf[t] = CredentialOf[s] /\ memory_blocklist[t] > clock

(* The two halves of is_revoked.                                               *)
InRedis(s) == \E t \in Session : SameToken(s, t) /\ redis[t] > clock
InMemory(s) == \E t \in Session : SameToken(s, t) /\ memory_blocklist[t] > clock

MutJudge(s, found) == \* the step-up refusal is not told from an acceptance
    IF found \/ InMemory(s) THEN "revoked"
    ELSE IF TokenValid(s) THEN "accepted" ELSE "expired"

(* What follows is_revoked's Redis lookup in get_current_session and in the    *)
(* endpoint, up to the next await.                                             *)
Judge(s, found) ==
    IF found \/ InMemory(s) THEN "revoked"
    ELSE IF ~TokenValid(s) THEN "expired"
    ELSE IF StepUpValid(s) THEN "fresh" ELSE "stale"

-----------------------------------------------------------------------------
Tick ==
    /\ clock < MaxClock
    /\ clock' = clock + 1
    /\ UNCHANGED <<faults, auth, memory_blocklist, redis, redis_available, logout, pc,
                   sess, hit>>

Login(s) ==
    /\ auth[s] = 0
    /\ auth' = [auth EXCEPT ![s] = clock]
    /\ UNCHANGED <<faults, clock, memory_blocklist, redis, redis_available, logout, pc,
                   sess, hit>>

(* logout and revoke: the blocklist is pruned and extended before Redis is     *)
(* told; whatever Redis does, the answer is 200.                               *)
LogoutBegin(s) ==
    /\ auth[s] # 0
    /\ logout[s] \in {"none", "lost"}
    /\ memory_blocklist' = [t \in Session |->
         IF t = s THEN clock + RevokeTTL * TPS
         ELSE IF memory_blocklist[t] > clock THEN memory_blocklist[t] ELSE 0]
    /\ logout' = [logout EXCEPT ![s] = IF redis_available THEN "setex" ELSE "answered"]
    /\ UNCHANGED <<faults, clock, auth, redis, redis_available, pc, sess, hit>>

LogoutApplied(s) ==
    /\ logout[s] = "setex"
    /\ redis' = [redis EXCEPT ![s] = clock + RevokeTTL * TPS]
    /\ logout' = [logout EXCEPT ![s] = "setex_done"]
    /\ UNCHANGED <<faults, clock, auth, memory_blocklist, redis_available, pc, sess, hit>>

LogoutAnswered(s) ==
    /\ logout[s] = "setex_done" \/ (logout[s] = "setex" /\ RedisFails)
    /\ logout' = [logout EXCEPT ![s] = "answered"]
    /\ UNCHANGED <<faults, clock, auth, memory_blocklist, redis, redis_available, pc,
                   sess, hit>>

-----------------------------------------------------------------------------
(* A request of session s.  /upstream first passes AuthProxyMiddleware, which  *)
(* checks the token but not its revocation.                                    *)
RequestBegin(r, s, upstream) ==
    /\ pc[r] = "idle"
    /\ auth[s] # 0
    /\ sess' = [sess EXCEPT ![r] = s]
    /\ pc' = [pc EXCEPT ![r] = IF upstream /\ ~TokenValid(s) THEN "expired"
                               ELSE IF redis_available THEN "get"
                               ELSE Judge(s, FALSE)]
    /\ UNCHANGED <<faults, clock, auth, memory_blocklist, redis, redis_available,
                   logout, hit>>

GetApplied(r) ==
    /\ pc[r] = "get"
    /\ pc' = [pc EXCEPT ![r] = "get_done"]
    /\ hit' = [hit EXCEPT ![r] = InRedis(sess[r])]
    /\ UNCHANGED <<faults, clock, auth, memory_blocklist, redis, redis_available,
                   logout, sess>>

GetReply(r) ==
    /\ pc[r] = "get_done"
    /\ pc' = [pc EXCEPT ![r] = Judge(sess[r], hit[r])]
    /\ UNCHANGED <<faults, clock, auth, memory_blocklist, redis, redis_available,
                   logout, sess, hit>>

(* The exception is swallowed and only memory is asked.                        *)
GetFails(r) ==
    /\ RedisFails
    /\ pc[r] \in Waiting
    /\ pc' = [pc EXCEPT ![r] = Judge(sess[r], FALSE)]
    /\ UNCHANGED <<faults, clock, auth, memory_blocklist, redis, redis_available,
                   logout, sess, hit>>

(* The endpoint answers, or /upstream relays the request, and it is over.      *)
Respond(r) ==
    /\ pc[r] \in Verdict
    /\ pc' = [pc EXCEPT ![r] = "idle"]
    /\ UNCHANGED <<faults, clock, auth, memory_blocklist, redis, redis_available,
                   logout, sess, hit>>

-----------------------------------------------------------------------------
Restart ==
    /\ "restart" \in faults
    /\ memory_blocklist' = [s \in Session |-> 0]
    /\ redis_available' \in Reachable
    /\ pc' = [r \in Request |-> "idle"]
    /\ logout' = [s \in Session |->
         IF logout[s] \in {"setex", "setex_done"} THEN "lost" ELSE logout[s]]
    /\ UNCHANGED <<faults, clock, auth, redis, sess, hit>>

Next ==
    \/ Tick
    \/ Restart
    \/ \E s \in Session : Login(s) \/ LogoutBegin(s) \/ LogoutApplied(s)
                             \/ LogoutAnswered(s)
    \/ \E r \in Request, s \in Session, upstream \in BOOLEAN :
         RequestBegin(r, s, upstream)
    \/ \E r \in Request : GetApplied(r) \/ GetReply(r) \/ GetFails(r)
                             \/ Respond(r)

Spec == Init /\ [][Next]_vars

-----------------------------------------------------------------------------
(* The request is judged v in this step.                                       *)
Judged(r, v) == pc[r] # v /\ pc'[r] = v
Accepted(r) == Judged(r, "fresh") \/ Judged(r, "stale")

(* From the moment logout runs, its session is accepted nowhere any more, even *)
(* by a request whose Redis lookup had already missed, to the end of the       *)
(* token's life, while Redis fails or while the process restarts; only a       *)
(* logout that a restart cut off before its answer may be undone.              *)
LogoutTakesEffectAtOnce ==
    [][\A r \in Request : Accepted(r) => logout[sess'[r]] \in {"none", "lost"}]_vars

(* The step-up check is exact to the truncated second: it authorises no login  *)
(* as old as the limit plus one second, and refuses none within the limit.     *)
StepUpIsTimely ==
    [][\A r \in Request :
         LET age == clock - auth[sess'[r]]
         IN  /\ Judged(r, "fresh") => age < (StepUpLimit + 1) * TPS
             /\ Judged(r, "stale") => age > StepUpLimit * TPS]_vars

(* logout's docstring: it invalidates the session whose token it is given.     *)
(* Only a session that got the very same token in the same second is answered  *)
(* "Session has been revoked" with it, and none before a logout runs.          *)
LogoutReachesItsTokenOnly ==
    \A r \in Request : pc[r] = "revoked" =>
        \E s \in Session : SameToken(sess[r], s) /\ logout[s] # "none"

(* The stage of life of a session, and the answer of a request, as its client  *)
(* can tell them.                                                              *)
Status(s) ==
    IF auth[s] = 0 THEN "none"
    ELSE IF logout[s] = "answered" \/ ~TokenValid(s) THEN "ended"
    ELSE IF StepUpValid(s) THEN "fresh" ELSE "stale"

AnswerOf(r) ==
    IF pc[r] = "fresh" THEN <<"authorised", sess[r]>>
    ELSE IF pc[r] = "stale" THEN <<"served", sess[r]>>
    ELSE IF pc[r] \in Verdict THEN <<"refused">> ELSE <<>>

Contract == INSTANCE SessionContract WITH
    status <- [s \in Session |-> Status(s)],
    answer <- [r \in Request |-> AnswerOf(r)]

(* While RevokeTTL >= SessionTTL, the gateway keeps the contract, in spite of  *)
(* two blocklists of which either may fail or be lost.                         *)
KeepsContract == Contract!Spec
=============================================================================
