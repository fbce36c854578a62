--------------------------- MODULE ChallengeStore ---------------------------
(* gateway/storage/challenge_store.py: the store of WebAuthn challenges, kept  *)
(* in Redis when it answers and in the process's memory when it does not.      *)
(*                                                                             *)
(* The process is one asyncio event loop.  A call runs without interruption    *)
(* between two awaits, so it is split exactly where it waits for Redis: the    *)
(* call is sent (pc = "setex" or "getdel"), the server applies it              *)
(* ("setex_done", "getdel_done") and the reply or an exception resumes it.     *)
(* The asyncio.Lock sections contain no await and are atomic.                  *)
EXTENDS Naturals

CONSTANTS
    Nonce,             \* challenge keys; every key is saved by one call only
    Caller,            \* concurrent calls of the store
    TTL,               \* settings.CHALLENGE_TIMEOUT_SECONDS
    MaxClock,          \* bound of the clock
    RedisConfigured    \* settings.REDIS_URL is not empty

Absent == 0            \* the deadline of a key that is not stored

ASSUME StoreAssumption ==
    /\ TTL \in Nat \ {0}
    /\ MaxClock \in Nat \ {0}
    /\ RedisConfigured \in BOOLEAN

VARIABLES
    clock,             \* time.time()
    memory_store,      \* _memory_store: key -> expires_at
    redis,             \* Redis: key -> the time its TTL runs out
    redis_available,   \* _redis_available
    pc, key, expires,  \* per call: where it waits, its key, its expires_at
    hit,               \* per call: what the pipeline's GET found
    issued,            \* keys some call has begun to save
    returned,          \* key -> when save_challenge returned it to its client
    uses,              \* key -> how often consume_challenge returned it
    doubled            \* history: keys saved to memory after Redis took them too

vars == <<clock, memory_store, redis, redis_available, pc, key, expires, hit,
          issued, returned, uses, doubled>>
callVars == <<pc, key, expires, hit>>

Waiting == {"setex", "setex_done", "getdel", "getdel_done"}

TypeOK ==
    /\ clock \in Nat \ {0}
    /\ memory_store \in [Nonce -> Nat]
    /\ redis \in [Nonce -> Nat]
    /\ redis_available \in BOOLEAN
    /\ pc \in [Caller -> Waiting \cup {"idle"}]
    /\ key \in [Caller -> Nonce]
    /\ expires \in [Caller -> Nat]
    /\ hit \in [Caller -> BOOLEAN]
    /\ issued \in SUBSET Nonce
    /\ returned \in [Nonce -> Nat]
    /\ uses \in [Nonce -> Nat]
    /\ doubled \in SUBSET Nonce

Init ==
    /\ clock = 1
    /\ memory_store = [k \in Nonce |-> Absent]
    /\ redis = [k \in Nonce |-> Absent]
    /\ redis_available \in {FALSE, RedisConfigured}
    /\ pc = [c \in Caller |-> "idle"]
    /\ key \in {[c \in Caller |-> k] : k \in Nonce}
    /\ expires = [c \in Caller |-> 0]
    /\ hit = [c \in Caller |-> FALSE]
    /\ issued = {}
    /\ returned = [k \in Nonce |-> 0]
    /\ uses = [k \in Nonce |-> 0]
    /\ doubled = {}

-----------------------------------------------------------------------------
(* Redis drops a key when its TTL has run out; memory compares with `<`, so an *)
(* entry is still good at its deadline.                                        *)
RedisLive(k) == clock < redis[k]
MutMemoryLive(k) == memory_store[k] # Absent \* the deadline is not checked
MemoryLive(k) == clock <= memory_store[k]

MutMemorySave(k, deadline) == \* the remaining time, subtracted the wrong way
    /\ memory_store' = [memory_store EXCEPT ![k] = clock - deadline]
    /\ returned' = [returned EXCEPT ![k] = clock]

(* The tail of save_challenge: prune what expired, then store.                 *)
MemorySave(k, deadline) ==
    LET Pruned == [j \in Nonce |->
                     IF memory_store[j] < clock THEN Absent ELSE memory_store[j]]
    IN  /\ memory_store' = [Pruned EXCEPT ![k] = deadline]
        /\ returned' = [returned EXCEPT ![k] = clock]

MutMemoryPop(k) == \* get instead of pop
    /\ UNCHANGED memory_store
    /\ uses' = IF MemoryLive(k) THEN [uses EXCEPT ![k] = @ + 1] ELSE uses

(* The tail of consume_challenge: pop, then refuse an expired entry.           *)
MemoryPop(k) ==
    /\ memory_store' = [memory_store EXCEPT ![k] = Absent]
    /\ uses' = IF MemoryLive(k) THEN [uses EXCEPT ![k] = @ + 1] ELSE uses

Return(c) == pc' = [pc EXCEPT ![c] = "idle"]

-----------------------------------------------------------------------------
(* save_challenge *)

SaveBegin(c, k) ==
    /\ pc[c] = "idle"
    /\ k \notin issued
    /\ issued' = issued \cup {k}
    /\ IF redis_available
         THEN /\ pc' = [pc EXCEPT ![c] = "setex"]
              /\ key' = [key EXCEPT ![c] = k]
              /\ expires' = [expires EXCEPT ![c] = clock + TTL]
              /\ UNCHANGED <<memory_store, returned>>
         ELSE /\ MemorySave(k, clock + TTL)
              /\ UNCHANGED <<pc, key, expires>>
    /\ UNCHANGED <<clock, redis, redis_available, hit, uses, doubled>>

SetexApplied(c) ==
    /\ pc[c] = "setex"
    /\ pc' = [pc EXCEPT ![c] = "setex_done"]
    /\ redis' = [redis EXCEPT ![key[c]] = clock + TTL]
    /\ UNCHANGED <<clock, memory_store, redis_available, key, expires, hit,
                   issued, returned, uses, doubled>>

SetexReply(c) ==
    /\ pc[c] = "setex_done"
    /\ Return(c)
    /\ returned' = [returned EXCEPT ![key[c]] = clock]
    /\ UNCHANGED <<clock, memory_store, redis, redis_available, key, expires,
                   hit, issued, uses, doubled>>

(* The exception handler: fall through to memory with the old expires_at,      *)
(* whether the SETEX was not applied or only its reply was lost.               *)
SetexFails(c) ==
    /\ pc[c] \in {"setex", "setex_done"}
    /\ Return(c)
    /\ MemorySave(key[c], expires[c])
    /\ doubled' = IF pc[c] = "setex_done" THEN doubled \cup {key[c]} ELSE doubled
    /\ UNCHANGED <<clock, redis, redis_available, key, expires, hit, issued,
                   uses>>

-----------------------------------------------------------------------------
(* consume_challenge, of a challenge some client was given *)

ConsumeBegin(c, k) ==
    /\ pc[c] = "idle"
    /\ returned[k] # 0
    /\ IF redis_available
         THEN /\ pc' = [pc EXCEPT ![c] = "getdel"]
              /\ key' = [key EXCEPT ![c] = k]
              /\ UNCHANGED <<memory_store, uses>>
         ELSE /\ MemoryPop(k)
              /\ UNCHANGED <<pc, key>>
    /\ UNCHANGED <<clock, redis, redis_available, expires, hit, issued, returned, doubled>>

(* The MULTI/EXEC pipeline: GET and DEL in one step of the server.             *)
GetDelApplied(c) ==
    /\ pc[c] = "getdel"
    /\ pc' = [pc EXCEPT ![c] = "getdel_done"]
    /\ hit' = [hit EXCEPT ![c] = RedisLive(key[c])]
    /\ redis' = [redis EXCEPT ![key[c]] = Absent]
    /\ UNCHANGED <<clock, memory_store, redis_available, key, expires, issued,
                   returned, uses, doubled>>

(* A miss in Redis is the answer: memory is not consulted.                     *)
GetDelReply(c) ==
    /\ pc[c] = "getdel_done"
    /\ Return(c)
    /\ uses' = IF hit[c] THEN [uses EXCEPT ![key[c]] = @ + 1] ELSE uses
    /\ UNCHANGED <<clock, memory_store, redis, redis_available, key, expires,
                   hit, issued, returned, doubled>>

(* The exception handler: the connection broke before or after the pipeline    *)
(* ran, and memory is consulted instead.                                       *)
GetDelFails(c) ==
    /\ pc[c] \in {"getdel", "getdel_done"}
    /\ Return(c)
    /\ MemoryPop(key[c])
    /\ UNCHANGED <<clock, redis, redis_available, key, expires, hit, issued,
                   returned, doubled>>

-----------------------------------------------------------------------------
Tick ==
    /\ clock < MaxClock
    /\ clock' = clock + 1
    /\ UNCHANGED <<memory_store, redis, redis_available, callVars, issued,
                   returned, uses, doubled>>

(* The process restarts: __init__ and initialize.  Its memory and its calls    *)
(* are lost, Redis keeps what it holds and may or may not answer the ping.     *)
Restart ==
    /\ memory_store' = [k \in Nonce |-> Absent]
    /\ pc' = [c \in Caller |-> "idle"]
    /\ redis_available' \in {FALSE, RedisConfigured}
    /\ UNCHANGED <<clock, redis, key, expires, hit, issued, returned, uses, doubled>>

Call(c) ==
    \/ \E k \in Nonce : SaveBegin(c, k) \/ ConsumeBegin(c, k)
    \/ SetexApplied(c) \/ SetexReply(c) \/ SetexFails(c)
    \/ GetDelApplied(c) \/ GetDelReply(c) \/ GetDelFails(c)

Next == Tick \/ Restart \/ \E c \in Caller : Call(c)

Spec == Init /\ [][Next]_vars

-----------------------------------------------------------------------------
(* ChallengeStore's docstring: "strictly single-use (consumed atomically on    *)
(* verification)", whatever stores the challenge.                              *)
SingleUse == \A k \in Nonce : uses[k] <= 1

(* A challenge is handed to at most one verification, whichever of the two     *)
(* stores holds it, across concurrent calls, Redis failures and restarts; to   *)
(* at most two if a lost reply of SETEX left it in both stores.                *)
SingleUseUnlessDoubled ==
    \A k \in Nonce : uses[k] <= IF k \in doubled THEN 2 ELSE 1

(* The TTL is strict: once TTL seconds have passed since a client was given a  *)
(* challenge, neither store would still return it, even when it was saved by   *)
(* the fallback with the deadline computed before Redis failed, or by both.    *)
StrictTTL ==
    \A k \in Nonce :
        returned[k] # 0 /\ clock > returned[k] + TTL
            => ~RedisLive(k) /\ ~MemoryLive(k)

(* What the abstract challenge calls live: about to be stored, stored and not  *)
(* expired, or fetched from Redis by a pipeline whose reply is on its way.     *)
(* For one that was doubled nothing is promised: it maps to a challenge that   *)
(* is forgotten, unused, when the reply of its SETEX is lost.                  *)
Saving(c, k) == pc[c] = "setex" /\ key[c] = k
Fetched(c, k) == pc[c] = "getdel_done" /\ key[c] = k /\ hit[c]
Live == {k \in Nonce \ doubled : \/ RedisLive(k)
                                 \/ MemoryLive(k)
                                 \/ \E c \in Caller : Saving(c, k) \/ Fetched(c, k)}
Uses == [k \in Nonce |-> IF k \in doubled THEN 0 ELSE uses[k]]

(* The store implements a one-time nonce: consume_challenge returns a key only *)
(* while it is live, and a key that was consumed or forgotten never comes back *)
(* to life, in either store, through a failed call or after a restart, unless  *)
(* the reply of its own SETEX was lost.                                        *)
Abstract == INSTANCE OneTimeNonce WITH live <- Live, uses <- Uses
ImplementsOneTimeNonce == Abstract!Spec
=============================================================================
