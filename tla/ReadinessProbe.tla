--------------------------- MODULE ReadinessProbe ---------------------------
(* health_readiness of gateway/main.py: SELECT 1, then a challenge saved and   *)
(* consumed under one key that all probes share, with a TTL of 5 s.  Without   *)
(* Redis the store never suspends and a probe saves and consumes in one step.  *)
EXTENDS Naturals

CONSTANTS Request, RedisConfigured

VARIABLES
    redis_available,
    redis,      \* the probes' key is in Redis
    memory,     \* "absent", "fresh" or "expired" in the memory store
    probe,      \* per request: what it waits for
    database,   \* per request: SELECT 1 succeeded
    cache,      \* per request: the outcome of consume_challenge
    disturbed   \* per request: what came between its save and its consumption

TypeOK ==
    /\ redis_available \in {FALSE, RedisConfigured}
    /\ redis \in BOOLEAN
    /\ memory \in {"absent", "fresh", "expired"}
    /\ probe \in [Request -> {"none", "select", "save", "consume"}]
    /\ database \in [Request -> BOOLEAN]
    /\ cache \in [Request -> {"none", "ok", "failed_consumption"}]
    /\ disturbed \in [Request -> SUBSET {"fault", "expiry", "probe"}]

Init ==
    /\ redis_available \in {FALSE, RedisConfigured}
    /\ redis = FALSE
    /\ memory = "absent"
    /\ probe = [r \in Request |-> "none"]
    /\ database = [r \in Request |-> FALSE]
    /\ cache = [r \in Request |-> "none"]
    /\ disturbed = [r \in Request |-> {}]

Begin(r) ==
    /\ probe' = [probe EXCEPT ![r] = "select"]
    /\ UNCHANGED <<redis_available, redis, memory, database, cache, disturbed>>

Report(r, found) ==
    /\ probe' = [probe EXCEPT ![r] = "none"]
    /\ cache' = [cache EXCEPT ![r] = IF found THEN "ok" ELSE "failed_consumption"]

(* SELECT 1 answers or fails; the probe goes on in either case.                *)
Select(r, ok) ==
    /\ probe[r] = "select"
    /\ database' = [database EXCEPT ![r] = ok]
    /\ IF redis_available
       THEN probe' = [probe EXCEPT ![r] = "save"] /\ UNCHANGED <<memory, cache>>
       ELSE Report(r, TRUE) /\ memory' = "absent"
    /\ UNCHANGED <<redis_available, redis, disturbed>>

(* SETEX, or its failure, applied or not, and the fallback to memory; then GET *)
(* and DEL are sent.                                                           *)
Save(r) ==
    /\ probe[r] = "save"
    /\ probe' = [probe EXCEPT ![r] = "consume"]
    /\ redis' = TRUE
    /\ UNCHANGED <<redis_available, memory, database, cache, disturbed>>

SaveFails(r, applied) ==
    /\ probe[r] = "save"
    /\ probe' = [probe EXCEPT ![r] = "consume"]
    /\ redis' = (redis \/ applied)
    /\ memory' = "fresh"
    /\ disturbed' = [disturbed EXCEPT ![r] = @ \cup {"fault"}]
    /\ UNCHANGED <<redis_available, database, cache>>

(* Every probe that has saved and not yet consumed meets c.                    *)
Disturb(r, c) ==
    disturbed' = [q \in Request |-> IF q # r /\ probe[q] = "consume"
                                    THEN disturbed[q] \cup {c} ELSE disturbed[q]]

MutConsume(r) == \* DEL before GET
    /\ probe[r] = "consume"
    /\ Report(r, FALSE)
    /\ redis' = FALSE
    /\ UNCHANGED <<redis_available, memory, database, disturbed>>

(* GET and DEL: whatever is under the key, this probe takes it.                *)
Consume(r) ==
    /\ probe[r] = "consume"
    /\ Report(r, redis)
    /\ redis' = FALSE
    /\ IF redis THEN Disturb(r, "probe") ELSE UNCHANGED disturbed
    /\ UNCHANGED <<redis_available, memory, database>>

ConsumeFails(r, applied) ==
    /\ probe[r] = "consume"
    /\ Report(r, memory = "fresh")
    /\ memory' = "absent"
    /\ redis' = (redis /\ ~applied)
    /\ disturbed' = [q \in Request |->
         IF q = r THEN disturbed[q] \cup {"fault"}
         ELSE IF probe[q] = "consume" /\ (applied \/ memory # "absent")
         THEN disturbed[q] \cup {"fault"} ELSE disturbed[q]]
    /\ UNCHANGED <<redis_available, database>>

(* Five seconds have passed since the key was saved.                           *)
Expire ==
    /\ \/ redis /\ redis' = FALSE /\ UNCHANGED memory
       \/ memory = "fresh" /\ memory' = "expired" /\ UNCHANGED redis
    /\ disturbed' = [q \in Request |-> IF probe[q] = "consume"
                                       THEN disturbed[q] \cup {"expiry"} ELSE disturbed[q]]
    /\ UNCHANGED <<redis_available, probe, database, cache>>

(* The probe has been answered.                                                *)
Forget(r) ==
    /\ database' = [database EXCEPT ![r] = FALSE]
    /\ cache' = [cache EXCEPT ![r] = "none"]
    /\ disturbed' = [disturbed EXCEPT ![r] = {}]
    /\ UNCHANGED <<redis_available, redis, memory, probe>>

(* The process restarts: initialize pings Redis again.                         *)
Crash ==
    /\ redis_available' \in {FALSE, RedisConfigured}
    /\ memory' = "absent"
    /\ probe' = [r \in Request |-> "none"]
    /\ database' = [r \in Request |-> FALSE]
    /\ cache' = [r \in Request |-> "none"]
    /\ disturbed' = [r \in Request |-> {}]
    /\ UNCHANGED redis

(* A probe whose own save and consumption met no fault, and whose key was      *)
(* neither due nor taken by another probe in between, reports the store ok: no *)
(* residue of earlier probes in Redis or in memory can spoil a later one.      *)
ProbeFailsForCause ==
    \A r \in Request : cache[r] = "failed_consumption" => disturbed[r] # {}
=============================================================================
