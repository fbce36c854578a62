----------------------------- MODULE Telemetry ------------------------------
(* gateway/middleware/telemetry.py: the collector behind /metrics, and the     *)
(* audit records of gateway/crypto/audit_logger.py, which the handlers write   *)
(* beside it.  Each operation is one step of the event loop.  A route stands   *)
(* for one path with its method.                                               *)
EXTENDS Naturals, FiniteSets

CONSTANTS
    Route, HttpStatus,
    WithColon,      \* the routes whose path holds a colon
    SampleLimit     \* how many durations are kept per route

VARIABLES
    http_requests_total,
    request_durations,  \* route -> the number of samples kept
    authentication_attempts_total,
    counter_replay_violations_total,
    registration_requests_total,
    audit               \* event -> how often it was emitted

Outcome == {"success", "failure", "replay_detected"}
Event == {"PASSKEY_REGISTRATION_SUCCESS", "PASSKEY_AUTHENTICATION_SUCCESS",
          "PASSKEY_COUNTER_REPLAY_DETECTED"}

TypeOK ==
    /\ http_requests_total \in [Route \X HttpStatus -> Nat]
    /\ request_durations \in [Route -> 0 .. SampleLimit]
    /\ authentication_attempts_total \in [Outcome -> Nat]
    /\ counter_replay_violations_total \in Nat
    /\ registration_requests_total \in Nat
    /\ audit \in [Event -> Nat]

Init ==
    /\ http_requests_total = [k \in Route \X HttpStatus |-> 0]
    /\ request_durations = [rt \in Route |-> 0]
    /\ authentication_attempts_total = [o \in Outcome |-> 0]
    /\ counter_replay_violations_total = 0
    /\ registration_requests_total = 0
    /\ audit = [e \in Event |-> 0]

(* The counters live in the process only.                                      *)
Crash ==
    /\ http_requests_total' = [k \in Route \X HttpStatus |-> 0]
    /\ request_durations' = [rt \in Route |-> 0]
    /\ authentication_attempts_total' = [o \in Outcome |-> 0]
    /\ counter_replay_violations_total' = 0
    /\ registration_requests_total' = 0
    /\ audit' = [e \in Event |-> 0]

MutRecordHttp(rt, st) == \* the sample is dropped a request too early
    /\ http_requests_total' = [http_requests_total EXCEPT ![<<rt, st>>] = @ + 1]
    /\ request_durations' = [request_durations EXCEPT ![rt] =
         IF @ + 1 >= SampleLimit THEN SampleLimit - 1 ELSE @ + 1]

MutRecordFull(rt, st) == \* a route with all its samples is left alone
    IF request_durations[rt] = SampleLimit
    THEN UNCHANGED <<http_requests_total, request_durations>>
    ELSE /\ http_requests_total' = [http_requests_total EXCEPT ![<<rt, st>>] = @ + 1]
         /\ request_durations' = [request_durations EXCEPT ![rt] = @ + 1]

MutRecordAll(rt, st) == \* no sample is ever dropped
    /\ http_requests_total' = [http_requests_total EXCEPT ![<<rt, st>>] = @ + 1]
    /\ request_durations' = [request_durations EXCEPT ![rt] = @ + 1]

(* record_http_request: the oldest sample goes when there is one too many.     *)
RecordHttp(rt, st) ==
    /\ http_requests_total' = [http_requests_total EXCEPT ![<<rt, st>>] = @ + 1]
    /\ request_durations' = [request_durations EXCEPT ![rt] =
         IF @ + 1 > SampleLimit THEN SampleLimit ELSE @ + 1]

RecordAuthentication(o) ==
    authentication_attempts_total' = [authentication_attempts_total EXCEPT ![o] = @ + 1]

Emit(e) == audit' = [audit EXCEPT ![e] = @ + 1]

(* generate_prometheus_metrics: every key counted so far is split at its       *)
(* colons into exactly three parts; it raises if there are more.               *)
Renderable ==
    \A rt \in WithColon, st \in HttpStatus : http_requests_total[<<rt, st>>] = 0

(* The sum of the counters f, as the number of their tallies.                  *)
Tally(f) == UNION {{k} \X (1 .. f[k]) : k \in DOMAIN f}
Total(f) == Cardinality(Tally(f))

Counted(rt) == Total([st \in HttpStatus |-> http_requests_total[<<rt, st>>]])

(* Per route there are as many samples as requests were counted, up to the     *)
(* limit: the two dictionaries never drift apart.                              *)
SamplesMatchCounts ==
    \A rt \in Route : request_durations[rt] =
        IF Counted(rt) < SampleLimit THEN Counted(rt) ELSE SampleLimit
=============================================================================
