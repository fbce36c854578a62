-------------------------- MODULE RequestPipeline ---------------------------
(* A request's way through the gateway: RateLimitMiddleware, around            *)
(* TelemetryMiddleware, around AuthProxyMiddleware, around the routes of       *)
(* gateway/main.py; composed of the collector (Telemetry), the relaying to the *)
(* upstream service (UpstreamRelay) and the readiness probe (ReadinessProbe).  *)
(* Of the ceremonies only what reaches the collector is here.  Each action is  *)
(* the code between two awaits.  The middlewares are BaseHTTPMiddleware: each  *)
(* runs what is inside it as a task of its own, and a response is counted only *)
(* when it has been handed out to TelemetryMiddleware; other requests, a       *)
(* scrape among them, may run in between.                                      *)
EXTENDS Naturals, FiniteSets

CONSTANTS
    Request,            \* requests under way at once
    SampleLimit,
    RedisConfigured,
    MaxArrivals         \* bound of the requests a process receives

ASSUME PipelineAssumption ==
    /\ {SampleLimit, MaxArrivals} \subseteq Nat
    /\ RedisConfigured \in BOOLEAN

(* "options" are those of both ceremonies, "odd" is a path with a colon, and   *)
(* "page" a route that answers without an await.  A user is never deleted, so  *)
(* that a login's last lookup finds one.                                       *)
Ceremony == {"options", "register", "login"}
Route == Ceremony \cup {"upstream", "metrics", "readiness", "static", "page", "odd"}
HttpStatus == {200, 400, 401, 403, 404, 502, 503}
WithColon == {"odd"}

VARIABLES
    pc,                 \* per request: how far it is
    route,
    status,             \* per request: the status of its answer; 0 before
    arrived,            \* requests received by this process
    unseen,             \* requests it answered without counting them
    http_requests_total, request_durations, authentication_attempts_total,
    counter_replay_violations_total, registration_requests_total, audit,
    relay, upstream, executed,
    redis_available, redis, memory, probe, database, cache, disturbed

Metrics == INSTANCE Telemetry
Relay == INSTANCE UpstreamRelay
Probe == INSTANCE ReadinessProbe

ownVars == <<pc, route, status, arrived, unseen>>
ceremonyVars == <<authentication_attempts_total, counter_replay_violations_total,
                  registration_requests_total, audit>>
metricsVars == <<http_requests_total, request_durations, ceremonyVars>>
relayVars == <<relay, upstream, executed>>
probeVars == <<redis_available, redis, memory, probe, database, cache, disturbed>>
vars == <<ownVars, metricsVars, relayVars, probeVars>>

(* "answered" is a response on its way out to TelemetryMiddleware.             *)
Stage == {"idle", "arrived", "store", "row", "user", "session", "relay", "probe",
          "answered", "done"}

TypeOK ==
    /\ pc \in [Request -> Stage]
    /\ route \in [Request -> Route]
    /\ status \in [Request -> HttpStatus \cup {0, 429, 500}]
    /\ arrived \in 0 .. MaxArrivals
    /\ unseen \in Nat
    /\ Metrics!TypeOK
    /\ Relay!TypeOK
    /\ Probe!TypeOK

Init ==
    /\ pc = [r \in Request |-> "idle"]
    /\ route = [r \in Request |-> "page"]
    /\ status = [r \in Request |-> 0]
    /\ arrived = 0
    /\ unseen = 0
    /\ Metrics!Init
    /\ Relay!Init
    /\ Probe!Init

At(r, stage, routes) == pc[r] = stage /\ route[r] \in routes

Goto(r, stage) ==
    /\ pc' = [pc EXCEPT ![r] = stage]
    /\ UNCHANGED <<route, status, arrived, unseen>>

Answer(r, stage, st) ==
    /\ pc' = [pc EXCEPT ![r] = stage]
    /\ status' = [status EXCEPT ![r] = st]
    /\ UNCHANGED <<route, arrived, http_requests_total, request_durations>>

(* A route, or AuthProxyMiddleware, has made the response.                     *)
Respond(r, st) == Answer(r, "answered", st) /\ UNCHANGED unseen

(* A response that TelemetryMiddleware does not see, being made before it, or  *)
(* filters; or an exception that passes it and ends in a 500 of the framework. *)
RespondUnseen(r, st) == Answer(r, "done", st) /\ unseen' = unseen + 1

(* call_next returns in TelemetryMiddleware, which counts the response.        *)
CountResponse(r) ==
    /\ pc[r] = "answered"
    /\ Goto(r, "done")
    /\ Metrics!RecordHttp(route[r], status[r])
    /\ UNCHANGED <<ceremonyVars, relayVars, probeVars>>

-----------------------------------------------------------------------------
(* A request arrives; its identity is used again once nothing is left of it.   *)
Arrive(r, rt) ==
    /\ pc[r] = "idle" /\ upstream[r] = "none"
    /\ arrived < MaxArrivals
    /\ arrived' = arrived + 1
    /\ pc' = [pc EXCEPT ![r] = "arrived"]
    /\ route' = [route EXCEPT ![r] = rt]
    /\ UNCHANGED <<status, unseen, metricsVars, relayVars, probeVars>>

(* RateLimitMiddleware answers 429.                                            *)
Throttle(r) ==
    /\ At(r, "arrived", Ceremony)
    /\ RespondUnseen(r, 429)
    /\ UNCHANGED <<ceremonyVars, relayVars, probeVars>>

ServeStatic(r) ==
    /\ At(r, "arrived", {"static"})
    /\ RespondUnseen(r, 200)
    /\ UNCHANGED <<ceremonyVars, relayVars, probeVars>>

(* /, /health, /health/liveness; a path nobody serves; AuthProxyMiddleware's   *)
(* refusal of a request without a valid token.                                 *)
ServePage(r, st) ==
    /\ At(r, "arrived", {"page", "odd", "upstream"})
    /\ \/ route[r] = "page" /\ st = 200
       \/ route[r] = "odd" /\ st \in {401, 404}
       \/ route[r] = "upstream" /\ st = 401
    /\ Respond(r, st)
    /\ UNCHANGED <<ceremonyVars, relayVars, probeVars>>

(* get_prometheus_metrics: the scrape itself is counted only afterwards.       *)
Scrape(r) ==
    /\ At(r, "arrived", {"metrics"})
    /\ IF Metrics!Renderable THEN Respond(r, 200) ELSE RespondUnseen(r, 500)
    /\ UNCHANGED <<ceremonyVars, relayVars, probeVars>>

-----------------------------------------------------------------------------
(* The ceremonies wait for the challenge store, then for the database.  Any    *)
(* statement may fail: the request is a 500 and what was counted stays.        *)
Enter(r) ==
    /\ At(r, "arrived", Ceremony)
    /\ Goto(r, "store")
    /\ UNCHANGED <<metricsVars, relayVars, probeVars>>

Raise(r) ==
    /\ pc[r] \in {"store", "row", "user"}
    /\ RespondUnseen(r, 500)
    /\ UNCHANGED <<ceremonyVars, relayVars, probeVars>>

OptionsSaved(r) ==
    /\ At(r, "store", {"options"})
    /\ Respond(r, 200)
    /\ UNCHANGED <<ceremonyVars, relayVars, probeVars>>

(* An unknown passkey, a challenge that is gone, an attestation that fails.    *)
Refuse(r, st) ==
    /\ At(r, "store", {"register", "login"})
    /\ st = 400 \/ (st = 404 /\ route[r] = "login")
    /\ Respond(r, st)
    /\ UNCHANGED <<ceremonyVars, relayVars, probeVars>>

AssertionFails(r) ==
    /\ At(r, "store", {"login"})
    /\ Metrics!RecordAuthentication("failure")
    /\ Respond(r, 400)
    /\ UNCHANGED <<counter_replay_violations_total, registration_requests_total, audit,
                   relayVars, probeVars>>

MutReplayDetected(r) == \* the general except clause comes first
    /\ At(r, "store", {"login"})
    /\ Metrics!RecordAuthentication("failure")
    /\ Metrics!Emit("PASSKEY_COUNTER_REPLAY_DETECTED")
    /\ Respond(r, 403)
    /\ UNCHANGED <<counter_replay_violations_total, registration_requests_total,
                   relayVars, probeVars>>

ReplayDetected(r) ==
    /\ At(r, "store", {"login"})
    /\ counter_replay_violations_total' = counter_replay_violations_total + 1
    /\ Metrics!RecordAuthentication("replay_detected")
    /\ Metrics!Emit("PASSKEY_COUNTER_REPLAY_DETECTED")
    /\ Respond(r, 403)
    /\ UNCHANGED <<registration_requests_total, relayVars, probeVars>>

Verified(r) ==
    /\ At(r, "store", {"register", "login"})
    /\ Goto(r, "row")
    /\ UNCHANGED <<metricsVars, relayVars, probeVars>>

Registered(r) ==
    /\ At(r, "row", {"register"})
    /\ registration_requests_total' = registration_requests_total + 1
    /\ Metrics!Emit("PASSKEY_REGISTRATION_SUCCESS")
    /\ Respond(r, 200)
    /\ UNCHANGED <<authentication_attempts_total, counter_replay_violations_total,
                   relayVars, probeVars>>

(* The counter is committed: a success, before the user is even looked up.     *)
CounterStored(r) ==
    /\ At(r, "row", {"login"})
    /\ Metrics!RecordAuthentication("success")
    /\ Goto(r, "user")
    /\ UNCHANGED <<http_requests_total, request_durations,
                   counter_replay_violations_total, registration_requests_total, audit,
                   relayVars, probeVars>>

SessionIssued(r) ==
    /\ pc[r] = "user"
    /\ Metrics!Emit("PASSKEY_AUTHENTICATION_SUCCESS")
    /\ Respond(r, 200)
    /\ UNCHANGED <<authentication_attempts_total, counter_replay_violations_total,
                   registration_requests_total, relayVars, probeVars>>

-----------------------------------------------------------------------------
(* /upstream with a valid token: get_current_session waits for Redis.          *)
CheckSession(r) ==
    /\ At(r, "arrived", {"upstream"})
    /\ Goto(r, "session")
    /\ UNCHANGED <<metricsVars, relayVars, probeVars>>

SessionRefused(r) ==
    /\ pc[r] = "session"
    /\ Respond(r, 401)
    /\ UNCHANGED <<ceremonyVars, relayVars, probeVars>>

SessionAccepted(r) ==
    /\ pc[r] = "session"
    /\ Goto(r, "relay")
    /\ Relay!Begin(r)
    /\ UNCHANGED <<metricsVars, probeVars>>

Send(r) == Relay!Send(r) /\ UNCHANGED <<ownVars, metricsVars, probeVars>>
Execute(r) == Relay!Execute(r) /\ UNCHANGED <<ownVars, metricsVars, probeVars>>
Reject(r) == Relay!Reject(r) /\ UNCHANGED <<ownVars, metricsVars, probeVars>>
Vanish(r) == Relay!Vanish(r) /\ UNCHANGED <<ownVars, metricsVars, probeVars>>

Abort(r) ==
    /\ Relay!Abort(r)
    /\ RespondUnseen(r, 500)
    /\ UNCHANGED <<ceremonyVars, probeVars>>

PassOn(r) ==
    /\ Relay!PassOn(r)
    /\ Respond(r, IF upstream[r] = "carried_out" THEN 200 ELSE 404)
    /\ UNCHANGED <<ceremonyVars, probeVars>>

MutGiveUp(r) == \* one more attempt
    /\ relay[r] = "reply"
    /\ upstream[r] # "transit"
    /\ upstream' = [upstream EXCEPT ![r] = "transit"]
    /\ UNCHANGED <<ownVars, metricsVars, relay, executed, probeVars>>

MutNoTimeout(r) == \* timeout=None: only a broken connection is noticed
    /\ upstream[r] = "none"
    /\ Relay!GiveUp(r)
    /\ Respond(r, 502)
    /\ UNCHANGED <<ceremonyVars, probeVars>>

GiveUp(r) ==
    /\ Relay!GiveUp(r)
    /\ Respond(r, 502)
    /\ UNCHANGED <<ceremonyVars, probeVars>>

-----------------------------------------------------------------------------
Examine(r) ==
    /\ At(r, "arrived", {"readiness"})
    /\ Goto(r, "probe")
    /\ Probe!Begin(r)
    /\ UNCHANGED <<metricsVars, relayVars>>

(* A step of the probe; with its last one it answers.                          *)
ProbeStep(r) ==
    \/ \E ok \in BOOLEAN : Probe!Select(r, ok)
    \/ Probe!Save(r)
    \/ Probe!Consume(r)
    \/ \E applied \in BOOLEAN : Probe!SaveFails(r, applied) \/ Probe!ConsumeFails(r, applied)

Examined(r) ==
    /\ pc[r] = "probe"
    /\ ProbeStep(r)
    /\ IF probe'[r] = "none"
       THEN Respond(r, IF database'[r] THEN 200 ELSE 503) /\ UNCHANGED ceremonyVars
       ELSE UNCHANGED <<ownVars, metricsVars>>
    /\ UNCHANGED relayVars

ProbeKeyExpires == Probe!Expire /\ UNCHANGED <<ownVars, metricsVars, relayVars>>

-----------------------------------------------------------------------------
(* The client has its answer.                                                  *)
Leave(r) ==
    /\ pc[r] = "done"
    /\ pc' = [pc EXCEPT ![r] = "idle"]
    /\ route' = [route EXCEPT ![r] = "page"]
    /\ status' = [status EXCEPT ![r] = 0]
    /\ Relay!Forget(r)
    /\ Probe!Forget(r)
    /\ UNCHANGED <<arrived, unseen, metricsVars>>

(* The process dies with its requests and its counters, and starts again.      *)
Restart ==
    /\ pc' = [r \in Request |-> "idle"]
    /\ arrived' = 0
    /\ unseen' = 0
    /\ route' = [r \in Request |-> "page"]
    /\ status' = [r \in Request |-> 0]
    /\ Metrics!Crash
    /\ Relay!Crash
    /\ Probe!Crash

(* What the event loop does next for a request.                                *)
Local(r) ==
    \/ Throttle(r) \/ ServeStatic(r) \/ Scrape(r) \/ Enter(r) \/ CheckSession(r)
    \/ Examine(r) \/ CountResponse(r) \/ \E st \in HttpStatus : ServePage(r, st)

(* What it does when the store, the database or Redis has answered.            *)
Resumed(r) ==
    \/ OptionsSaved(r) \/ AssertionFails(r) \/ ReplayDetected(r) \/ Verified(r)
    \/ Registered(r) \/ CounterStored(r) \/ SessionIssued(r) \/ Raise(r)
    \/ SessionRefused(r) \/ SessionAccepted(r) \/ Examined(r)
    \/ \E st \in HttpStatus : Refuse(r, st)

Relaying(r) == Send(r) \/ Abort(r) \/ PassOn(r) \/ GiveUp(r)
Outside(r) == Execute(r) \/ Reject(r) \/ Vanish(r)

Next ==
    \/ \E r \in Request :
         \/ \E rt \in Route : Arrive(r, rt)
         \/ Local(r) \/ Resumed(r) \/ Relaying(r) \/ Outside(r) \/ Leave(r)
    \/ ProbeKeyExpires
    \/ Restart

Spec == Init /\ [][Next]_vars

(* Redis, or the client whose body is incomplete, has the next move in r:      *)
(* nothing in the code bounds these waits.                                     *)
OwedByRedis(r) ==
    /\ redis_available
    /\ pc[r] \in {"store", "session"} \/ probe[r] \in {"save", "consume"}
OwedByClient(r) == relay[r] = "body"

(* The event loop runs what is ready, the database answers or reports that it  *)
(* is locked, and httpx ends a wait of 30 s for the upstream service.  That    *)
(* service need not answer, but an answer it begins has an end.  Nothing is    *)
(* assumed of Redis or of the client.                                          *)
FairSpec ==
    /\ Spec
    /\ \A r \in Request : /\ WF_vars(Local(r))
                          /\ WF_vars(~OwedByRedis(r) /\ Resumed(r))
                          /\ WF_vars(PassOn(r) \/ GiveUp(r))

-----------------------------------------------------------------------------
InFlight == {r \in Request : pc[r] \notin {"idle", "done"}}

(* Every request the process received is under way, counted once, or one of    *)
(* those that never pass TelemetryMiddleware; whatever fails in between.       *)
NothingCountedTwice ==
    arrived = Cardinality(InFlight) + Metrics!Total(http_requests_total) + unseen

(* Responses of status st made by route rt, counted already or about to be.    *)
Pending(rt, st) == {r \in Request : At(r, "answered", {rt}) /\ status[r] = st}
Answered(rt, st) == http_requests_total[<<rt, st>>] + Cardinality(Pending(rt, st))

(* The ceremony counters, raised inside the routes, agree with the responses:  *)
(* as many alarms as 403s and audit records of them; as many audited logins as *)
(* logins answered 200; and every login counted as a success was answered 200, *)
(* waits for the user's row or failed on that last step.  A scrape may find    *)
(* gateway_http_requests_total behind by the responses still on their way out, *)
(* and by no more: none of them is lost between the two middlewares.           *)
CountersAgree ==
    LET success == authentication_attempts_total["success"]
        answered == Answered("login", 200)
        waiting == Cardinality({r \in Request : pc[r] = "user"})
    IN  /\ authentication_attempts_total["replay_detected"]
             = counter_replay_violations_total
        /\ counter_replay_violations_total = Answered("login", 403)
        /\ counter_replay_violations_total = audit["PASSKEY_COUNTER_REPLAY_DETECTED"]
        /\ answered = audit["PASSKEY_AUTHENTICATION_SUCCESS"]
        /\ success >= answered + waiting
        /\ success <= answered + waiting + unseen
        /\ authentication_attempts_total["failure"] <= Answered("login", 400)
        /\ registration_requests_total = Answered("register", 200)
        /\ registration_requests_total = audit["PASSKEY_REGISTRATION_SUCCESS"]

SamplesMatchCounts == Metrics!SamplesMatchCounts

(* Its response is made.                                                       *)
Settled(r, routes) == pc[r] \in {"answered", "done"} /\ route[r] \in routes

(* A relayed request is carried out at most once, exactly once if its client   *)
(* is told so, and never if its session was refused.  A 502 leaves it open.    *)
RelayedOnce ==
    \A r \in Request :
        /\ executed[r] <= 1
        /\ Settled(r, {"upstream"}) /\ status[r] = 200 => executed[r] = 1
        /\ Settled(r, {"upstream"}) /\ status[r] \in {401, 404, 500} => executed[r] = 0

ProbeFailsForCause == Probe!ProbeFailsForCause

(* README.md: "a production-ready /metrics endpoint".  A scrape is never       *)
(* answered 500.                                                               *)
MetricsAreServed == \A r \in Request : At(r, "done", {"metrics"}) => status[r] = 200

(* Only Redis, or a client that does not complete its body, can keep a request *)
(* waiting for ever: every other request is answered, though the upstream      *)
(* service be gone and any statement of the database fail.                     *)
OnlyRedisOrClientStalls ==
    \A r \in Request :
        pc[r] = "arrived" ~> \/ pc[r] \in {"done", "idle"}
                            \/ []OwedByRedis(r) \/ []OwedByClient(r)
=============================================================================
