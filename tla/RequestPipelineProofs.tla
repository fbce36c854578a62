----------------------- MODULE RequestPipelineProofs ------------------------
(* Proofs about a request's way through the gateway, for every set of requests *)
(* under way, every limit of samples, with Redis and without it.               *)
EXTENDS RequestPipeline, FiniteSetTheorems, TLAPS

(* What a request at a stage was sent to.                                      *)
Fits(stage, rt) ==
    /\ stage \in {"session", "relay"} => rt = "upstream"
    /\ stage = "probe" => rt = "readiness"
    /\ stage = "store" => rt \in Ceremony
    /\ stage = "row" => rt \in {"register", "login"}
    /\ stage = "user" => rt = "login"

RoutesFit == \A r \in Request : Fits(pc[r], route[r])

(* A response on its way to be counted has a status that can be.               *)
StatusFits == \A r \in Request : pc[r] = "answered" => status[r] \in HttpStatus

(* However many identities requests may have, few are in use and few counters  *)
(* have risen: what is counted below can be counted.                           *)
Row(rt) == [st \in HttpStatus |-> http_requests_total[<<rt, st>>]]
Countable ==
    /\ IsFiniteSet(InFlight)
    /\ IsFiniteSet(Metrics!Tally(http_requests_total))
    /\ \A rt \in Route : IsFiniteSet(Metrics!Tally(Row(rt)))

(* Only a request that is being relayed, or whose answer is a 502, has         *)
(* anything outside; what is outside was carried out if it says so; and an     *)
(* answer that settles the question leaves nothing there.                      *)
RelayFits(r) ==
    /\ relay[r] # "none" => pc[r] = "relay"
    /\ relay[r] = "body" => upstream[r] = "none"
    /\ relay[r] = "reply" => upstream[r] # "none"
    /\ pc[r] \notin {"idle", "relay", "answered", "done"} => upstream[r] = "none"
    /\ upstream[r] \in {"transit", "rejected"} => executed[r] = 0
    /\ upstream[r] = "carried_out" => executed[r] = 1
    /\ upstream[r] = "none" /\ pc[r] \notin {"answered", "done"} => executed[r] = 0
    /\ Settled(r, {"upstream"}) /\ status[r] \in {200, 401, 404, 500}
         => upstream[r] = "none"

RelayInv == RelayedOnce /\ \A r \in Request : RelayFits(r)

(* A probe that saved its key and met nothing since will find it.              *)
ProbeFits(r) ==
    /\ probe[r] # "none" => pc[r] = "probe"
    /\ probe[r] = "consume" /\ disturbed[r] = {} => redis
ProbeInv == ProbeFailsForCause /\ \A r \in Request : ProbeFits(r)

IInv ==
    /\ TypeOK
    /\ RoutesFit
    /\ StatusFits
    /\ Countable
    /\ NothingCountedTwice
    /\ SamplesMatchCounts
    /\ CountersAgree
    /\ RelayInv
    /\ ProbeInv

-----------------------------------------------------------------------------
(* Sums of counters.                                                           *)
LEMMA TallyMember ==
  ASSUME NEW f, NEW x
  PROVE  x \in Metrics!Tally(f) <=> \E k \in DOMAIN f : \E i \in 1 .. f[k] : x = <<k, i>>
  BY DEF Metrics!Tally

LEMMA TotalIsCardinality ==
  ASSUME NEW f
  PROVE  Metrics!Total(f) = Cardinality(Metrics!Tally(f))
  BY Zenon DEF Metrics!Total, Metrics!Cardinality, Cardinality

(* A counter that goes up by one adds one to the sum.                          *)
LEMMA TotalAdds ==
  ASSUME NEW D, NEW f \in [D -> Nat], NEW k \in D, IsFiniteSet(Metrics!Tally(f))
  PROVE  LET g == [f EXCEPT ![k] = @ + 1]
         IN  /\ IsFiniteSet(Metrics!Tally(g))
             /\ Metrics!Total(g) = Metrics!Total(f) + 1
  <1> DEFINE g == [f EXCEPT ![k] = @ + 1]
             new == <<k, f[k] + 1>>
  <1>0. /\ g \in [D -> Nat] /\ g[k] = f[k] + 1
        /\ \A j \in D : j # k => g[j] = f[j]
    OBVIOUS
  <1> HIDE DEF g
  <1>1. Metrics!Tally(g) = Metrics!Tally(f) \cup {new}
    <2>1. ASSUME NEW x \in Metrics!Tally(g)
          PROVE  x \in Metrics!Tally(f) \cup {new}
      <3>1. PICK j \in D : \E i \in 1 .. g[j] : x = <<j, i>>
        BY <1>0, <2>1, TallyMember
      <3>2. PICK i \in 1 .. g[j] : x = <<j, i>>
        BY <3>1
      <3>3. i \in 1 .. f[j] \/ (j = k /\ i = f[k] + 1)
        BY <1>0, <3>2
      <3>4. CASE i \in 1 .. f[j]
        BY <3>4, <3>2, TallyMember
      <3> QED
        BY <3>2, <3>3, <3>4
    <2>2. ASSUME NEW x \in Metrics!Tally(f)
          PROVE  x \in Metrics!Tally(g)
      <3>1. PICK j \in D : \E i \in 1 .. f[j] : x = <<j, i>>
        BY <2>2, TallyMember
      <3>2. PICK i \in 1 .. f[j] : x = <<j, i>>
        BY <3>1
      <3>3. i \in 1 .. g[j] /\ j \in DOMAIN g
        BY <1>0, <3>2
      <3> QED
        BY <3>2, <3>3, TallyMember
    <2>3. new \in Metrics!Tally(g)
      <3>1. f[k] + 1 \in 1 .. g[k] /\ k \in DOMAIN g
        BY <1>0
      <3> QED
        BY <3>1, TallyMember
    <2> QED
      BY <2>1, <2>2, <2>3
  <1>2. new \notin Metrics!Tally(f)
    <2>1. f[k] + 1 \notin 1 .. f[k]
      OBVIOUS
    <2> QED
      BY <2>1, TallyMember
  <1>3. /\ IsFiniteSet(Metrics!Tally(f) \cup {new})
        /\ Cardinality(Metrics!Tally(f) \cup {new}) = Cardinality(Metrics!Tally(f)) + 1
    BY <1>2, FS_AddElement
  <1> QED
    BY <1>1, <1>3, TotalIsCardinality DEF g

(* The sum of counters that are all 0 is 0.                                    *)
LEMMA TotalOfZeros ==
  ASSUME NEW D
  PROVE  LET z == [k \in D |-> 0]
         IN  /\ IsFiniteSet(Metrics!Tally(z))
             /\ Metrics!Total(z) = 0
  <1> DEFINE z == [k \in D |-> 0]
  <1>1. Metrics!Tally(z) = {}
    <2>1. ASSUME NEW x \in Metrics!Tally(z) PROVE FALSE
      <3>1. PICK j \in D : \E i \in 1 .. z[j] : x = <<j, i>>
        BY <2>1, TallyMember
      <3> QED
        BY <3>1
    <2> QED
      BY <2>1
  <1> QED
    BY <1>1, TotalIsCardinality, FS_EmptySet

-----------------------------------------------------------------------------
(* What a step does to a request and to the counters, by kind.                 *)
Moves(r, stage) ==
    /\ pc[r] \in {"arrived", "store"}
    /\ stage \in {"store", "row", "session", "probe"}
    /\ Fits(stage, route[r])
    /\ Goto(r, stage)
    /\ UNCHANGED <<metricsVars, relayVars>>

Seen(r, st) ==
    /\ pc[r] \in {"arrived", "store", "session", "probe"}
    /\ route[r] = "upstream" => st = 401
    /\ route[r] = "login" => st \in {400, 404}
    /\ route[r] = "register" => st = 400
    /\ Respond(r, st)
    /\ UNCHANGED <<ceremonyVars, relayVars>>

Unseen(r, st) ==
    /\ pc[r] \in {"arrived", "store", "row", "user"}
    /\ route[r] # "upstream"
    /\ RespondUnseen(r, st)
    /\ UNCHANGED <<ceremonyVars, relayVars>>

CeremonyStep(r) ==
    \/ AssertionFails(r) \/ ReplayDetected(r) \/ Registered(r)
    \/ CounterStored(r) \/ SessionIssued(r)
RelayStep(r) == SessionAccepted(r) \/ Abort(r) \/ PassOn(r) \/ GiveUp(r)
OutsideStep(r) == Send(r) \/ Execute(r) \/ Reject(r) \/ Vanish(r)

Kind(r) ==
    \/ \E rt \in Route : Arrive(r, rt)
    \/ \E stage \in Stage : Moves(r, stage)
    \/ \E st \in HttpStatus : Seen(r, st)
    \/ \E st \in {200, 429, 500} : Unseen(r, st)
    \/ CeremonyStep(r)
    \/ RelayStep(r)
    \/ OutsideStep(r)
    \/ CountResponse(r)
    \/ Leave(r)
Still == UNCHANGED <<ownVars, metricsVars, relayVars>>

LEMMA StepKinds ==
  ASSUME RoutesFit, [Next]_vars
  PROVE  (\E r \in Request : Kind(r)) \/ Still \/ Restart
  <1>1. CASE UNCHANGED vars
    BY <1>1 DEF vars, Still
  <1>2. CASE Restart
    BY <1>2
  <1>3. CASE ProbeKeyExpires
    BY <1>3 DEF ProbeKeyExpires, Still
  <1>4. ASSUME NEW r \in Request, NEW rt \in Route, Arrive(r, rt)
        PROVE  Kind(r)
    BY <1>4 DEF Kind
  <1>5. ASSUME NEW r \in Request, Local(r)
        PROVE  Kind(r)
    <2>1. CASE Throttle(r)
      <3>1. Unseen(r, 429)
        BY <2>1 DEF Throttle, Unseen, At, Ceremony
      <3> QED
        BY <3>1 DEF Kind
    <2>2. CASE ServeStatic(r)
      <3>1. Unseen(r, 200)
        BY <2>2 DEF ServeStatic, Unseen, At
      <3> QED
        BY <3>1 DEF Kind
    <2>3. CASE Scrape(r)
      <3>1. Seen(r, 200) \/ Unseen(r, 500)
        BY <2>3 DEF Scrape, Seen, Unseen, At
      <3> QED
        BY <3>1 DEF Kind, HttpStatus
    <2>4. CASE Enter(r)
      <3>1. Moves(r, "store")
        BY <2>4 DEF Enter, Moves, At, Fits
      <3> QED
        BY <3>1 DEF Kind, Stage
    <2>5. CASE CheckSession(r)
      <3>1. Moves(r, "session")
        BY <2>5 DEF CheckSession, Moves, At, Fits
      <3> QED
        BY <3>1 DEF Kind, Stage
    <2>6. CASE Examine(r)
      <3>1. Moves(r, "probe")
        BY <2>6 DEF Examine, Moves, At, Fits
      <3> QED
        BY <3>1 DEF Kind, Stage
    <2>7. ASSUME NEW st \in HttpStatus, ServePage(r, st)
          PROVE  Seen(r, st)
      BY <2>7 DEF ServePage, Seen, At
    <2> QED
      BY <1>5, <2>1, <2>2, <2>3, <2>4, <2>5, <2>6, <2>7 DEF Local, Kind
  <1>6. ASSUME NEW r \in Request, Resumed(r)
        PROVE  Kind(r) \/ Still
    <2>1. CASE OptionsSaved(r)
      <3>1. Seen(r, 200)
        BY <2>1 DEF OptionsSaved, Seen, At
      <3> QED
        BY <3>1 DEF Kind, HttpStatus
    <2>2. CASE Verified(r)
      <3>1. Moves(r, "row")
        BY <2>2 DEF Verified, Moves, At, Fits
      <3> QED
        BY <3>1 DEF Kind, Stage
    <2>3. CASE Raise(r)
      <3>1. route[r] \notin {"upstream", "metrics"}
        BY <2>3 DEF Raise, RoutesFit, Fits, Ceremony
      <3>2. Unseen(r, 500)
        BY <2>3, <3>1 DEF Raise, Unseen
      <3> QED
        BY <3>2 DEF Kind
    <2>4. CASE SessionRefused(r)
      <3>1. route[r] = "upstream"
        BY <2>4 DEF SessionRefused, RoutesFit, Fits
      <3>2. Seen(r, 401)
        BY <2>4, <3>1 DEF SessionRefused, Seen
      <3> QED
        BY <3>2 DEF Kind, HttpStatus
    <2>5. CASE Examined(r)
      <3>1. route[r] = "readiness"
        BY <2>5 DEF Examined, RoutesFit, Fits
      <3>2. CASE probe'[r] = "none"
        <4>1. Seen(r, 200) \/ Seen(r, 503)
          BY <2>5, <3>1, <3>2 DEF Examined, Seen
        <4> QED
          BY <4>1 DEF Kind, HttpStatus
      <3>3. CASE probe'[r] # "none"
        BY <2>5, <3>3 DEF Examined, Still
      <3> QED
        BY <3>2, <3>3
    <2>6. ASSUME NEW st \in HttpStatus, Refuse(r, st)
          PROVE  Seen(r, st)
      BY <2>6 DEF Refuse, Seen, At
    <2>7. CASE CeremonyStep(r) \/ SessionAccepted(r)
      BY <2>7 DEF Kind, RelayStep
    <2> QED
      BY <1>6, <2>1, <2>2, <2>3, <2>4, <2>5, <2>6, <2>7
      DEF Resumed, Kind, CeremonyStep
  <1>7. ASSUME NEW r \in Request, Relaying(r) \/ Outside(r) \/ Leave(r)
        PROVE  Kind(r)
    BY <1>7 DEF Relaying, Outside, Kind, RelayStep, OutsideStep
  <1> QED
    BY <1>1, <1>2, <1>3, <1>4, <1>5, <1>6, <1>7 DEF Next

(* The same, as far as the requests and the HTTP counters are concerned.       *)
Underway(r) == pc[r] \notin {"idle", "done"}
HttpStill == UNCHANGED <<http_requests_total, request_durations>>
Flow(r) ==
    \/ \E rt \in Route : Arrive(r, rt)
    \/ Underway(r) /\ \E stage \in Stage \ {"idle", "answered", "done"} :
                         Goto(r, stage) /\ HttpStill
    \/ Underway(r) /\ \E st \in HttpStatus : Respond(r, st)
    \/ Underway(r) /\ \E st \in {200, 429, 500} : RespondUnseen(r, st)
    \/ CountResponse(r)
    \/ UNCHANGED ownVars /\ HttpStill
    \/ Leave(r)

LEMMA KindFlows ==
  ASSUME RelayInv, NEW r \in Request, Kind(r)
  PROVE  Flow(r)
  <1>1. CASE \E rt \in Route : Arrive(r, rt)
    BY <1>1 DEF Flow
  <1>2. ASSUME NEW stage \in Stage, Moves(r, stage)
        PROVE  Flow(r)
    <2>1. Underway(r) /\ stage \in Stage \ {"idle", "answered", "done"}
          /\ Goto(r, stage) /\ HttpStill
      BY <1>2 DEF Moves, Underway, HttpStill, metricsVars
    <2> QED
      BY <2>1 DEF Flow
  <1>3. ASSUME NEW st \in HttpStatus, Seen(r, st)
        PROVE  Flow(r)
    BY <1>3 DEF Seen, Flow, Underway
  <1>4. ASSUME NEW st \in {200, 429, 500}, Unseen(r, st)
        PROVE  Flow(r)
    BY <1>4 DEF Unseen, Flow, Underway
  <1>5. CASE AssertionFails(r)
    BY <1>5 DEF AssertionFails, At, Flow, Underway, HttpStatus
  <1>6. CASE ReplayDetected(r)
    BY <1>6 DEF ReplayDetected, At, Flow, Underway, HttpStatus
  <1>7. CASE Registered(r)
    BY <1>7 DEF Registered, At, Flow, Underway, HttpStatus
  <1>8. CASE CounterStored(r)
    BY <1>8 DEF CounterStored, At, Flow, Underway, Stage, HttpStill
  <1>9. CASE SessionIssued(r)
    BY <1>9 DEF SessionIssued, Flow, Underway, HttpStatus
  <1>10. CASE SessionAccepted(r)
    BY <1>10 DEF SessionAccepted, Flow, Underway, Stage, HttpStill, metricsVars
  <1>11. CASE Abort(r)
    BY <1>11 DEF Abort, Relay!Abort, Flow, Underway, RelayInv, RelayFits
  <1>12. CASE PassOn(r)
    BY <1>12 DEF PassOn, Relay!PassOn, Flow, Underway, RelayInv, RelayFits, HttpStatus
  <1>13. CASE GiveUp(r)
    BY <1>13 DEF GiveUp, Relay!GiveUp, Flow, Underway, RelayInv, RelayFits, HttpStatus
  <1>14. CASE OutsideStep(r)
    BY <1>14 DEF OutsideStep, Send, Execute, Reject, Vanish, Flow, HttpStill, metricsVars
  <1>15. CASE CountResponse(r) \/ Leave(r)
    BY <1>15 DEF Flow
  <1> QED
    BY <1>1, <1>2, <1>3, <1>4, <1>5, <1>6, <1>7, <1>8, <1>9, <1>10, <1>11,
       <1>12, <1>13, <1>14, <1>15 DEF Kind, CeremonyStep, RelayStep

LEMMA FlowKinds ==
  ASSUME RoutesFit, RelayInv, [Next]_vars
  PROVE  (\E r \in Request : Flow(r)) \/ (UNCHANGED ownVars /\ HttpStill) \/ Restart
  <1>1. \A r \in Request : Kind(r) => Flow(r)
    BY KindFlows
  <1>2. Still => UNCHANGED ownVars /\ HttpStill
    BY DEF Still, HttpStill, metricsVars
  <1> QED
    BY <1>1, <1>2, StepKinds

-----------------------------------------------------------------------------
(* A counted answer: one more request, one more sample.                        *)
LEMMA CountedIsRow ==
  ASSUME NEW rt
  PROVE  Metrics!Counted(rt) = Metrics!Total(Row(rt))
  BY DEF Metrics!Counted, Row

LEMMA HttpAdds ==
  ASSUME Metrics!TypeOK, Countable, NEW rt \in Route, NEW st \in HttpStatus,
         Metrics!RecordHttp(rt, st)
  PROVE  /\ http_requests_total' \in [Route \X HttpStatus -> Nat]
         /\ IsFiniteSet(Metrics!Tally(http_requests_total'))
         /\ Metrics!Total(http_requests_total') = Metrics!Total(http_requests_total) + 1
         /\ \A q \in Route : IsFiniteSet(Metrics!Tally(Row(q)'))
         /\ \A q \in Route : Metrics!Counted(q)' =
              IF q = rt THEN Metrics!Counted(q) + 1 ELSE Metrics!Counted(q)
  <1>1. /\ http_requests_total \in [Route \X HttpStatus -> Nat]
        /\ <<rt, st>> \in Route \X HttpStatus
        /\ http_requests_total' = [http_requests_total EXCEPT ![<<rt, st>>] = @ + 1]
    BY DEF Metrics!TypeOK, Metrics!RecordHttp
  <1>2. /\ IsFiniteSet(Metrics!Tally(http_requests_total'))
        /\ Metrics!Total(http_requests_total') = Metrics!Total(http_requests_total) + 1
    BY <1>1, TotalAdds DEF Countable
  <1>3. ASSUME NEW q \in Route
        PROVE  /\ IsFiniteSet(Metrics!Tally(Row(q)'))
               /\ Metrics!Total(Row(q)') =
                    IF q = rt THEN Metrics!Total(Row(q)) + 1 ELSE Metrics!Total(Row(q))
    <2>1. Row(q) \in [HttpStatus -> Nat]
      BY <1>1 DEF Row
    <2>2. CASE q = rt
      <3>1. Row(q)' = [Row(q) EXCEPT ![st] = @ + 1]
        BY <1>1, <2>2 DEF Row
      <3>2. IsFiniteSet(Metrics!Tally(Row(q)))
        BY DEF Countable
      <3> DEFINE row == [Row(q) EXCEPT ![st] = @ + 1]
      <3>3. /\ IsFiniteSet(Metrics!Tally(row))
            /\ Metrics!Total(row) = Metrics!Total(Row(q)) + 1
        BY <2>1, <3>2, TotalAdds
      <3> HIDE DEF row
      <3>4. Row(q)' = row
        BY <3>1 DEF row
      <3> QED
        BY <2>2, <3>3, <3>4
    <2>3. CASE q # rt
      <3>1. Row(q)' = Row(q)
        BY <1>1, <2>3 DEF Row
      <3> QED
        BY <2>3, <3>1 DEF Countable
    <2> QED
      BY <2>2, <2>3
  <1>4. ASSUME NEW q \in Route
        PROVE  Metrics!Counted(q)' = Metrics!Total(Row(q)')
    BY DEF Metrics!Counted, Row
  <1> QED
    BY <1>1, <1>2, <1>3, <1>4, CountedIsRow

LEMMA CountedType ==
  ASSUME Countable, NEW rt \in Route
  PROVE  Metrics!Counted(rt) \in Nat
  BY CountedIsRow, TotalIsCardinality, FS_CardinalityType DEF Countable

LEMMA LimitType == SampleLimit \in Nat /\ MaxArrivals \in Nat
  BY PipelineAssumption

(* What the counters owe each other and can be counted by.                     *)
HttpInv ==
    /\ http_requests_total \in [Route \X HttpStatus -> Nat]
    /\ request_durations \in [Route -> 0 .. SampleLimit]
    /\ IsFiniteSet(Metrics!Tally(http_requests_total))
    /\ \A rt \in Route : IsFiniteSet(Metrics!Tally(Row(rt)))
    /\ SamplesMatchCounts

HttpNew ==
    /\ http_requests_total = [k \in Route \X HttpStatus |-> 0]
    /\ request_durations = [rt \in Route |-> 0]

LEMMA HttpZero == HttpNew => HttpInv /\ Metrics!Total(http_requests_total) = 0
  <1> SUFFICES ASSUME HttpNew
               PROVE  HttpInv /\ Metrics!Total(http_requests_total) = 0
    OBVIOUS
  <1> USE DEF HttpNew
  <1>1. /\ IsFiniteSet(Metrics!Tally(http_requests_total))
        /\ Metrics!Total(http_requests_total) = 0
    BY TotalOfZeros
  <1>2. ASSUME NEW rt \in Route
        PROVE  IsFiniteSet(Metrics!Tally(Row(rt))) /\ Metrics!Counted(rt) = 0
    <2>1. Row(rt) = [st \in HttpStatus |-> 0]
      BY DEF Row
    <2> QED
      BY <2>1, TotalOfZeros, CountedIsRow
  <1>3. SamplesMatchCounts
    BY <1>2, LimitType DEF SamplesMatchCounts, Metrics!SamplesMatchCounts
  <1>4. /\ http_requests_total \in [Route \X HttpStatus -> Nat]
        /\ request_durations \in [Route -> 0 .. SampleLimit]
    BY LimitType
  <1> QED
    BY <1>1, <1>2, <1>3, <1>4 DEF HttpInv

LEMMA HttpRecorded ==
  ASSUME Metrics!TypeOK, Countable, SamplesMatchCounts,
         NEW rt \in Route, NEW st \in HttpStatus, Metrics!RecordHttp(rt, st)
  PROVE  /\ HttpInv'
         /\ Metrics!Total(http_requests_total') = Metrics!Total(http_requests_total) + 1
  <1>1. /\ request_durations \in [Route -> 0 .. SampleLimit]
        /\ request_durations' = [request_durations EXCEPT ![rt] =
             IF @ + 1 > SampleLimit THEN SampleLimit ELSE @ + 1]
    BY DEF Metrics!TypeOK, Metrics!RecordHttp
  <1>2. request_durations' \in [Route -> 0 .. SampleLimit]
    BY <1>1, LimitType
  <1>3. ASSUME NEW q \in Route
        PROVE  request_durations'[q] =
                 IF Metrics!Counted(q)' < SampleLimit THEN Metrics!Counted(q)' ELSE SampleLimit
    <2>1. request_durations[q] =
            IF Metrics!Counted(q) < SampleLimit THEN Metrics!Counted(q) ELSE SampleLimit
      BY DEF SamplesMatchCounts, Metrics!SamplesMatchCounts
    <2>2. Metrics!Counted(q)' = IF q = rt THEN Metrics!Counted(q) + 1 ELSE Metrics!Counted(q)
      BY HttpAdds
    <2>3. Metrics!Counted(q) \in Nat
      BY CountedType
    <2> QED
      BY <1>1, <2>1, <2>2, <2>3, LimitType
  <1>4. SamplesMatchCounts'
    BY <1>3 DEF SamplesMatchCounts, Metrics!SamplesMatchCounts
  <1> QED
    BY <1>2, <1>4, HttpAdds DEF HttpInv

LEMMA HttpKept ==
  ASSUME Metrics!TypeOK, Countable, SamplesMatchCounts, HttpStill
  PROVE  /\ HttpInv'
         /\ Metrics!Total(http_requests_total') = Metrics!Total(http_requests_total)
  <1>1. HttpInv
    BY DEF HttpInv, Metrics!TypeOK, Countable
  <1> QED
    BY <1>1 DEF HttpInv, HttpStill, Row, SamplesMatchCounts, Metrics!SamplesMatchCounts,
                Metrics!Counted

-----------------------------------------------------------------------------
(* Every request is somewhere, and somewhere once.                             *)
OwnType ==
    /\ pc \in [Request -> Stage]
    /\ route \in [Request -> Route]
    /\ status \in [Request -> HttpStatus \cup {0, 429, 500}]
    /\ arrived \in 0 .. MaxArrivals
    /\ unseen \in Nat

LEMMA FlightGrows ==
  ASSUME Countable, pc \in [Request -> Stage], NEW r \in Request, pc[r] = "idle",
         pc' = [pc EXCEPT ![r] = "arrived"]
  PROVE  IsFiniteSet(InFlight') /\ Cardinality(InFlight') = Cardinality(InFlight) + 1
  <1>1. InFlight' = InFlight \cup {r} /\ r \notin InFlight
    BY DEF InFlight
  <1> QED
    BY <1>1, FS_AddElement DEF Countable

LEMMA FlightShrinks ==
  ASSUME Countable, pc \in [Request -> Stage], NEW r \in Request, Underway(r),
         pc' = [pc EXCEPT ![r] = "done"]
  PROVE  IsFiniteSet(InFlight') /\ Cardinality(InFlight') = Cardinality(InFlight) - 1
  <1>1. InFlight' = InFlight \ {r} /\ r \in InFlight
    BY DEF InFlight, Underway
  <1> QED
    BY <1>1, FS_RemoveElement DEF Countable

LEMMA FlightLasts ==
  ASSUME pc \in [Request -> Stage], NEW r \in Request, NEW stage,
         pc[r] \in {"idle", "done"} <=> stage \in {"idle", "done"},
         pc' = [pc EXCEPT ![r] = stage]
  PROVE  InFlight' = InFlight
  BY DEF InFlight

LEMMA FlowStep ==
  ASSUME TypeOK, RoutesFit, StatusFits, Countable, NothingCountedTwice, SamplesMatchCounts,
         RelayInv, [Next]_vars
  PROVE  OwnType' /\ HttpInv' /\ IsFiniteSet(InFlight') /\ NothingCountedTwice'
  <1> DEFINE total == Metrics!Total(http_requests_total)
             flight == Cardinality(InFlight)
  <1>1. OwnType /\ Metrics!TypeOK
    BY DEF TypeOK, OwnType
  <1>2. flight \in Nat /\ total \in Nat /\ IsFiniteSet(InFlight)
    BY FS_CardinalityType, TotalIsCardinality DEF Countable
  <1>3. arrived = flight + total + unseen
    BY DEF NothingCountedTwice
  <1>4. SUFFICES /\ OwnType' /\ HttpInv' /\ IsFiniteSet(InFlight')
                 /\ arrived' = flight' + Metrics!Total(http_requests_total') + unseen'
    BY DEF NothingCountedTwice
  <1> HIDE DEF total, flight
  <1>5. ASSUME UNCHANGED ownVars, HttpStill
        PROVE  /\ OwnType' /\ HttpInv' /\ IsFiniteSet(InFlight')
               /\ arrived' = flight' + Metrics!Total(http_requests_total') + unseen'
    <2>1. HttpInv' /\ Metrics!Total(http_requests_total') = total
      BY <1>1, <1>5, HttpKept DEF total
    <2>2. InFlight' = InFlight /\ flight' = flight
      BY <1>5 DEF ownVars, InFlight, flight
    <2> QED
      BY <1>1, <1>2, <1>3, <1>5, <2>1, <2>2 DEF OwnType, ownVars
  <1>6. ASSUME NEW r \in Request, Flow(r)
        PROVE  /\ OwnType' /\ HttpInv' /\ IsFiniteSet(InFlight')
               /\ arrived' = flight' + Metrics!Total(http_requests_total') + unseen'
    <2>1. ASSUME NEW rt \in Route, Arrive(r, rt)
          PROVE  /\ OwnType' /\ HttpInv' /\ IsFiniteSet(InFlight')
                 /\ arrived' = flight' + Metrics!Total(http_requests_total') + unseen'
      <3>1. HttpInv' /\ Metrics!Total(http_requests_total') = total
        BY <1>1, <2>1, HttpKept DEF total, Arrive, HttpStill, metricsVars
      <3>2. IsFiniteSet(InFlight') /\ flight' = flight + 1
        BY <1>1, <2>1, FlightGrows DEF Arrive, OwnType, flight
      <3>3. OwnType'
        BY <1>1, <2>1, LimitType DEF Arrive, OwnType, Stage
      <3> QED
        BY <1>1, <1>2, <1>3, <2>1, <3>1, <3>2, <3>3 DEF Arrive, OwnType
    <2>2. ASSUME Underway(r), NEW stage \in Stage \ {"idle", "answered", "done"},
                 Goto(r, stage), HttpStill
          PROVE  /\ OwnType' /\ HttpInv' /\ IsFiniteSet(InFlight')
                 /\ arrived' = flight' + Metrics!Total(http_requests_total') + unseen'
      <3>1. HttpInv' /\ Metrics!Total(http_requests_total') = total
        BY <1>1, <2>2, HttpKept DEF total
      <3>2. InFlight' = InFlight
        BY <1>1, <2>2, FlightLasts DEF Goto, OwnType, Underway
      <3>3. OwnType'
        BY <1>1, <2>2 DEF Goto, OwnType
      <3> QED
        BY <1>1, <1>2, <1>3, <2>2, <3>1, <3>2, <3>3 DEF Goto, flight
    <2>3. ASSUME Underway(r), NEW st \in HttpStatus, Respond(r, st)
          PROVE  /\ OwnType' /\ HttpInv' /\ IsFiniteSet(InFlight')
                 /\ arrived' = flight' + Metrics!Total(http_requests_total') + unseen'
      <3>1. HttpInv' /\ Metrics!Total(http_requests_total') = total
        BY <1>1, <2>3, HttpKept DEF total, Respond, Answer, HttpStill
      <3>2. InFlight' = InFlight
        BY <1>1, <2>3, FlightLasts DEF Respond, Answer, OwnType, Underway
      <3>3. OwnType'
        BY <1>1, <2>3 DEF Respond, Answer, OwnType, Stage
      <3> QED
        BY <1>1, <1>2, <1>3, <2>3, <3>1, <3>2, <3>3 DEF Respond, Answer, flight
    <2>4. ASSUME Underway(r), NEW st \in {200, 429, 500}, RespondUnseen(r, st)
          PROVE  /\ OwnType' /\ HttpInv' /\ IsFiniteSet(InFlight')
                 /\ arrived' = flight' + Metrics!Total(http_requests_total') + unseen'
      <3>1. HttpInv' /\ Metrics!Total(http_requests_total') = total
        BY <1>1, <2>4, HttpKept DEF total, RespondUnseen, Answer, HttpStill
      <3>2. IsFiniteSet(InFlight') /\ flight' = flight - 1
        BY <1>1, <2>4, FlightShrinks DEF RespondUnseen, Answer, OwnType, flight
      <3>3. OwnType'
        BY <1>1, <2>4 DEF RespondUnseen, Answer, OwnType, Stage, HttpStatus
      <3> QED
        BY <1>1, <1>2, <1>3, <2>4, <3>1, <3>2, <3>3 DEF RespondUnseen, Answer, OwnType
    <2>6. CASE CountResponse(r)
      <3>1. Underway(r) /\ route[r] \in Route /\ status[r] \in HttpStatus
        BY <1>1, <2>6 DEF CountResponse, Underway, OwnType, StatusFits
      <3>2. HttpInv' /\ Metrics!Total(http_requests_total') = total + 1
        BY <1>1, <2>6, <3>1, HttpRecorded DEF total, CountResponse
      <3>3. IsFiniteSet(InFlight') /\ flight' = flight - 1
        BY <1>1, <2>6, <3>1, FlightShrinks DEF CountResponse, Goto, OwnType, flight
      <3>4. OwnType'
        BY <1>1, <2>6 DEF CountResponse, Goto, OwnType, Stage
      <3> QED
        BY <1>1, <1>2, <1>3, <2>6, <3>2, <3>3, <3>4 DEF CountResponse, Goto
    <2>5. CASE Leave(r)
      <3>1. HttpInv' /\ Metrics!Total(http_requests_total') = total
        BY <1>1, <2>5, HttpKept DEF total, Leave, HttpStill, metricsVars
      <3>2. InFlight' = InFlight
        BY <1>1, <2>5, FlightLasts DEF Leave, OwnType
      <3>3. OwnType'
        BY <1>1, <2>5 DEF Leave, OwnType, Stage, Route
      <3> QED
        BY <1>1, <1>2, <1>3, <2>5, <3>1, <3>2, <3>3 DEF Leave, flight
    <2> QED
      BY <1>5, <1>6, <2>1, <2>2, <2>3, <2>4, <2>5, <2>6 DEF Flow
  <1>7. CASE Restart
    <2>1. HttpInv' /\ Metrics!Total(http_requests_total') = 0
      <3>1. HttpNew'
        BY <1>7 DEF Restart, Metrics!Crash, HttpNew
      <3>2. (HttpNew => HttpInv /\ Metrics!Total(http_requests_total) = 0)'
        BY HttpZero, PTL
      <3> QED
        BY <3>1, <3>2
    <2>2. InFlight' = {} /\ IsFiniteSet(InFlight') /\ Cardinality(InFlight') = 0
      <3>1. InFlight' = {}
        BY <1>7 DEF Restart, InFlight
      <3> QED
        BY <3>1, FS_EmptySet
    <2>3. OwnType'
      BY <1>7, LimitType DEF Restart, OwnType, Stage, Route
    <2> QED
      BY <1>7, <2>1, <2>2, <2>3 DEF Restart, flight
  <1> QED
    BY <1>5, <1>6, <1>7, FlowKinds

-----------------------------------------------------------------------------
(* What waits for a user's row, a database lookup or the upstream service was  *)
(* sent there.                                                                 *)
LEMMA RoutesStep ==
  ASSUME OwnType, RoutesFit, [Next]_vars
  PROVE  RoutesFit'
  <1>1. ASSUME NEW r \in Request, NEW st, RespondUnseen(r, st) \/ Respond(r, st)
        PROVE  RoutesFit'
    BY <1>1 DEF RespondUnseen, Respond, Answer, OwnType, RoutesFit, Fits
  <1>2. ASSUME NEW r \in Request, Kind(r)
        PROVE  RoutesFit'
    <2>1. ASSUME NEW rt \in Route, Arrive(r, rt)
          PROVE  RoutesFit'
      BY <2>1 DEF Arrive, OwnType, RoutesFit, Fits
    <2>2. ASSUME NEW stage \in Stage, Moves(r, stage)
          PROVE  RoutesFit'
      BY <2>2 DEF Moves, Goto, OwnType, RoutesFit
    <2>3. CASE \/ \E st \in HttpStatus : Seen(r, st)
               \/ \E st \in {200, 429, 500} : Unseen(r, st)
      BY <1>1, <2>3 DEF Seen, Unseen
    <2>4. CASE AssertionFails(r) \/ ReplayDetected(r) \/ Registered(r) \/ SessionIssued(r)
      BY <1>1, <2>4 DEF AssertionFails, ReplayDetected, Registered, SessionIssued
    <2>5. CASE CounterStored(r)
      BY <2>5 DEF CounterStored, At, Goto, OwnType, RoutesFit, Fits
    <2>6. CASE SessionAccepted(r)
      BY <2>6 DEF SessionAccepted, Goto, OwnType, RoutesFit, Fits
    <2>7. CASE Abort(r) \/ PassOn(r) \/ GiveUp(r)
      BY <1>1, <2>7 DEF Abort, PassOn, GiveUp
    <2>10. CASE CountResponse(r)
      BY <2>10 DEF CountResponse, Goto, OwnType, RoutesFit, Fits
    <2>8. CASE OutsideStep(r)
      BY <2>8 DEF OutsideStep, Send, Execute, Reject, Vanish, ownVars, RoutesFit
    <2>9. CASE Leave(r)
      BY <2>9 DEF Leave, OwnType, RoutesFit, Fits
    <2> QED
      BY <1>2, <2>1, <2>2, <2>3, <2>4, <2>5, <2>6, <2>7, <2>8, <2>9, <2>10
      DEF Kind, CeremonyStep, RelayStep
  <1>3. CASE Still
    BY <1>3 DEF Still, ownVars, RoutesFit
  <1>4. CASE Restart
    BY <1>4 DEF Restart, RoutesFit, Fits
  <1> QED
    BY <1>2, <1>3, <1>4, StepKinds

(* A response is made with a status TelemetryMiddleware can count.             *)
LEMMA StatusStep ==
  ASSUME OwnType, StatusFits, RoutesFit, RelayInv, [Next]_vars
  PROVE  StatusFits'
  <1>1. ASSUME NEW r \in Request, Flow(r)
        PROVE  StatusFits'
    <2>1. ASSUME NEW rt \in Route, Arrive(r, rt)
          PROVE  StatusFits'
      BY <2>1 DEF Arrive, OwnType, StatusFits
    <2>2. ASSUME NEW stage \in Stage, stage # "answered", Goto(r, stage)
          PROVE  StatusFits'
      BY <2>2 DEF Goto, OwnType, StatusFits
    <2>3. ASSUME NEW st \in HttpStatus, Respond(r, st)
          PROVE  StatusFits'
      BY <2>3 DEF Respond, Answer, OwnType, StatusFits
    <2>4. ASSUME NEW st, RespondUnseen(r, st)
          PROVE  StatusFits'
      BY <2>4 DEF RespondUnseen, Answer, OwnType, StatusFits
    <2>5. CASE CountResponse(r)
      BY <2>5 DEF CountResponse, Goto, OwnType, StatusFits
    <2>6. CASE UNCHANGED ownVars
      BY <2>6 DEF ownVars, StatusFits
    <2>7. CASE Leave(r)
      BY <2>7 DEF Leave, OwnType, StatusFits
    <2> QED
      BY <1>1, <2>1, <2>2, <2>3, <2>4, <2>5, <2>6, <2>7 DEF Flow
  <1>2. CASE UNCHANGED ownVars
    BY <1>2 DEF ownVars, StatusFits
  <1>3. CASE Restart
    BY <1>3 DEF Restart, StatusFits
  <1> QED
    BY <1>1, <1>2, <1>3, FlowKinds

-----------------------------------------------------------------------------
(* The ceremony counters.                                                      *)
CeremonyType ==
    /\ authentication_attempts_total \in [Metrics!Outcome -> Nat]
    /\ counter_replay_violations_total \in Nat
    /\ registration_requests_total \in Nat
    /\ audit \in [Metrics!Event -> Nat]

Waiting == {r \in Request : pc[r] = "user"}

LEMMA WaitingFinite ==
  ASSUME Countable
  PROVE  IsFiniteSet(Waiting) /\ Cardinality(Waiting) \in Nat
  <1>1. Waiting \in SUBSET InFlight
    BY DEF Waiting, InFlight
  <1> QED
    BY <1>1, FS_Subset, FS_CardinalityType DEF Countable

LEMMA WaitingMoves ==
  ASSUME Countable, pc \in [Request -> Stage], NEW r \in Request, NEW stage,
         pc' = [pc EXCEPT ![r] = stage]
  PROVE  Cardinality(Waiting') = Cardinality(Waiting)
           + (IF stage = "user" THEN 1 ELSE 0) - (IF pc[r] = "user" THEN 1 ELSE 0)
  <1>1. IsFiniteSet(Waiting) /\ Cardinality(Waiting) \in Nat
    BY WaitingFinite
  <1>2. CASE stage = "user" <=> pc[r] = "user"
    <2>1. Waiting' = Waiting
      BY <1>2 DEF Waiting
    <2>2. Cardinality(Waiting') = Cardinality(Waiting)
      BY <2>1
    <2>3. CASE pc[r] = "user"
      BY <1>1, <1>2, <2>2, <2>3
    <2>4. CASE pc[r] # "user"
      BY <1>1, <1>2, <2>2, <2>4
    <2> QED
      BY <2>3, <2>4
  <1>3. CASE stage = "user" /\ pc[r] # "user"
    <2>1. Waiting' = Waiting \cup {r} /\ r \notin Waiting
      BY <1>3 DEF Waiting
    <2>2. Cardinality(Waiting') = Cardinality(Waiting) + 1
      BY <1>1, <2>1, FS_AddElement
    <2> QED
      BY <1>1, <1>3, <2>2
  <1>4. CASE stage # "user" /\ pc[r] = "user"
    <2>1. Waiting' = Waiting \ {r} /\ r \in Waiting
      BY <1>4 DEF Waiting
    <2>2. Cardinality(Waiting') = Cardinality(Waiting) - 1
      BY <1>1, <2>1, FS_RemoveElement
    <2> QED
      BY <1>1, <1>4, <2>2
  <1> QED
    BY <1>2, <1>3, <1>4

LEMMA HttpAt ==
  ASSUME Metrics!TypeOK, NEW rt \in Route, NEW st \in HttpStatus, Metrics!RecordHttp(rt, st)
  PROVE  \A q \in Route, s \in HttpStatus :
           http_requests_total'[<<q, s>>] =
             IF q = rt /\ s = st THEN http_requests_total[<<q, s>>] + 1
                                 ELSE http_requests_total[<<q, s>>]
  BY DEF Metrics!TypeOK, Metrics!RecordHttp

(* Responses made: those counted and those about to be.                        *)
AnsweredStill ==
    \A q \in Route, s \in HttpStatus : Answered(q, s)' = Answered(q, s)

LEMMA PendingFinite ==
  ASSUME Countable, NEW q, NEW s
  PROVE  IsFiniteSet(Pending(q, s)) /\ Cardinality(Pending(q, s)) \in Nat
  <1>1. Pending(q, s) \in SUBSET InFlight
    BY DEF Pending, InFlight, At
  <1> QED
    BY <1>1, FS_Subset, FS_CardinalityType DEF Countable

LEMMA AnsweredType ==
  ASSUME Metrics!TypeOK, Countable
  PROVE  \A q \in Route, s \in HttpStatus : Answered(q, s) \in Nat
  <1> SUFFICES ASSUME NEW q \in Route, NEW s \in HttpStatus PROVE Answered(q, s) \in Nat
    OBVIOUS
  <1>1. http_requests_total[<<q, s>>] \in Nat
    BY DEF Metrics!TypeOK
  <1>2. Cardinality(Pending(q, s)) \in Nat
    BY PendingFinite
  <1> QED
    BY <1>1, <1>2 DEF Answered

LEMMA AnsweredKept ==
  ASSUME http_requests_total' = http_requests_total,
         \A r \in Request :
           /\ pc'[r] = "answered" <=> pc[r] = "answered"
           /\ pc[r] = "answered" => route'[r] = route[r] /\ status'[r] = status[r]
  PROVE  AnsweredStill
  <1>1. ASSUME NEW q \in Route, NEW s \in HttpStatus PROVE Answered(q, s)' = Answered(q, s)
    <2>1. Pending(q, s)' = Pending(q, s)
      BY DEF Pending, At
    <2> QED
      BY <2>1 DEF Answered
  <1> QED
    BY <1>1 DEF AnsweredStill

(* A response adds one to those of its route and status.                       *)
LEMMA AnsweredAdds ==
  ASSUME OwnType, Metrics!TypeOK, Countable, NEW r \in Request, pc[r] # "answered",
         NEW st \in HttpStatus, Respond(r, st)
  PROVE  \A q \in Route, s \in HttpStatus :
           Answered(q, s)' = IF q = route[r] /\ s = st THEN Answered(q, s) + 1
                                                       ELSE Answered(q, s)
  <1> SUFFICES ASSUME NEW q \in Route, NEW s \in HttpStatus
               PROVE  Answered(q, s)' = IF q = route[r] /\ s = st THEN Answered(q, s) + 1
                                                                  ELSE Answered(q, s)
    OBVIOUS
  <1>1. http_requests_total' = http_requests_total /\ http_requests_total[<<q, s>>] \in Nat
    BY DEF Respond, Answer, Metrics!TypeOK
  <1>2. IsFiniteSet(Pending(q, s)) /\ Cardinality(Pending(q, s)) \in Nat
    BY PendingFinite
  <1>3. CASE q = route[r] /\ s = st
    <2>1. Pending(q, s)' = Pending(q, s) \cup {r} /\ r \notin Pending(q, s)
      BY <1>3 DEF Respond, Answer, OwnType, Pending, At
    <2>2. Cardinality(Pending(q, s)') = Cardinality(Pending(q, s)) + 1
      BY <1>2, <2>1, FS_AddElement
    <2>3. Answered(q, s)' = http_requests_total'[<<q, s>>] + Cardinality(Pending(q, s)')
      BY DEF Answered
    <2> QED
      BY <1>1, <1>2, <1>3, <2>2, <2>3 DEF Answered
  <1>4. CASE ~(q = route[r] /\ s = st)
    <2>1. Pending(q, s)' = Pending(q, s)
      BY <1>4 DEF Respond, Answer, OwnType, Pending, At
    <2> QED
      BY <1>1, <1>4, <2>1 DEF Answered
  <1> QED
    BY <1>3, <1>4

(* When TelemetryMiddleware counts it, it goes from the one to the other.      *)
LEMMA AnsweredCounted ==
  ASSUME OwnType, StatusFits, Metrics!TypeOK, Countable, NEW r \in Request, CountResponse(r)
  PROVE  AnsweredStill
  <1> SUFFICES ASSUME NEW q \in Route, NEW s \in HttpStatus
               PROVE  Answered(q, s)' = Answered(q, s)
    BY DEF AnsweredStill
  <1>1. /\ pc[r] = "answered" /\ pc' = [pc EXCEPT ![r] = "done"]
        /\ route' = route /\ status' = status
        /\ route[r] \in Route /\ status[r] \in HttpStatus
        /\ Metrics!RecordHttp(route[r], status[r])
    BY DEF CountResponse, Goto, OwnType, StatusFits
  <1>2. http_requests_total[<<q, s>>] \in Nat
    BY DEF Metrics!TypeOK
  <1>3. http_requests_total'[<<q, s>>] =
          IF q = route[r] /\ s = status[r] THEN http_requests_total[<<q, s>>] + 1
                                           ELSE http_requests_total[<<q, s>>]
    BY <1>1, HttpAt
  <1>4. IsFiniteSet(Pending(q, s)) /\ Cardinality(Pending(q, s)) \in Nat
    BY PendingFinite
  <1>5. Answered(q, s)' = http_requests_total'[<<q, s>>] + Cardinality(Pending(q, s)')
    BY DEF Answered
  <1>6. CASE q = route[r] /\ s = status[r]
    <2>1. Pending(q, s)' = Pending(q, s) \ {r} /\ r \in Pending(q, s)
      BY <1>1, <1>6 DEF OwnType, Pending, At
    <2>2. Cardinality(Pending(q, s)') = Cardinality(Pending(q, s)) - 1
      BY <1>4, <2>1, FS_RemoveElement
    <2> QED
      BY <1>2, <1>3, <1>4, <1>5, <1>6, <2>2 DEF Answered
  <1>7. CASE ~(q = route[r] /\ s = status[r])
    <2>1. Pending(q, s)' = Pending(q, s)
      BY <1>1, <1>7 DEF OwnType, Pending, At
    <2> QED
      BY <1>3, <1>5, <1>7, <2>1 DEF Answered
  <1> QED
    BY <1>6, <1>7

LEMMA CountersType ==
  ASSUME Metrics!TypeOK
  PROVE  /\ authentication_attempts_total \in [{"success", "failure", "replay_detected"} -> Nat]
         /\ audit \in [{"PASSKEY_REGISTRATION_SUCCESS", "PASSKEY_AUTHENTICATION_SUCCESS",
                        "PASSKEY_COUNTER_REPLAY_DETECTED"} -> Nat]
         /\ counter_replay_violations_total \in Nat
         /\ registration_requests_total \in Nat
  BY DEF Metrics!TypeOK, Metrics!Outcome, Metrics!Event

(* CountersAgree, its equations and its bounds apart.                          *)
ReplaysEqual ==
    /\ authentication_attempts_total["replay_detected"] = counter_replay_violations_total
    /\ counter_replay_violations_total = Answered("login", 403)
    /\ counter_replay_violations_total = audit["PASSKEY_COUNTER_REPLAY_DETECTED"]
LoginsEqual == Answered("login", 200) = audit["PASSKEY_AUTHENTICATION_SUCCESS"]
RegistrationsEqual ==
    /\ registration_requests_total = Answered("register", 200)
    /\ registration_requests_total = audit["PASSKEY_REGISTRATION_SUCCESS"]
Bounded ==
    /\ authentication_attempts_total["success"]
         >= Answered("login", 200) + Cardinality(Waiting)
    /\ authentication_attempts_total["success"]
         <= Answered("login", 200) + Cardinality(Waiting) + unseen
    /\ authentication_attempts_total["failure"] <= Answered("login", 400)
Agreement == ReplaysEqual /\ LoginsEqual /\ RegistrationsEqual /\ Bounded

LEMMA AgreementIs == CountersAgree <=> Agreement
  BY Zenon
  DEF CountersAgree, Agreement, ReplaysEqual, LoginsEqual, RegistrationsEqual, Bounded,
               Waiting

(* A step that touches no ceremony counter may leave a user's row unread, if   *)
(* it says so in unseen.                                                       *)
LEMMA QuietAgree ==
  ASSUME Metrics!TypeOK, unseen \in Nat, Countable, Agreement, UNCHANGED ceremonyVars,
         Answered("login", 200)' = Answered("login", 200),
         Answered("login", 403)' = Answered("login", 403),
         Answered("register", 200)' = Answered("register", 200),
         Answered("login", 400)' \in Nat,
         Answered("login", 400)' >= Answered("login", 400),
         Cardinality(Waiting') \in Nat, unseen' \in Nat,
         Cardinality(Waiting') <= Cardinality(Waiting),
         Cardinality(Waiting') + unseen' >= Cardinality(Waiting) + unseen
  PROVE  Agreement'
  <1>1. Cardinality(Waiting) \in Nat
    BY WaitingFinite
  <1>2. /\ Answered("login", 200) \in Nat
        /\ Answered("login", 400) \in Nat
    BY AnsweredType DEF Route, Ceremony, HttpStatus
  <1>3. /\ Answered("login", 200)' = Answered("login", 200)
        /\ Answered("login", 403)' = Answered("login", 403)
        /\ Answered("register", 200)' = Answered("register", 200)
    OBVIOUS
  <1>4. /\ authentication_attempts_total' = authentication_attempts_total
        /\ counter_replay_violations_total' = counter_replay_violations_total
        /\ registration_requests_total' = registration_requests_total
        /\ audit' = audit
    BY DEF ceremonyVars
  <1>5. /\ authentication_attempts_total["success"] \in Nat
        /\ authentication_attempts_total["failure"] \in Nat
    BY CountersType
  <1>6. authentication_attempts_total'["success"]
          >= Answered("login", 200)' + Cardinality(Waiting')
    BY <1>1, <1>2, <1>3, <1>4, <1>5
    DEF Agreement, ReplaysEqual, LoginsEqual, RegistrationsEqual, Bounded
  <1>7. authentication_attempts_total'["success"]
          <= Answered("login", 200)' + Cardinality(Waiting') + unseen'
    BY <1>1, <1>2, <1>3, <1>4, <1>5
    DEF Agreement, ReplaysEqual, LoginsEqual, RegistrationsEqual, Bounded
  <1>8. authentication_attempts_total'["failure"] <= Answered("login", 400)'
    BY <1>2, <1>4, <1>5 DEF Agreement, ReplaysEqual, LoginsEqual, RegistrationsEqual, Bounded
  <1> QED
    BY <1>3, <1>4, <1>6, <1>7, <1>8
    DEF Agreement, ReplaysEqual, LoginsEqual, RegistrationsEqual, Bounded

(* It leaves the request where no user's row is waited for, and answers, if it *)
(* does, nothing the ceremony counters know of.                                *)
QuietAnswer(r) ==
    \E st \in HttpStatus :
        /\ pc[r] # "answered" /\ Respond(r, st)
        /\ route[r] = "login" => st \notin {200, 403}
        /\ route[r] = "register" => st # 200

LEMMA QuietStep ==
  ASSUME Metrics!TypeOK, OwnType, Countable, Countable', Agreement, UNCHANGED ceremonyVars,
         NEW r \in Request, NEW stage, stage # "user", pc' = [pc EXCEPT ![r] = stage],
         unseen' \in Nat, unseen' >= unseen, pc[r] = "user" => unseen' = unseen + 1,
         AnsweredStill \/ QuietAnswer(r)
  PROVE  Agreement'
  <1>1. {"login", "register"} \subseteq Route /\ {200, 400, 403} \subseteq HttpStatus
    BY DEF Route, Ceremony, HttpStatus
  <1>2. /\ Answered("login", 200)' = Answered("login", 200)
        /\ Answered("login", 403)' = Answered("login", 403)
        /\ Answered("register", 200)' = Answered("register", 200)
        /\ Answered("login", 400)' \in Nat
        /\ Answered("login", 400)' >= Answered("login", 400)
    <2>1. Answered("login", 400) \in Nat
      BY <1>1, AnsweredType
    <2>2. CASE AnsweredStill
      BY <1>1, <2>1, <2>2 DEF AnsweredStill
    <2>3. CASE QuietAnswer(r)
      <3>1. PICK st \in HttpStatus :
              /\ pc[r] # "answered" /\ Respond(r, st)
              /\ route[r] = "login" => st \notin {200, 403}
              /\ route[r] = "register" => st # 200
        BY <2>3 DEF QuietAnswer
      <3>2. \A q \in Route, s \in HttpStatus :
              Answered(q, s)' = IF q = route[r] /\ s = st THEN Answered(q, s) + 1
                                                          ELSE Answered(q, s)
        BY <3>1, AnsweredAdds
      <3> QED
        BY <1>1, <2>1, <3>1, <3>2
    <2> QED
      BY <2>2, <2>3
  <1>3. Cardinality(Waiting) \in Nat
    BY WaitingFinite
  <1>4. (Countable => Cardinality(Waiting) \in Nat)'
    BY WaitingFinite, PTL
  <1>5. Cardinality(Waiting') \in Nat
    BY <1>4
  <1>6. Cardinality(Waiting') = Cardinality(Waiting) - (IF pc[r] = "user" THEN 1 ELSE 0)
    <2>1. Cardinality(Waiting') = Cardinality(Waiting)
            + (IF stage = "user" THEN 1 ELSE 0) - (IF pc[r] = "user" THEN 1 ELSE 0)
      BY WaitingMoves DEF OwnType
    <2>2. CASE pc[r] = "user"
      BY <1>3, <2>1, <2>2
    <2>3. CASE pc[r] # "user"
      BY <1>3, <2>1, <2>3
    <2> QED
      BY <2>2, <2>3
  <1>7. /\ Cardinality(Waiting') <= Cardinality(Waiting)
        /\ Cardinality(Waiting') + unseen' >= Cardinality(Waiting) + unseen
    BY <1>3, <1>5, <1>6 DEF OwnType
  <1> QED
    BY <1>2, <1>5, <1>7, QuietAgree DEF OwnType

LEMMA Names ==
  /\ Metrics!Outcome = {"success", "failure", "replay_detected"}
  /\ Metrics!Event = {"PASSKEY_REGISTRATION_SUCCESS", "PASSKEY_AUTHENTICATION_SUCCESS",
                      "PASSKEY_COUNTER_REPLAY_DETECTED"}
  BY DEF Metrics!Outcome, Metrics!Event

LEMMA AttemptAdds ==
  ASSUME Metrics!TypeOK, NEW o \in Metrics!Outcome, Metrics!RecordAuthentication(o)
  PROVE  /\ authentication_attempts_total' \in [Metrics!Outcome -> Nat]
         /\ \A p \in Metrics!Outcome :
              authentication_attempts_total'[p] =
                IF p = o THEN authentication_attempts_total[p] + 1
                         ELSE authentication_attempts_total[p]
  BY DEF Metrics!TypeOK, Metrics!RecordAuthentication

LEMMA EmitAdds ==
  ASSUME Metrics!TypeOK, NEW e \in Metrics!Event, Metrics!Emit(e)
  PROVE  /\ audit' \in [Metrics!Event -> Nat]
         /\ \A p \in Metrics!Event : audit'[p] = IF p = e THEN audit[p] + 1 ELSE audit[p]
  BY DEF Metrics!TypeOK, Metrics!Emit

LEMMA CeremonyTypeStep ==
  ASSUME Metrics!TypeOK, RoutesFit, [Next]_vars
  PROVE  CeremonyType'
  <1>1. CeremonyType
    BY DEF Metrics!TypeOK, CeremonyType
  <1>2. ASSUME UNCHANGED ceremonyVars
        PROVE  CeremonyType'
    BY <1>1, <1>2 DEF CeremonyType, ceremonyVars
  <1>3. ASSUME NEW r \in Request, Kind(r)
        PROVE  CeremonyType'
    <2>1. CASE \/ \E rt \in Route : Arrive(r, rt)
               \/ \E stage \in Stage : Moves(r, stage)
               \/ \E st \in HttpStatus : Seen(r, st)
               \/ \E st \in {200, 429, 500} : Unseen(r, st)
               \/ RelayStep(r) \/ OutsideStep(r) \/ CountResponse(r) \/ Leave(r)
      <3>1. UNCHANGED ceremonyVars
        BY <2>1 DEF Arrive, Moves, Seen, Unseen, RelayStep, SessionAccepted, Abort, PassOn,
                    GiveUp, OutsideStep, Send, Execute, Reject, Vanish, CountResponse, Leave,
                    metricsVars
      <3> QED
        BY <3>1, <1>2
    <2>2. CASE AssertionFails(r)
      BY <1>1, <2>2, Names, AttemptAdds DEF AssertionFails, CeremonyType
    <2>3. CASE ReplayDetected(r)
      BY <1>1, <2>3, Names, AttemptAdds, EmitAdds DEF ReplayDetected, CeremonyType
    <2>4. CASE Registered(r)
      BY <1>1, <2>4, Names, EmitAdds DEF Registered, CeremonyType
    <2>5. CASE CounterStored(r)
      BY <1>1, <2>5, Names, AttemptAdds DEF CounterStored, CeremonyType
    <2>6. CASE SessionIssued(r)
      BY <1>1, <2>6, Names, EmitAdds DEF SessionIssued, CeremonyType
    <2> QED
      BY <1>3, <2>1, <2>2, <2>3, <2>4, <2>5, <2>6 DEF Kind, CeremonyStep
  <1>4. CASE Still
    BY <1>2, <1>4 DEF Still, metricsVars
  <1>5. CASE Restart
    BY <1>5 DEF Restart, Metrics!Crash, CeremonyType
  <1> QED
    BY <1>3, <1>4, <1>5, StepKinds

(* A step of a ceremony moves every counter, and the record beside it, by as   *)
(* much as its answer.                                                         *)
LEMMA CeremonyAgree ==
  ASSUME Metrics!TypeOK, OwnType, RoutesFit, Countable, Agreement,
         NEW r \in Request, CeremonyStep(r)
  PROVE  Agreement'
  <1>1. /\ {"login", "register"} \subseteq Route /\ {200, 400, 403} \subseteq HttpStatus
        /\ route[r] \in Route
    BY DEF Route, Ceremony, HttpStatus, OwnType
  <1>2. Cardinality(Waiting) \in Nat /\ unseen \in Nat
    BY WaitingFinite DEF OwnType
  <1>3. /\ Answered("login", 200) \in Nat
        /\ Answered("login", 400) \in Nat
        /\ Answered("login", 403) \in Nat
        /\ Answered("register", 200) \in Nat
        /\ authentication_attempts_total["success"] \in Nat
        /\ authentication_attempts_total["failure"] \in Nat
        /\ authentication_attempts_total["replay_detected"] \in Nat
        /\ counter_replay_violations_total \in Nat /\ registration_requests_total \in Nat
        /\ audit["PASSKEY_REGISTRATION_SUCCESS"] \in Nat
        /\ audit["PASSKEY_AUTHENTICATION_SUCCESS"] \in Nat
        /\ audit["PASSKEY_COUNTER_REPLAY_DETECTED"] \in Nat
    BY <1>1, CountersType, AnsweredType
  <1>4. ASSUME NEW st \in HttpStatus, Respond(r, st), pc[r] # "answered"
        PROVE  /\ unseen' = unseen
               /\ Cardinality(Waiting') =
                    IF pc[r] = "user" THEN Cardinality(Waiting) - 1 ELSE Cardinality(Waiting)
               /\ \A q \in Route, s \in HttpStatus :
                    Answered(q, s)' = IF q = route[r] /\ s = st THEN Answered(q, s) + 1
                                                                ELSE Answered(q, s)
    <2>1. pc' = [pc EXCEPT ![r] = "answered"] /\ unseen' = unseen
      BY <1>4 DEF Respond, Answer
    <2>2. Cardinality(Waiting') = Cardinality(Waiting)
            + (IF "answered" = "user" THEN 1 ELSE 0) - (IF pc[r] = "user" THEN 1 ELSE 0)
      BY <2>1, WaitingMoves DEF OwnType
    <2>3. Cardinality(Waiting') =
            IF pc[r] = "user" THEN Cardinality(Waiting) - 1 ELSE Cardinality(Waiting)
      BY <1>2, <2>2
    <2> QED
      BY <1>4, <2>1, <2>3, AnsweredAdds
  <1>5. CASE AssertionFails(r)
    <2>1. /\ route[r] = "login" /\ pc[r] = "store" /\ Respond(r, 400)
          /\ UNCHANGED <<counter_replay_violations_total, registration_requests_total, audit>>
          /\ Metrics!RecordAuthentication("failure")
      BY <1>5 DEF AssertionFails, At
    <2>2. /\ Answered("login", 200)' = Answered("login", 200)
          /\ Answered("login", 400)' = Answered("login", 400) + 1
          /\ Answered("login", 403)' = Answered("login", 403)
          /\ Answered("register", 200)'
               = Answered("register", 200)
          /\ unseen' = unseen /\ Cardinality(Waiting') = Cardinality(Waiting)
      BY <1>1, <1>4, <2>1
    <2>3. /\ authentication_attempts_total'["success"]
               = authentication_attempts_total["success"]
          /\ authentication_attempts_total'["failure"]
               = authentication_attempts_total["failure"] + 1
          /\ authentication_attempts_total'["replay_detected"]
               = authentication_attempts_total["replay_detected"]
          /\ audit'["PASSKEY_REGISTRATION_SUCCESS"] = audit["PASSKEY_REGISTRATION_SUCCESS"]
          /\ audit'["PASSKEY_AUTHENTICATION_SUCCESS"] = audit["PASSKEY_AUTHENTICATION_SUCCESS"]
          /\ audit'["PASSKEY_COUNTER_REPLAY_DETECTED"]
               = audit["PASSKEY_COUNTER_REPLAY_DETECTED"]
      BY <2>1, Names, AttemptAdds
    <2>4. Bounded'
      BY <1>2, <1>3, <2>1, <2>2, <2>3 DEF Agreement, Bounded
    <2>5. ReplaysEqual'
      BY <2>1, <2>2, <2>3, Zenon DEF Agreement, ReplaysEqual
    <2>6. LoginsEqual' /\ RegistrationsEqual'
      BY <2>1, <2>2, <2>3, Zenon DEF Agreement, LoginsEqual, RegistrationsEqual
    <2> QED
      BY <2>4, <2>5, <2>6 DEF Agreement
  <1>6. CASE ReplayDetected(r)
    <2>1. /\ route[r] = "login" /\ pc[r] = "store" /\ Respond(r, 403)
          /\ counter_replay_violations_total' = counter_replay_violations_total + 1
          /\ UNCHANGED registration_requests_total
          /\ Metrics!Emit("PASSKEY_COUNTER_REPLAY_DETECTED")
          /\ Metrics!RecordAuthentication("replay_detected")
      BY <1>6 DEF ReplayDetected, At
    <2>2. /\ Answered("login", 200)' = Answered("login", 200)
          /\ Answered("login", 400)' = Answered("login", 400)
          /\ Answered("login", 403)' = Answered("login", 403) + 1
          /\ Answered("register", 200)'
               = Answered("register", 200)
          /\ unseen' = unseen /\ Cardinality(Waiting') = Cardinality(Waiting)
      BY <1>1, <1>4, <2>1
    <2>3. /\ authentication_attempts_total'["success"]
               = authentication_attempts_total["success"]
          /\ authentication_attempts_total'["failure"]
               = authentication_attempts_total["failure"]
          /\ authentication_attempts_total'["replay_detected"]
               = authentication_attempts_total["replay_detected"] + 1
          /\ audit'["PASSKEY_REGISTRATION_SUCCESS"] = audit["PASSKEY_REGISTRATION_SUCCESS"]
          /\ audit'["PASSKEY_AUTHENTICATION_SUCCESS"] = audit["PASSKEY_AUTHENTICATION_SUCCESS"]
          /\ audit'["PASSKEY_COUNTER_REPLAY_DETECTED"]
               = audit["PASSKEY_COUNTER_REPLAY_DETECTED"] + 1
      BY <2>1, Names, AttemptAdds, EmitAdds
    <2>4. Bounded'
      BY <1>2, <1>3, <2>1, <2>2, <2>3 DEF Agreement, Bounded
    <2>5. ReplaysEqual'
      <3>1. authentication_attempts_total'["replay_detected"] = counter_replay_violations_total'
        BY <2>1, <2>3 DEF Agreement, ReplaysEqual
      <3>2. counter_replay_violations_total' = Answered("login", 403)'
        BY <2>1, <2>2 DEF Agreement, ReplaysEqual
      <3>3. counter_replay_violations_total' = audit'["PASSKEY_COUNTER_REPLAY_DETECTED"]
        BY <2>1, <2>3 DEF Agreement, ReplaysEqual
      <3> QED
        BY <3>1, <3>2, <3>3 DEF ReplaysEqual
    <2>6. LoginsEqual' /\ RegistrationsEqual'
      BY <2>1, <2>2, <2>3, Zenon DEF Agreement, LoginsEqual, RegistrationsEqual
    <2> QED
      BY <2>4, <2>5, <2>6 DEF Agreement
  <1>7. CASE Registered(r)
    <2>1. /\ route[r] = "register" /\ pc[r] = "row" /\ Respond(r, 200)
          /\ registration_requests_total' = registration_requests_total + 1
          /\ UNCHANGED <<counter_replay_violations_total, authentication_attempts_total>>
          /\ Metrics!Emit("PASSKEY_REGISTRATION_SUCCESS")
      BY <1>7 DEF Registered, At
    <2>2. /\ Answered("login", 200)' = Answered("login", 200)
          /\ Answered("login", 400)' = Answered("login", 400)
          /\ Answered("login", 403)' = Answered("login", 403)
          /\ Answered("register", 200)'
               = Answered("register", 200) + 1
          /\ unseen' = unseen /\ Cardinality(Waiting') = Cardinality(Waiting)
      BY <1>1, <1>4, <2>1
    <2>3. /\ authentication_attempts_total'["success"]
               = authentication_attempts_total["success"]
          /\ authentication_attempts_total'["failure"]
               = authentication_attempts_total["failure"]
          /\ authentication_attempts_total'["replay_detected"]
               = authentication_attempts_total["replay_detected"]
          /\ audit'["PASSKEY_REGISTRATION_SUCCESS"] = audit["PASSKEY_REGISTRATION_SUCCESS"] + 1
          /\ audit'["PASSKEY_AUTHENTICATION_SUCCESS"] = audit["PASSKEY_AUTHENTICATION_SUCCESS"]
          /\ audit'["PASSKEY_COUNTER_REPLAY_DETECTED"]
               = audit["PASSKEY_COUNTER_REPLAY_DETECTED"]
      BY <2>1, Names, EmitAdds
    <2>4. Bounded'
      BY <1>2, <1>3, <2>1, <2>2, <2>3 DEF Agreement, Bounded
    <2>5. ReplaysEqual'
      BY <2>1, <2>2, <2>3, Zenon DEF Agreement, ReplaysEqual
    <2>6. LoginsEqual' /\ RegistrationsEqual'
      <3>1. /\ Answered("login", 200) = audit["PASSKEY_AUTHENTICATION_SUCCESS"]
            /\ registration_requests_total = Answered("register", 200)
            /\ registration_requests_total = audit["PASSKEY_REGISTRATION_SUCCESS"]
        BY Zenon DEF Agreement, LoginsEqual, RegistrationsEqual
      <3>2. LoginsEqual'
        BY <3>1, <2>2, <2>3 DEF LoginsEqual
      <3>3. RegistrationsEqual'
        BY <3>1, <2>1, <2>2, <2>3, Zenon DEF RegistrationsEqual
      <3> QED
        BY <3>2, <3>3
    <2> QED
      BY <2>4, <2>5, <2>6 DEF Agreement
  <1>8. CASE CounterStored(r)
    <2>1. /\ pc[r] = "row" /\ pc' = [pc EXCEPT ![r] = "user"]
          /\ UNCHANGED <<unseen, http_requests_total, counter_replay_violations_total,
                         registration_requests_total, audit>>
          /\ Metrics!RecordAuthentication("success")
      BY <1>8 DEF CounterStored, At, Goto
    <2>2. Cardinality(Waiting') = Cardinality(Waiting)
            + (IF "user" = "user" THEN 1 ELSE 0) - (IF pc[r] = "user" THEN 1 ELSE 0)
      BY <2>1, WaitingMoves DEF OwnType
    <2>3. Cardinality(Waiting') = Cardinality(Waiting) + 1
      BY <1>2, <2>1, <2>2
    <2>4. /\ Answered("login", 200)' = Answered("login", 200)
          /\ Answered("login", 400)' = Answered("login", 400)
          /\ Answered("login", 403)' = Answered("login", 403)
          /\ Answered("register", 200)' = Answered("register", 200)
      <3>1. AnsweredStill
        BY <1>8, AnsweredKept DEF CounterStored, At, Goto, OwnType
      <3> QED
        BY <1>1, <3>1 DEF AnsweredStill
    <2>5. /\ authentication_attempts_total'["success"]
               = authentication_attempts_total["success"] + 1
          /\ authentication_attempts_total'["failure"]
               = authentication_attempts_total["failure"]
          /\ authentication_attempts_total'["replay_detected"]
               = authentication_attempts_total["replay_detected"]
          /\ audit'["PASSKEY_REGISTRATION_SUCCESS"] = audit["PASSKEY_REGISTRATION_SUCCESS"]
          /\ audit'["PASSKEY_AUTHENTICATION_SUCCESS"] = audit["PASSKEY_AUTHENTICATION_SUCCESS"]
          /\ audit'["PASSKEY_COUNTER_REPLAY_DETECTED"]
               = audit["PASSKEY_COUNTER_REPLAY_DETECTED"]
      BY <2>1, Names, AttemptAdds
    <2>6. Bounded'
      BY <1>2, <1>3, <2>1, <2>3, <2>4, <2>5 DEF Agreement, Bounded
    <2>7. ReplaysEqual'
      BY <2>1, <2>3, <2>4, <2>5, Zenon DEF Agreement, ReplaysEqual
    <2>8. LoginsEqual' /\ RegistrationsEqual'
      BY <2>1, <2>3, <2>4, <2>5, Zenon DEF Agreement, LoginsEqual, RegistrationsEqual
    <2> QED
      BY <2>6, <2>7, <2>8 DEF Agreement
  <1>9. CASE SessionIssued(r)
    <2>1. /\ route[r] = "login" /\ pc[r] = "user" /\ Respond(r, 200)
          /\ UNCHANGED <<counter_replay_violations_total, registration_requests_total,
                         authentication_attempts_total>>
          /\ Metrics!Emit("PASSKEY_AUTHENTICATION_SUCCESS")
      BY <1>9 DEF SessionIssued, RoutesFit, Fits
    <2>2. /\ Answered("login", 200)' = Answered("login", 200) + 1
          /\ Answered("login", 400)' = Answered("login", 400)
          /\ Answered("login", 403)' = Answered("login", 403)
          /\ Answered("register", 200)'
               = Answered("register", 200)
          /\ unseen' = unseen /\ Cardinality(Waiting') = Cardinality(Waiting) - 1
      BY <1>1, <1>4, <2>1
    <2>3. /\ authentication_attempts_total'["success"]
               = authentication_attempts_total["success"]
          /\ authentication_attempts_total'["failure"]
               = authentication_attempts_total["failure"]
          /\ authentication_attempts_total'["replay_detected"]
               = authentication_attempts_total["replay_detected"]
          /\ audit'["PASSKEY_REGISTRATION_SUCCESS"] = audit["PASSKEY_REGISTRATION_SUCCESS"]
          /\ audit'["PASSKEY_AUTHENTICATION_SUCCESS"]
               = audit["PASSKEY_AUTHENTICATION_SUCCESS"] + 1
          /\ audit'["PASSKEY_COUNTER_REPLAY_DETECTED"]
               = audit["PASSKEY_COUNTER_REPLAY_DETECTED"]
      BY <2>1, Names, EmitAdds
    <2>4. Bounded'
      BY <1>2, <1>3, <2>1, <2>2, <2>3 DEF Agreement, Bounded
    <2>5. ReplaysEqual'
      BY <2>1, <2>2, <2>3, Zenon DEF Agreement, ReplaysEqual
    <2>6. LoginsEqual'
      <3>1. Answered("login", 200)' = audit'["PASSKEY_AUTHENTICATION_SUCCESS"]
        BY <1>3, <2>2, <2>3 DEF Agreement, LoginsEqual
      <3> QED
        BY <3>1 DEF LoginsEqual
    <2>7. RegistrationsEqual'
      BY <2>1, <2>2, <2>3, Zenon DEF Agreement, RegistrationsEqual
    <2> QED
      BY <2>4, <2>5, <2>6, <2>7 DEF Agreement
  <1> QED
    BY <1>5, <1>6, <1>7, <1>8, <1>9 DEF CeremonyStep

LEMMA AgreementStep ==
  ASSUME TypeOK, RoutesFit, StatusFits, RelayInv, Countable, Countable', CountersAgree,
         OwnType', [Next]_vars
  PROVE  CountersAgree'
  <1>1. Metrics!TypeOK /\ OwnType /\ Agreement
    BY AgreementIs DEF TypeOK, OwnType
  <1>2. (CountersAgree <=> Agreement)'
    BY AgreementIs, PTL
  <1>3. SUFFICES Agreement'
    BY <1>2
  <1>4. unseen \in Nat /\ unseen' \in Nat
    BY <1>1 DEF OwnType
  <1>5. ASSUME UNCHANGED <<pc, route, status, unseen, http_requests_total, ceremonyVars>>
        PROVE  Agreement'
    <2>1. Cardinality(Waiting') = Cardinality(Waiting)
      BY <1>5 DEF Waiting
    <2>2. AnsweredStill
      BY <1>5, AnsweredKept
    <2>3. /\ Answered("login", 200)' = Answered("login", 200)
          /\ Answered("login", 400)' = Answered("login", 400)
          /\ Answered("login", 403)' = Answered("login", 403)
          /\ Answered("register", 200)' = Answered("register", 200)
      BY <2>2 DEF AnsweredStill, Route, Ceremony, HttpStatus
    <2>4. /\ authentication_attempts_total' = authentication_attempts_total
          /\ counter_replay_violations_total' = counter_replay_violations_total
          /\ registration_requests_total' = registration_requests_total
          /\ audit' = audit /\ unseen' = unseen
      BY <1>5 DEF ceremonyVars
    <2>5. ReplaysEqual' /\ LoginsEqual' /\ RegistrationsEqual'
      BY <1>1, <2>3, <2>4, Zenon DEF Agreement, ReplaysEqual, LoginsEqual, RegistrationsEqual
    <2>6. Bounded'
      <3>1. Bounded
        BY <1>1 DEF Agreement
      <3> QED
        BY <2>1, <2>3, <2>4, <3>1 DEF Bounded
    <2> QED
      BY <2>5, <2>6 DEF Agreement
  <1>6. ASSUME NEW r \in Request, NEW stage, stage # "user", pc[r] # "user",
               pc' = [pc EXCEPT ![r] = stage], unseen' = unseen, AnsweredStill,
               UNCHANGED ceremonyVars
        PROVE  Agreement'
    <2>1. unseen' >= unseen
      BY <1>4, <1>6
    <2> QED
      BY <1>1, <1>4, <1>6, <2>1, QuietStep
  <1>7. ASSUME NEW r \in Request, QuietAnswer(r), pc[r] # "user", UNCHANGED ceremonyVars
        PROVE  Agreement'
    <2>1. pc' = [pc EXCEPT ![r] = "answered"] /\ unseen' = unseen
      BY <1>7 DEF QuietAnswer, Respond, Answer
    <2>2. unseen' >= unseen
      BY <1>4, <2>1
    <2> QED
      BY <1>1, <1>4, <1>7, <2>1, <2>2, QuietStep, "answered" # "user"
  <1>8. ASSUME NEW r \in Request, NEW st, RespondUnseen(r, st), pc[r] # "answered",
               UNCHANGED ceremonyVars
        PROVE  Agreement'
    <2>1. /\ pc' = [pc EXCEPT ![r] = "done"] /\ unseen' = unseen + 1
          /\ http_requests_total' = http_requests_total /\ route' = route
          /\ status' = [status EXCEPT ![r] = st]
      BY <1>8 DEF RespondUnseen, Answer
    <2>2. unseen' >= unseen
      BY <1>4, <2>1
    <2>3. AnsweredStill
      BY <1>1, <1>8, <2>1, AnsweredKept DEF OwnType
    <2> QED
      BY <1>1, <1>4, <1>8, <2>1, <2>2, <2>3, QuietStep, "done" # "user"
  <1>9. ASSUME NEW r \in Request, Kind(r)
        PROVE  Agreement'
    <2>1. ASSUME NEW rt \in Route, Arrive(r, rt)
          PROVE  Agreement'
      <3>1. AnsweredStill
        BY <1>1, <2>1, AnsweredKept DEF Arrive, metricsVars, OwnType
      <3> QED
        BY <1>6, <2>1, <3>1 DEF Arrive, metricsVars
    <2>2. ASSUME NEW stage \in Stage, Moves(r, stage)
          PROVE  Agreement'
      <3>1. AnsweredStill
        BY <1>1, <2>2, AnsweredKept DEF Moves, Goto, metricsVars, OwnType
      <3> QED
        BY <1>6, <2>2, <3>1 DEF Moves, Goto, metricsVars
    <2>3. ASSUME NEW st \in HttpStatus, Seen(r, st)
          PROVE  Agreement'
      <3>1. QuietAnswer(r) /\ pc[r] # "user" /\ UNCHANGED ceremonyVars
        BY <2>3 DEF Seen, QuietAnswer
      <3> QED
        BY <1>7, <3>1
    <2>4. ASSUME NEW st \in {200, 429, 500}, Unseen(r, st)
          PROVE  Agreement'
      BY <1>8, <2>4 DEF Unseen
    <2>5. CASE CeremonyStep(r)
      BY <1>1, <2>5, CeremonyAgree
    <2>6. CASE SessionAccepted(r)
      <3>1. AnsweredStill
        BY <1>1, <2>6, AnsweredKept DEF SessionAccepted, Goto, metricsVars, OwnType
      <3> QED
        BY <1>6, <2>6, <3>1 DEF SessionAccepted, Goto, metricsVars
    <2>7. CASE Abort(r)
      <3>1. pc[r] = "relay"
        BY <2>7 DEF Abort, Relay!Abort, RelayInv, RelayFits
      <3> QED
        BY <1>8, <2>7, <3>1 DEF Abort
    <2>8. CASE PassOn(r) \/ GiveUp(r)
      <3>1. pc[r] = "relay" /\ route[r] = "upstream"
        BY <2>8 DEF PassOn, GiveUp, Relay!PassOn, Relay!GiveUp, RelayInv, RelayFits,
                    RoutesFit, Fits
      <3>2. UNCHANGED ceremonyVars /\ \E st \in HttpStatus : Respond(r, st)
        BY <2>8 DEF PassOn, GiveUp, HttpStatus
      <3>3. QuietAnswer(r)
        BY <3>1, <3>2 DEF QuietAnswer
      <3> QED
        BY <1>7, <3>1, <3>2, <3>3
    <2>9. CASE OutsideStep(r)
      BY <1>5, <2>9 DEF OutsideStep, Send, Execute, Reject, Vanish, ownVars, metricsVars
    <2>10. CASE Leave(r)
      <3>1. AnsweredStill
        BY <1>1, <2>10, AnsweredKept DEF Leave, metricsVars, OwnType
      <3> QED
        BY <1>6, <2>10, <3>1 DEF Leave, metricsVars
    <2>11. CASE CountResponse(r)
      <3>1. AnsweredStill
        BY <1>1, <2>11, AnsweredCounted
      <3> QED
        BY <1>6, <2>11, <3>1 DEF CountResponse, Goto
    <2> QED
      BY <1>9, <2>1, <2>2, <2>3, <2>4, <2>5, <2>6, <2>7, <2>8, <2>9, <2>10, <2>11
      DEF Kind, RelayStep
  <1>10. CASE Still
    BY <1>5, <1>10 DEF Still, ownVars, metricsVars
  <1>11. CASE Restart
    <2>1. Waiting' = {}
      BY <1>11 DEF Restart, Waiting
    <2>2. Cardinality(Waiting') = 0
      BY <2>1, FS_EmptySet
    <2>3. /\ http_requests_total' = [k \in Route \X HttpStatus |-> 0]
          /\ authentication_attempts_total' = [o \in Metrics!Outcome |-> 0]
          /\ counter_replay_violations_total' = 0 /\ registration_requests_total' = 0
          /\ audit' = [e \in Metrics!Event |-> 0] /\ unseen' = 0
      BY <1>11 DEF Restart, Metrics!Crash
    <2>4. /\ {"login", "register"} \subseteq Route /\ {200, 400, 403} \subseteq HttpStatus
      BY DEF Route, Ceremony, HttpStatus
    <2>5. \A q \in Route, s \in HttpStatus : Answered(q, s)' = 0
      <3> SUFFICES ASSUME NEW q \in Route, NEW s \in HttpStatus PROVE Answered(q, s)' = 0
        OBVIOUS
      <3>1. Answered(q, s)' = http_requests_total'[<<q, s>>] + Cardinality(Pending(q, s)')
        BY DEF Answered
      <3>2. http_requests_total'[<<q, s>>] = 0
        BY <2>3
      <3>3. Pending(q, s)' = {}
        BY <1>11 DEF Restart, Pending, At
      <3>4. Cardinality(Pending(q, s)') = 0
        BY <3>3, FS_EmptySet
      <3> QED
        BY <3>1, <3>2, <3>4
    <2> QED
      BY <2>2, <2>3, <2>4, <2>5, Names
      DEF Agreement, ReplaysEqual, LoginsEqual, RegistrationsEqual, Bounded
  <1> QED
    BY <1>9, <1>10, <1>11, StepKinds

-----------------------------------------------------------------------------
(* A relayed request.                                                          *)
Once(r) ==
    /\ executed[r] <= 1
    /\ Settled(r, {"upstream"}) /\ status[r] = 200 => executed[r] = 1
    /\ Settled(r, {"upstream"}) /\ status[r] \in {401, 404, 500} => executed[r] = 0

LEMMA OnceIs == RelayedOnce <=> \A r \in Request : Once(r)
  BY DEF RelayedOnce, Once

(* What a step of one request leaves alone of another.                         *)
Untouched(q) ==
    /\ pc'[q] = pc[q] /\ route'[q] = route[q] /\ status'[q] = status[q]
    /\ relay'[q] = relay[q] /\ upstream'[q] = upstream[q] /\ executed'[q] = executed[q]

LEMMA RelayElsewhere ==
  ASSUME NEW q \in Request, RelayFits(q), Once(q), Untouched(q)
  PROVE  RelayFits(q)' /\ Once(q)'
  BY DEF RelayFits, Once, Untouched, Settled

LEMMA OwnTouches ==
  ASSUME OwnType, NEW r \in Request, NEW q \in Request, q # r, NEW st, NEW stage,
         Answer(r, stage, st) \/ Goto(r, stage)
  PROVE  pc'[q] = pc[q] /\ route'[q] = route[q] /\ status'[q] = status[q]
  BY DEF OwnType, Answer, Goto

(* A request that is neither relayed nor answered moves on, or is answered     *)
(* with nothing sent.                                                          *)
LEMMA RelayPlain ==
  ASSUME OwnType, Relay!TypeOK, RelayInv, UNCHANGED relayVars,
         NEW r \in Request, pc[r] \notin {"relay", "answered", "done"}, upstream[r] = "none",
         pc'[r] \notin {"idle", "relay"},
         pc'[r] \in {"answered", "done"} /\ route'[r] = "upstream" => status'[r] = 401,
         \A q \in Request :
           q # r => pc'[q] = pc[q] /\ route'[q] = route[q] /\ status'[q] = status[q]
  PROVE  RelayInv'
  <1>1. relay' = relay /\ upstream' = upstream /\ executed' = executed
    BY DEF relayVars
  <1>2. \A q \in Request : RelayFits(q) /\ Once(q)
    BY OnceIs DEF RelayInv
  <1>3. ASSUME NEW q \in Request
        PROVE  RelayFits(q)' /\ Once(q)'
    <2>1. CASE q # r
      <3>1. Untouched(q)
        BY <1>1, <2>1 DEF Untouched
      <3> QED
        BY <1>2, <3>1, RelayElsewhere
    <2>2. CASE q = r
      <3>1. relay[r] = "none" /\ executed[r] = 0
        BY <1>2 DEF RelayFits
      <3> QED
        BY <1>1, <2>2, <3>1 DEF RelayFits, Once, Settled
    <2> QED
      BY <2>1, <2>2
  <1>4. (\A q \in Request : Once(q))' => RelayedOnce'
    BY DEF RelayedOnce, Once
  <1> QED
    BY <1>3, <1>4 DEF RelayInv

LEMMA RelayInvStep ==
  ASSUME TypeOK, RoutesFit, RelayInv, [Next]_vars
  PROVE  Relay!TypeOK' /\ RelayInv'
  <1>1. OwnType /\ Relay!TypeOK
    BY DEF TypeOK, OwnType
  <1>2. \A q \in Request : RelayFits(q) /\ Once(q)
    BY OnceIs DEF RelayInv
  <1>3. ASSUME \A q \in Request : RelayFits(q)' /\ Once(q)'
        PROVE  RelayInv'
    BY <1>3 DEF RelayInv, RelayedOnce, Once
  <1>4. ASSUME UNCHANGED relayVars
        PROVE  Relay!TypeOK'
    BY <1>1, <1>4 DEF relayVars, Relay!TypeOK
  (* It is enough to look at the request that moves. *)
  <1>5. ASSUME NEW r \in Request, RelayFits(r)', Once(r)',
               \A q \in Request : q # r => Untouched(q)
        PROVE  RelayInv'
    <2>1. ASSUME NEW q \in Request
          PROVE  RelayFits(q)' /\ Once(q)'
      BY <1>2, <1>5, RelayElsewhere
    <2> QED
      BY <1>3, <2>1
  <1>6. ASSUME NEW r \in Request, Kind(r)
        PROVE  Relay!TypeOK' /\ RelayInv'
    <2>1. ASSUME NEW rt \in Route, Arrive(r, rt)
          PROVE  Relay!TypeOK' /\ RelayInv'
      BY <1>1, <1>4, <2>1, RelayPlain DEF Arrive, OwnType
    <2>2. ASSUME NEW stage \in Stage, Moves(r, stage)
          PROVE  Relay!TypeOK' /\ RelayInv'
      <3>1. upstream[r] = "none"
        BY <1>2, <2>2 DEF Moves, RelayFits
      <3> QED
        BY <1>1, <1>4, <2>2, <3>1, RelayPlain DEF Moves, Goto
    <2>3. ASSUME NEW st, RespondUnseen(r, st) \/ Respond(r, st),
                 UNCHANGED relayVars, pc[r] \notin {"idle", "relay", "answered", "done"},
                 route[r] = "upstream" => st = 401
          PROVE  Relay!TypeOK' /\ RelayInv'
      <3>1. upstream[r] = "none"
        BY <1>2, <2>3 DEF RelayFits
      <3>2. /\ pc'[r] \in {"answered", "done"}
            /\ route'[r] = route[r] /\ status'[r] = st
        BY <1>1, <2>3 DEF RespondUnseen, Respond, Answer, OwnType
      <3>3. \A q \in Request :
              q # r => pc'[q] = pc[q] /\ route'[q] = route[q] /\ status'[q] = status[q]
        BY <1>1, <2>3, OwnTouches DEF RespondUnseen, Respond
      <3> QED
        BY <1>1, <1>4, <2>3, <3>1, <3>2, <3>3, RelayPlain
    <2>4. ASSUME NEW st \in HttpStatus, Seen(r, st)
          PROVE  Relay!TypeOK' /\ RelayInv'
      BY <2>3, <2>4 DEF Seen
    <2>5. ASSUME NEW st \in {200, 429, 500}, Unseen(r, st)
          PROVE  Relay!TypeOK' /\ RelayInv'
      BY <2>3, <2>5 DEF Unseen
    <2>6. CASE AssertionFails(r)
      BY <2>3, <2>6 DEF AssertionFails, At
    <2>7. CASE ReplayDetected(r)
      BY <2>3, <2>7 DEF ReplayDetected, At
    <2>8. CASE Registered(r)
      BY <2>3, <2>8 DEF Registered, At
    <2>9. CASE SessionIssued(r)
      BY <2>3, <2>9 DEF SessionIssued, RoutesFit, Fits
    <2>10. CASE CounterStored(r)
      <3>1. upstream[r] = "none"
        BY <1>2, <2>10 DEF CounterStored, At, RelayFits
      <3> QED
        BY <1>1, <1>4, <2>10, <3>1, RelayPlain DEF CounterStored, At, Goto
    <2>11. CASE SessionAccepted(r)
      <3>1. /\ pc[r] = "session" /\ relay' = [relay EXCEPT ![r] = "body"]
            /\ Goto(r, "relay") /\ upstream' = upstream /\ executed' = executed
        BY <2>11 DEF SessionAccepted, Relay!Begin
      <3>2. Relay!TypeOK'
        BY <1>1, <3>1 DEF Relay!TypeOK
      <3>3. RelayFits(r)' /\ Once(r)'
        BY <1>1, <1>2, <3>1 DEF Relay!TypeOK, OwnType, Goto, RelayFits, Once, Settled
      <3>4. \A q \in Request : q # r => Untouched(q)
        BY <1>1, <3>1, OwnTouches DEF Relay!TypeOK, Untouched
      <3> QED
        BY <1>5, <3>2, <3>3, <3>4
    <2>12. CASE Abort(r)
      <3>1. /\ relay[r] = "body" /\ relay' = [relay EXCEPT ![r] = "none"]
            /\ Answer(r, "done", 500) /\ upstream' = upstream /\ executed' = executed
        BY <2>12 DEF Abort, Relay!Abort, RespondUnseen
      <3>2. Relay!TypeOK'
        BY <1>1, <3>1 DEF Relay!TypeOK
      <3>3. RelayFits(r)' /\ Once(r)'
        BY <1>1, <1>2, <3>1 DEF Relay!TypeOK, OwnType, Answer, RelayFits, Once, Settled
      <3>4. \A q \in Request : q # r => Untouched(q)
        BY <1>1, <3>1, OwnTouches DEF Relay!TypeOK, Untouched
      <3> QED
        BY <1>5, <3>2, <3>3, <3>4
    <2>13. CASE PassOn(r)
      <3>1. /\ relay[r] = "reply" /\ upstream[r] \in {"rejected", "carried_out"}
            /\ relay' = [relay EXCEPT ![r] = "none"]
            /\ upstream' = [upstream EXCEPT ![r] = "none"] /\ executed' = executed
            /\ Answer(r, "answered", IF upstream[r] = "carried_out" THEN 200 ELSE 404)
        BY <2>13 DEF PassOn, Relay!PassOn, Respond
      <3>2. Relay!TypeOK'
        BY <1>1, <3>1 DEF Relay!TypeOK
      <3>3. RelayFits(r)' /\ Once(r)'
        BY <1>1, <1>2, <3>1 DEF Relay!TypeOK, OwnType, Answer, RelayFits, Once, Settled
      <3>4. \A q \in Request : q # r => Untouched(q)
        BY <1>1, <3>1, OwnTouches DEF Relay!TypeOK, Untouched
      <3> QED
        BY <1>5, <3>2, <3>3, <3>4
    <2>14. CASE GiveUp(r)
      <3>1. /\ relay[r] = "reply" /\ relay' = [relay EXCEPT ![r] = "none"]
            /\ Answer(r, "answered", 502) /\ upstream' = upstream /\ executed' = executed
        BY <2>14 DEF GiveUp, Relay!GiveUp, Respond
      <3>2. Relay!TypeOK'
        BY <1>1, <3>1 DEF Relay!TypeOK
      <3>3. RelayFits(r)' /\ Once(r)'
        BY <1>1, <1>2, <3>1 DEF Relay!TypeOK, OwnType, Answer, RelayFits, Once, Settled
      <3>4. \A q \in Request : q # r => Untouched(q)
        BY <1>1, <3>1, OwnTouches DEF Relay!TypeOK, Untouched
      <3> QED
        BY <1>5, <3>2, <3>3, <3>4
    <2>15. CASE OutsideStep(r)
      <3>1. pc' = pc /\ route' = route /\ status' = status
        BY <2>15 DEF OutsideStep, Send, Execute, Reject, Vanish, ownVars
      <3>2. \/ Relay!Send(r) \/ Relay!Execute(r) \/ Relay!Reject(r) \/ Relay!Vanish(r)
        BY <2>15 DEF OutsideStep, Send, Execute, Reject, Vanish
      <3>3. Relay!TypeOK'
        BY <1>1, <3>2 DEF Relay!TypeOK, Relay!Send, Relay!Execute, Relay!Reject, Relay!Vanish
      <3>4. RelayFits(r)' /\ Once(r)'
        <4>1. CASE Relay!Send(r)
          BY <1>1, <1>2, <3>1, <4>1 DEF Relay!Send, Relay!TypeOK, RelayFits, Once, Settled
        <4>2. CASE Relay!Execute(r)
          BY <1>1, <1>2, <3>1, <4>2 DEF Relay!Execute, Relay!TypeOK, RelayFits, Once, Settled
        <4>3. CASE Relay!Reject(r)
          BY <1>1, <1>2, <3>1, <4>3 DEF Relay!Reject, Relay!TypeOK, RelayFits, Once, Settled
        <4>4. CASE Relay!Vanish(r)
          BY <1>1, <1>2, <3>1, <4>4 DEF Relay!Vanish, Relay!TypeOK, RelayFits, Once, Settled
        <4> QED
          BY <3>2, <4>1, <4>2, <4>3, <4>4
      <3>5. \A q \in Request : q # r => Untouched(q)
        BY <1>1, <3>1, <3>2 DEF Relay!TypeOK, Untouched, Relay!Send, Relay!Execute,
                                Relay!Reject, Relay!Vanish
      <3> QED
        BY <1>5, <3>3, <3>4, <3>5
    <2>16. CASE Leave(r)
      <3>1. /\ pc[r] = "done" /\ pc' = [pc EXCEPT ![r] = "idle"]
            /\ route' = [route EXCEPT ![r] = "page"] /\ status' = [status EXCEPT ![r] = 0]
            /\ relay' = relay /\ upstream' = upstream
            /\ executed'
                 = [executed EXCEPT ![r] = IF upstream[r] = "none" THEN 0 ELSE executed[r]]
        BY <2>16 DEF Leave, Relay!Forget, Relay!Remaining
      <3>2. Relay!TypeOK'
        BY <1>1, <3>1 DEF Relay!TypeOK
      <3>3. RelayFits(r)' /\ Once(r)'
        BY <1>1, <1>2, <3>1 DEF Relay!TypeOK, OwnType, RelayFits, Once, Settled
      <3>4. \A q \in Request : q # r => Untouched(q)
        BY <1>1, <3>1 DEF Relay!TypeOK, OwnType, Untouched
      <3> QED
        BY <1>5, <3>2, <3>3, <3>4
    <2>17. CASE CountResponse(r)
      <3>1. /\ pc[r] = "answered" /\ Goto(r, "done")
            /\ relay' = relay /\ upstream' = upstream /\ executed' = executed
        BY <2>17 DEF CountResponse, relayVars
      <3>2. Relay!TypeOK'
        BY <1>4, <2>17 DEF CountResponse
      <3>3. RelayFits(r)' /\ Once(r)'
        BY <1>1, <1>2, <3>1 DEF OwnType, Goto, RelayFits, Once, Settled
      <3>4. \A q \in Request : q # r => Untouched(q)
        BY <1>1, <3>1, OwnTouches DEF Untouched
      <3> QED
        BY <1>5, <3>2, <3>3, <3>4
    <2> QED
      BY <1>6, <2>1, <2>2, <2>4, <2>5, <2>6, <2>7, <2>8, <2>9, <2>10, <2>11, <2>12, <2>13,
         <2>14, <2>15, <2>16, <2>17 DEF Kind, CeremonyStep, RelayStep
  <1>7. CASE Still
    <2>1. \A q \in Request : Untouched(q)
      BY <1>7 DEF Still, ownVars, relayVars, Untouched
    <2> QED
      BY <1>2, <1>3, <1>4, <1>7, <2>1, RelayElsewhere DEF Still
  <1>8. CASE Restart
    <2>1. /\ pc' = [r \in Request |-> "idle"] /\ relay' = [r \in Request |-> "none"]
          /\ upstream' = upstream
          /\ executed' = [r \in Request |-> IF upstream[r] = "none" THEN 0 ELSE executed[r]]
      BY <1>8 DEF Restart, Relay!Crash, Relay!Remaining
    <2>2. Relay!TypeOK'
      BY <1>1, <2>1 DEF Relay!TypeOK
    <2>3. ASSUME NEW q \in Request
          PROVE  RelayFits(q)' /\ Once(q)'
      BY <1>1, <1>2, <2>1 DEF Relay!TypeOK, RelayFits, Once, Settled
    <2> QED
      BY <1>3, <2>2, <2>3
  <1> QED
    BY <1>6, <1>7, <1>8, StepKinds

-----------------------------------------------------------------------------
(* The readiness probe.                                                        *)
ProbeStays ==
    UNCHANGED probeVars /\ \A q \in Request : pc[q] = "probe" => pc'[q] = "probe"

LEMMA ProbeElsewhere ==
  ASSUME OwnType, NEW r \in Request, pc[r] # "probe", NEW st, NEW stage,
         Answer(r, stage, st) \/ Goto(r, stage), UNCHANGED probeVars
  PROVE  ProbeStays
  BY DEF OwnType, Answer, Goto, ProbeStays

LEMMA ProbeKinds ==
  ASSUME OwnType, RoutesFit, RelayInv, [Next]_vars
  PROVE  \/ \E r \in Request : Examine(r) \/ Examined(r) \/ Leave(r)
         \/ Probe!Expire /\ pc' = pc
         \/ ProbeStays
         \/ Restart
  <1>1. CASE UNCHANGED vars
    BY <1>1 DEF vars, ownVars, ProbeStays
  <1>2. CASE ProbeKeyExpires
    BY <1>2 DEF ProbeKeyExpires, ownVars
  <1>3. ASSUME NEW r \in Request, NEW rt \in Route, Arrive(r, rt)
        PROVE  ProbeStays
    BY <1>3 DEF Arrive, OwnType, ProbeStays
  <1>4. ASSUME NEW r \in Request, NEW st, Respond(r, st) \/ RespondUnseen(r, st),
               pc[r] # "probe", UNCHANGED probeVars
        PROVE  ProbeStays
    BY <1>4, ProbeElsewhere DEF Respond, RespondUnseen
  <1>5. ASSUME NEW r \in Request, Local(r)
        PROVE  ProbeStays \/ Examine(r)
    <2>1. CASE Throttle(r) \/ ServeStatic(r)
      BY <1>4, <2>1 DEF Throttle, ServeStatic, At
    <2>2. CASE Scrape(r)
      BY <1>4, <2>2 DEF Scrape, At
    <2>3. CASE Enter(r) \/ CheckSession(r)
      BY <2>3, ProbeElsewhere DEF Enter, CheckSession, At
    <2>4. ASSUME NEW st \in HttpStatus, ServePage(r, st)
          PROVE  ProbeStays
      BY <1>4, <2>4 DEF ServePage, At
    <2>5. CASE CountResponse(r)
      BY <2>5, ProbeElsewhere DEF CountResponse
    <2> QED
      BY <1>5, <2>1, <2>2, <2>3, <2>4, <2>5 DEF Local
  <1>6. ASSUME NEW r \in Request, Resumed(r)
        PROVE  ProbeStays \/ Examined(r)
    <2>1. CASE OptionsSaved(r) \/ AssertionFails(r) \/ ReplayDetected(r) \/ Registered(r)
      BY <1>4, <2>1 DEF OptionsSaved, AssertionFails, ReplayDetected, Registered, At
    <2>2. CASE SessionIssued(r) \/ Raise(r) \/ SessionRefused(r)
      BY <1>4, <2>2 DEF SessionIssued, Raise, SessionRefused
    <2>3. CASE Verified(r) \/ CounterStored(r)
      BY <2>3, ProbeElsewhere DEF Verified, CounterStored, At
    <2>4. CASE SessionAccepted(r)
      BY <2>4, ProbeElsewhere DEF SessionAccepted
    <2>5. ASSUME NEW st \in HttpStatus, Refuse(r, st)
          PROVE  ProbeStays
      BY <1>4, <2>5 DEF Refuse, At
    <2> QED
      BY <1>6, <2>1, <2>2, <2>3, <2>4, <2>5 DEF Resumed
  <1>7. ASSUME NEW r \in Request, Relaying(r) \/ Outside(r)
        PROVE  ProbeStays
    <2>1. CASE Abort(r) \/ PassOn(r) \/ GiveUp(r)
      <3>1. pc[r] # "probe"
        BY <2>1 DEF Abort, PassOn, GiveUp, Relay!Abort, Relay!PassOn, Relay!GiveUp,
                    RelayInv, RelayFits
      <3> QED
        BY <1>4, <2>1, <3>1 DEF Abort, PassOn, GiveUp
    <2>2. CASE Send(r) \/ Outside(r)
      BY <2>2 DEF Outside, Send, Execute, Reject, Vanish, ownVars, ProbeStays
    <2> QED
      BY <1>7, <2>1, <2>2 DEF Relaying
  <1> QED
    BY <1>1, <1>2, <1>3, <1>5, <1>6, <1>7 DEF Next

(* One step of a probe: whoever has saved and not consumed learns what came in *)
(* between.                                                                    *)
LEMMA ProbeMoves ==
  ASSUME Probe!TypeOK, ProbeInv, NEW r \in Request, pc[r] = "probe", ProbeStep(r),
         pc' = pc \/ (probe'[r] = "none" /\ \A q \in Request : q # r => pc'[q] = pc[q])
  PROVE  Probe!TypeOK' /\ ProbeInv'
  <1> DEFINE Good(q) == /\ ProbeFits(q)
                        /\ cache[q] = "failed_consumption" => disturbed[q] # {}
  <1>1. \A q \in Request : Good(q)
    BY DEF ProbeInv, ProbeFailsForCause, Probe!ProbeFailsForCause
  <1>2. ASSUME \A q \in Request : Good(q)'
        PROVE  ProbeInv'
    BY <1>2 DEF ProbeInv, ProbeFailsForCause, Probe!ProbeFailsForCause
  <1>3. ASSUME NEW ok \in BOOLEAN, Probe!Select(r, ok)
        PROVE  Probe!TypeOK' /\ ProbeInv'
    <2>1. Probe!TypeOK'
      BY <1>3 DEF Probe!TypeOK, Probe!Select, Probe!Report
    <2>2. \A q \in Request : Good(q)'
      BY <1>1, <1>3 DEF Probe!TypeOK, Probe!Select, Probe!Report, ProbeFits
    <2> QED
      BY <1>2, <2>1, <2>2
  <1>4. CASE Probe!Save(r)
    <2>1. Probe!TypeOK'
      BY <1>4 DEF Probe!TypeOK, Probe!Save
    <2>2. \A q \in Request : Good(q)'
      BY <1>1, <1>4 DEF Probe!TypeOK, Probe!Save, ProbeFits
    <2> QED
      BY <1>2, <2>1, <2>2
  <1>5. CASE Probe!Consume(r)
    <2>1. Probe!TypeOK'
      <3>1. redis' \in BOOLEAN
        BY <1>5 DEF Probe!TypeOK, Probe!Consume
      <3>2. /\ redis_available' = redis_available /\ database' = database
            /\ memory' = memory
            /\ probe' \in [Request -> {"none", "select", "save", "consume"}]
            /\ cache' \in [Request -> {"none", "ok", "failed_consumption"}]
        BY <1>5 DEF Probe!TypeOK, Probe!Consume, Probe!Report
      <3>3. disturbed' \in [Request -> SUBSET {"fault", "expiry", "probe"}]
        BY <1>5 DEF Probe!TypeOK, Probe!Consume, Probe!Disturb
      <3> QED
        BY <3>1, <3>2, <3>3 DEF Probe!TypeOK
    <2>2. \A q \in Request : Good(q)'
      BY <1>1, <1>5 DEF Probe!TypeOK, Probe!Consume, Probe!Report, Probe!Disturb, ProbeFits
    <2> QED
      BY <1>2, <2>1, <2>2
  <1>6. ASSUME NEW applied \in BOOLEAN, Probe!SaveFails(r, applied)
        PROVE  Probe!TypeOK' /\ ProbeInv'
    <2>1. Probe!TypeOK'
      BY <1>6 DEF Probe!TypeOK, Probe!SaveFails
    <2>2. \A q \in Request : Good(q)'
      BY <1>1, <1>6 DEF Probe!TypeOK, Probe!SaveFails, ProbeFits
    <2> QED
      BY <1>2, <2>1, <2>2
  <1>7. ASSUME NEW applied \in BOOLEAN, Probe!ConsumeFails(r, applied)
        PROVE  Probe!TypeOK' /\ ProbeInv'
    <2>1. Probe!TypeOK'
      BY <1>7 DEF Probe!TypeOK, Probe!ConsumeFails, Probe!Report
    <2>2. \A q \in Request : Good(q)'
      BY <1>1, <1>7 DEF Probe!TypeOK, Probe!ConsumeFails, Probe!Report, ProbeFits
    <2> QED
      BY <1>2, <2>1, <2>2
  <1> QED
    BY <1>3, <1>4, <1>5, <1>6, <1>7 DEF ProbeStep

LEMMA ProbeInvStep ==
  ASSUME TypeOK, RoutesFit, RelayInv, ProbeInv, [Next]_vars
  PROVE  Probe!TypeOK' /\ ProbeInv'
  <1> DEFINE Good(q) == /\ ProbeFits(q)
                        /\ cache[q] = "failed_consumption" => disturbed[q] # {}
  <1>1. \A q \in Request : Good(q)
    BY DEF ProbeInv, ProbeFailsForCause, Probe!ProbeFailsForCause
  <1>2. ASSUME \A q \in Request : Good(q)'
        PROVE  ProbeInv'
    BY <1>2 DEF ProbeInv, ProbeFailsForCause, Probe!ProbeFailsForCause
  <1>3. OwnType /\ Probe!TypeOK
    BY DEF TypeOK, OwnType
  <1>4. ASSUME NEW r \in Request, Examine(r)
        PROVE  Probe!TypeOK' /\ ProbeInv'
    <2>1. /\ pc[r] = "arrived" /\ pc' = [pc EXCEPT ![r] = "probe"] /\ Probe!Begin(r)
      BY <1>4 DEF Examine, At, Goto
    <2>2. Probe!TypeOK'
      BY <1>3, <2>1 DEF Probe!TypeOK, Probe!Begin
    <2>3. \A q \in Request : Good(q)'
      BY <1>1, <1>3, <2>1 DEF Probe!TypeOK, Probe!Begin, OwnType, ProbeFits
    <2> QED
      BY <1>2, <2>2, <2>3
  <1>5. ASSUME NEW r \in Request, Examined(r)
        PROVE  Probe!TypeOK' /\ ProbeInv'
    <2>1. pc[r] = "probe" /\ ProbeStep(r)
      BY <1>5 DEF Examined
    <2>2. pc' = pc \/ (probe'[r] = "none" /\ \A q \in Request : q # r => pc'[q] = pc[q])
      <3>1. CASE probe'[r] = "none"
        BY <1>3, <1>5, <3>1 DEF Examined, Respond, Answer, OwnType
      <3>2. CASE probe'[r] # "none"
        BY <1>5, <3>2 DEF Examined, ownVars
      <3> QED
        BY <3>1, <3>2
    <2> QED
      BY <1>3, <2>1, <2>2, ProbeMoves
  <1>6. CASE Probe!Expire /\ pc' = pc
    <2>1. Probe!TypeOK'
      BY <1>3, <1>6 DEF Probe!TypeOK, Probe!Expire
    <2>2. \A q \in Request : Good(q)'
      BY <1>1, <1>3, <1>6 DEF Probe!TypeOK, Probe!Expire, ProbeFits
    <2> QED
      BY <1>2, <2>1, <2>2
  <1>7. CASE ProbeStays
    <2>1. Probe!TypeOK'
      BY <1>3, <1>7 DEF ProbeStays, probeVars, Probe!TypeOK
    <2>2. \A q \in Request : Good(q)'
      BY <1>1, <1>7 DEF ProbeStays, probeVars, ProbeFits
    <2> QED
      BY <1>2, <2>1, <2>2
  <1>8. ASSUME NEW r \in Request, Leave(r)
        PROVE  Probe!TypeOK' /\ ProbeInv'
    <2>1. pc[r] = "done" /\ pc' = [pc EXCEPT ![r] = "idle"] /\ Probe!Forget(r)
      BY <1>8 DEF Leave
    <2>2. Probe!TypeOK'
      BY <1>3, <2>1 DEF Probe!TypeOK, Probe!Forget
    <2>3. \A q \in Request : Good(q)'
      BY <1>1, <1>3, <2>1 DEF Probe!TypeOK, Probe!Forget, OwnType, ProbeFits
    <2> QED
      BY <1>2, <2>2, <2>3
  <1>9. CASE Restart
    <2>1. Probe!Crash
      BY <1>9 DEF Restart
    <2>2. Probe!TypeOK'
      BY <1>3, <2>1 DEF Probe!TypeOK, Probe!Crash
    <2>3. \A q \in Request : Good(q)'
      BY <2>1 DEF Probe!Crash, ProbeFits
    <2> QED
      BY <1>2, <2>2, <2>3
  <1> QED
    BY <1>3, <1>4, <1>5, <1>6, <1>7, <1>8, <1>9, ProbeKinds

-----------------------------------------------------------------------------
LEMMA InitEstablishes == Init => IInv
  <1> SUFFICES ASSUME Init PROVE IInv
    OBVIOUS
  <1>1. Metrics!Init /\ Relay!Init /\ Probe!Init
    BY DEF Init
  <1>2. HttpNew
    BY <1>1 DEF Metrics!Init, HttpNew
  <1>3. HttpInv /\ Metrics!Total(http_requests_total) = 0
    BY <1>2, HttpZero
  <1>4. OwnType
    BY LimitType DEF Init, OwnType, Stage, Route
  <1>5. Metrics!TypeOK
    BY <1>1, <1>3 DEF Metrics!Init, Metrics!TypeOK, HttpInv
  <1>6. Relay!TypeOK
    BY <1>1 DEF Relay!Init, Relay!TypeOK
  <1>7. Probe!TypeOK
    BY <1>1 DEF Probe!Init, Probe!TypeOK
  <1>8. InFlight = {} /\ Waiting = {} /\ \A q, s : Pending(q, s) = {}
    BY DEF Init, InFlight, Waiting, Pending, At
  <1>9. /\ IsFiniteSet(InFlight)
        /\ Cardinality(InFlight) = 0 /\ Cardinality(Waiting) = 0
        /\ \A q, s : Cardinality(Pending(q, s)) = 0
    BY <1>8, FS_EmptySet
  <1>10. NothingCountedTwice
    BY <1>3, <1>9 DEF Init, NothingCountedTwice
  <1>11. Agreement
    <2>1. {"login", "register"} \subseteq Route /\ {200, 400, 403} \subseteq HttpStatus
      BY DEF Route, Ceremony, HttpStatus
    <2>2. \A q \in Route, s \in HttpStatus : Answered(q, s) = 0
      BY <1>1, <1>9 DEF Metrics!Init, Answered
    <2> QED
      BY <1>1, <1>9, <2>1, <2>2, Names
      DEF Init, Metrics!Init, Agreement, ReplaysEqual, LoginsEqual, RegistrationsEqual, Bounded
  <1>12. RoutesFit /\ StatusFits
    BY DEF Init, RoutesFit, StatusFits, Fits
  <1>13. RelayInv
    BY <1>1 DEF Init, Relay!Init, RelayInv, RelayedOnce, RelayFits, Settled
  <1>14. ProbeInv
    BY <1>1
    DEF Init, Probe!Init, ProbeInv, ProbeFits, ProbeFailsForCause, Probe!ProbeFailsForCause
  <1> QED
    BY <1>3, <1>4, <1>5, <1>6, <1>7, <1>9, <1>10, <1>11, <1>12, <1>13, <1>14, AgreementIs
    DEF IInv, TypeOK, OwnType, Countable, HttpInv

LEMMA StepPreserves == IInv /\ [Next]_vars => IInv'
  <1> SUFFICES ASSUME IInv, [Next]_vars PROVE IInv'
    OBVIOUS
  <1> USE DEF IInv
  <1>1. OwnType /\ Metrics!TypeOK
    BY DEF TypeOK, OwnType
  <1>2. OwnType' /\ HttpInv' /\ IsFiniteSet(InFlight') /\ NothingCountedTwice'
    BY FlowStep
  <1>3. RoutesFit' /\ StatusFits'
    BY <1>1, RoutesStep, StatusStep
  <1>4. CeremonyType'
    BY <1>1, CeremonyTypeStep
  <1>5. Relay!TypeOK' /\ RelayInv'
    BY RelayInvStep
  <1>6. Probe!TypeOK' /\ ProbeInv'
    BY ProbeInvStep
  <1>7. Countable'
    BY <1>2 DEF Countable, HttpInv
  <1>8. Metrics!TypeOK'
    BY <1>2, <1>4 DEF HttpInv, CeremonyType, Metrics!TypeOK
  <1>9. TypeOK'
    BY <1>2, <1>5, <1>6, <1>8 DEF OwnType, TypeOK
  <1>10. SamplesMatchCounts'
    BY <1>2 DEF HttpInv
  <1>11. CountersAgree'
    BY <1>2, <1>7, AgreementStep
  <1> QED
    BY <1>2, <1>3, <1>5, <1>6, <1>7, <1>9, <1>10, <1>11

(* The invariant the theorems below are read from.                             *)
THEOREM Inductive == Spec => []IInv
  BY InitEstablishes, StepPreserves, PTL DEF Spec

-----------------------------------------------------------------------------
(* Every variable keeps its type: no count of samples passes its limit, and no *)
(* request has a status the gateway does not answer.                           *)
THEOREM TypeCorrect == Spec => []TypeOK
  <1>1. IInv => TypeOK
    BY DEF IInv
  <1> QED
    BY <1>1, Inductive, PTL

(* TelemetryMiddleware and the layers around it account for every request the  *)
(* process received, once: it is under way, in a counter, or among those       *)
(* answered outside that middleware.                                           *)
THEOREM NothingCountedTwiceHolds == Spec => []NothingCountedTwice
  <1>1. IInv => NothingCountedTwice
    BY DEF IInv
  <1> QED
    BY <1>1, Inductive, PTL

(* The ceremony counters, the audit records and the responses made agree,      *)
(* those TelemetryMiddleware has yet to count included, whatever fails between *)
(* a counter and its response.                                                 *)
THEOREM CountersAgreeHolds == Spec => []CountersAgree
  <1>1. IInv => CountersAgree
    BY DEF IInv
  <1> QED
    BY <1>1, Inductive, PTL

(* record_http_request keeps as many durations of a route as it counted        *)
(* requests, up to the limit.                                                  *)
THEOREM SamplesMatchCountsHolds == Spec => []SamplesMatchCounts
  <1>1. IInv => SamplesMatchCounts
    BY DEF IInv
  <1> QED
    BY <1>1, Inductive, PTL

(* proxy_upstream_request has a request carried out at most once, once if its  *)
(* client is told so and never if it is told otherwise; over timeouts, lost    *)
(* answers and restarts of the gateway.                                        *)
THEOREM RelayedOnceHolds == Spec => []RelayedOnce
  <1>1. IInv => RelayedOnce
    BY DEF IInv, RelayInv
  <1> QED
    BY <1>1, Inductive, PTL

(* health_readiness reports a failed consumption only if Redis failed, the key *)
(* expired or another probe took it.                                           *)
THEOREM ProbeFailsForCauseHolds == Spec => []ProbeFailsForCause
  <1>1. IInv => ProbeFailsForCause
    BY DEF IInv, ProbeInv
  <1> QED
    BY <1>1, Inductive, PTL
=============================================================================
