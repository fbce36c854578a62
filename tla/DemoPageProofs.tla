--------------------------- MODULE DemoPageProofs ---------------------------
(* Proofs about the page, for any number of clicks under way, every step-up    *)
(* limit, and answers that arrive in any order or never.                       *)
EXTENDS DemoPage, TLAPS

(* clearInterval leaves at most one interval running.                          *)
OneInterval ==
    intervals = <<>> \/ (intervals = <<intervals[1]>> /\ intervals[1] \in Interval)

(* Seconds left and earliest call together never end before the session shown  *)
(* reaches the limit.                                                          *)
CountdownCovers ==
    panel => \A i \in DOMAIN intervals :
        intervals[i].left + intervals[i].next > StepUpLimit + pageAuth

(* Nor do the seconds that an answered profile says are left.                  *)
ProfileCovers ==
    \A f \in Flow : Refreshing(f) /\ answered[f] /\ verdict[f] = "ok" =>
        token[f] # 0 /\ remaining[f] + clock >= StepUpLimit + token[f]

(* A click whose transfer was made is not sent again.                          *)
TransferEnds ==
    \A f \in Flow : executed[f] = 1 =>
        \/ Refreshing(f)
        \/ step[f] \in {"transfer", "retry"} /\ answered[f] /\ verdict[f] = "ok"

LoginsHaveTokens ==
    \A f \in Flow : step[f] \in {"login", "relogin"} /\ answered[f] => token[f] # 0

OneRefresh ==
    ~disturbed => \A f, g \in Flow : Refreshing(f) /\ Refreshing(g) => f = g

(* A refresh that is under way without a cookie was sent without one: had it   *)
(* left before the logout returned, two refreshes would have overlapped.       *)
RefreshSeesLogout ==
    ~disturbed /\ cookie = 0 => \A f \in Flow : Refreshing(f) => token[f] = 0

(* The panel outlives the cookie only until the logout's refresh is answered.  *)
PanelAwaitsRefresh ==
    ~disturbed /\ panel /\ cookie = 0 => \E f \in Flow : Refreshing(f)

CountdownInv == OneInterval /\ CountdownCovers /\ ExpiredIsTrue
FlowInv == ProfileCovers /\ TransferEnds /\ OneTransferPerClick /\ LoginsHaveTokens
PanelInv == OneRefresh /\ RefreshSeesLogout /\ PanelAwaitsRefresh
IInv == TypeOK /\ CountdownInv /\ FlowInv /\ PanelInv

-----------------------------------------------------------------------------
(* With at most one interval, clearing leaves none.                            *)
LEMMA ClearEmpties == ASSUME OneInterval PROVE ClearInterval = <<>>
  <1>1. CASE intervals = <<>>
    BY <1>1 DEF ClearInterval
  <1>2. CASE intervals # <<>>
    <2>1. intervals = <<intervals[1]>>
      BY <1>2 DEF OneInterval
    <2>2. Len(intervals) = 1
      BY <2>1
    <2>3. Front(intervals) = <<>>
      BY <2>1, <2>2 DEF Front
    <2> QED BY <1>2, <2>3 DEF ClearInterval
  <1> QED BY <1>1, <1>2

(* Only the first interval can fire; what it becomes is the only one.          *)
LEMMA TheOneInterval ==
  ASSUME OneInterval, NEW i \in DOMAIN intervals
  PROVE  /\ i = 1 /\ intervals[i] \in Interval
         /\ \A iv : [intervals EXCEPT ![i] = iv] = <<iv>>
  <1>1. intervals = <<intervals[1]>> /\ intervals[1] \in Interval
    BY DEF OneInterval
  <1>2. DOMAIN intervals = {1}
    BY <1>1
  <1>3. i = 1
    BY <1>2
  <1>4. ASSUME NEW iv PROVE [intervals EXCEPT ![1] = iv] = <<iv>>
    <2>1. DOMAIN [intervals EXCEPT ![1] = iv] = {1} /\ [intervals EXCEPT ![1] = iv][1] = iv
      BY <1>2
    <2>2. [intervals EXCEPT ![1] = iv] = [j \in {1} |-> iv]
      BY <1>2
    <2>3. <<iv>> = [j \in {1} |-> iv]
      OBVIOUS
    <2> QED BY <2>2, <2>3
  <1> QED BY <1>1, <1>3, <1>4

LEMMA OneIsOne ==
  ASSUME NEW iv \in Interval
  PROVE  /\ Append(<<>>, iv) = <<iv>>
         /\ intervals' = <<iv>> => OneInterval'
  BY DEF OneInterval

LEMMA OneIsSequence ==
  ASSUME NEW s, s = <<>> \/ (s = <<s[1]>> /\ s[1] \in Interval)
  PROVE  s \in Seq(Interval)
  <1>1. \A iv \in Interval : <<iv>> \in Seq(Interval)
    OBVIOUS
  <1>2. <<>> \in Seq(Interval)
    OBVIOUS
  <1> QED BY <1>1, <1>2

-----------------------------------------------------------------------------
LEMMA InitEstablishes == Init => IInv
  <1> SUFFICES ASSUME Init PROVE IInv
    OBVIOUS
  <1>1. TypeOK
    <2>1. intervals \in Seq(Interval)
      BY OneIsSequence DEF Init
    <2>2. step \in [Flow -> Request \cup {"idle"}]
      BY DEF Init, Request
    <2>3. answered \in [Flow -> BOOLEAN] /\ verdict \in [Flow -> {"ok", "refused", "step_up_required"}]
      BY DEF Init
    <2>4. token \in [Flow -> Nat] /\ remaining \in [Flow -> Nat] /\ executed \in [Flow -> Nat]
      BY DEF Init
    <2>5. clock \in Nat \ {0} /\ cookie \in Nat /\ pageAuth \in Nat /\ revoked \in SUBSET Nat
      BY DEF Init
    <2>6. panel \in BOOLEAN /\ timerGone \in BOOLEAN /\ disturbed \in BOOLEAN
      BY DEF Init
    <2> QED BY <2>1, <2>2, <2>3, <2>4, <2>5, <2>6 DEF TypeOK
  <1>2. CountdownInv
    BY DEF Init, CountdownInv, OneInterval, CountdownCovers, ExpiredIsTrue
  <1>3. FlowInv
    BY DEF Init, FlowInv, ProfileCovers, TransferEnds, OneTransferPerClick, LoginsHaveTokens
  <1>4. PanelInv
    BY DEF Init, PanelInv, OneRefresh, RefreshSeesLogout, PanelAwaitsRefresh, Refreshing
  <1> QED BY <1>1, <1>2, <1>3, <1>4 DEF IInv

LEMMA RemainingType ==
  ASSUME NEW t \in Nat, clock \in Nat
  PROVE  Remaining(t) \in Nat /\ Remaining(t) + clock >= StepUpLimit + t
  BY PageAssumption DEF Remaining, Age

FlowsTyped ==
    /\ step \in [Flow -> Request \cup {"idle"}]
    /\ answered \in [Flow -> BOOLEAN]
    /\ token \in [Flow -> Nat]
    /\ verdict \in [Flow -> {"ok", "refused", "step_up_required"}]
    /\ remaining \in [Flow -> Nat]
    /\ executed \in [Flow -> Nat]

LEMMA SendTyped ==
  ASSUME TypeOK, NEW f \in Flow, NEW request \in Request, NEW carried \in Nat,
         Send(f, request, carried)
  PROVE  FlowsTyped' /\ disturbed' \in BOOLEAN
  <1>1. disturbed' \in BOOLEAN
    BY DEF Send
  <1>2. FlowsTyped'
    BY DEF Send, TypeOK, FlowsTyped
  <1> QED BY <1>1, <1>2

LEMMA EndTyped == ASSUME TypeOK, NEW f \in Flow, End(f) PROVE FlowsTyped'
  BY DEF End, TypeOK, FlowsTyped

LEMMA TypeStep == TypeOK /\ OneInterval /\ OneInterval' /\ [Next]_vars => TypeOK'
  <1> SUFFICES ASSUME TypeOK, OneInterval, OneInterval', [Next]_vars PROVE TypeOK'
    OBVIOUS
  <1>i. intervals' \in Seq(Interval)
    BY OneIsSequence DEF OneInterval
  <1> USE DEF TypeOK, flowVars, pageVars, Request
  <1>1. CASE Tick
    BY <1>1, <1>i DEF Tick
  <1>2. ASSUME NEW f \in Flow, NEW request \in {"login", "logout", "transfer"},
               Click(f, request)
        PROVE  TypeOK'
    <2>1. FlowsTyped' /\ disturbed' \in BOOLEAN
      BY <1>2, SendTyped DEF Click
    <2> QED BY <1>2, <1>i, <2>1 DEF Click, FlowsTyped
  <1>3. ASSUME NEW f \in Flow, Answer(f) PROVE TypeOK'
    <2>1. CASE AnswerLogin(f)
      BY <1>3, <2>1, <1>i DEF Answer, AnswerLogin
    <2>2. CASE AnswerProfile(f)
      <3>1. Remaining(token[f]) \in Nat
        BY RemainingType
      <3> QED BY <1>3, <2>2, <3>1, <1>i DEF Answer, AnswerProfile
    <2>3. CASE AnswerLogout(f)
      BY <1>3, <2>3, <1>i DEF Answer, AnswerLogout
    <2>4. CASE AnswerTransfer(f)
      BY <1>3, <2>4, <1>i DEF Answer, AnswerTransfer
    <2> QED BY <1>3, <2>1, <2>2, <2>3, <2>4 DEF Answer
  <1>4. ASSUME NEW f \in Flow, LoginReturns(f) \/ LogoutReturns(f) \/ RetryReturns(f)
        PROVE  TypeOK'
    <2>1. FlowsTyped' /\ disturbed' \in BOOLEAN
      BY <1>4, SendTyped DEF LoginReturns, LogoutReturns, RetryReturns
    <2>2. cookie' \in Nat /\ UNCHANGED <<clock, revoked, pageVars>>
      BY <1>4 DEF LoginReturns, LogoutReturns, RetryReturns
    <2> QED BY <1>i, <2>1, <2>2 DEF FlowsTyped
  <1>5. ASSUME NEW f \in Flow, TransferReturns(f) PROVE TypeOK'
    <2>1. FlowsTyped' /\ disturbed' \in BOOLEAN
      BY <1>5, SendTyped, EndTyped DEF TransferReturns
    <2> QED BY <1>5, <1>i, <2>1 DEF TransferReturns, FlowsTyped
  <1>6. ASSUME NEW f \in Flow, ProfileReturns(f) PROVE TypeOK'
    <2>1. FlowsTyped'
      BY <1>6, EndTyped DEF ProfileReturns
    <2>2. panel' \in BOOLEAN /\ timerGone' \in BOOLEAN /\ pageAuth' \in Nat
      BY <1>6 DEF ProfileReturns
    <2>3. UNCHANGED <<clock, cookie, revoked, disturbed>>
      BY <1>6 DEF ProfileReturns
    <2> QED BY <1>i, <2>1, <2>2, <2>3 DEF FlowsTyped
  <1>7. ASSUME NEW f \in Flow, RequestFails(f) PROVE TypeOK'
    <2>1. panel' \in BOOLEAN /\ disturbed' \in BOOLEAN
      BY <1>7 DEF RequestFails
    <2>2. FlowsTyped'
      BY <1>7, EndTyped DEF RequestFails
    <2>3. UNCHANGED <<clock, cookie, revoked, pageAuth, timerGone>>
      BY <1>7 DEF RequestFails
    <2> QED BY <1>i, <2>1, <2>2, <2>3 DEF FlowsTyped
  <1>8. ASSUME NEW f \in Flow, Reload(f) PROVE TypeOK'
    <2>1. step' \in [Flow -> Request \cup {"idle"}]
      BY <1>8 DEF Reload
    <2>2. answered' \in [Flow -> BOOLEAN]
          /\ verdict' \in [Flow -> {"ok", "refused", "step_up_required"}]
      BY <1>8 DEF Reload
    <2>3. token' \in [Flow -> Nat]
      BY <1>8 DEF Reload
    <2>4. remaining' \in [Flow -> Nat] /\ executed' \in [Flow -> Nat] /\ pageAuth' \in Nat
      BY <1>8 DEF Reload
    <2>5. panel' \in BOOLEAN /\ timerGone' \in BOOLEAN /\ disturbed' \in BOOLEAN
      BY <1>8 DEF Reload
    <2>6. UNCHANGED <<clock, cookie, revoked>>
      BY <1>8 DEF Reload
    <2> QED BY <1>i, <2>1, <2>2, <2>3, <2>4, <2>5, <2>6
  <1>9. ASSUME NEW i \in DOMAIN intervals, IntervalFires(i) PROVE TypeOK'
    BY <1>9, <1>i DEF IntervalFires
  <1>10. CASE UNCHANGED vars
    BY <1>10, <1>i DEF vars
  <1> QED
    BY <1>1, <1>2, <1>3, <1>4, <1>5, <1>6, <1>7, <1>8, <1>9, <1>10 DEF Next

(* A countdown is started from a profile that covers it, and runs on covering. *)
LEMMA CountdownStep == IInv /\ [Next]_vars => CountdownInv'
  <1> SUFFICES ASSUME IInv, [Next]_vars PROVE CountdownInv'
    OBVIOUS
  <1>t. /\ TypeOK /\ OneInterval /\ CountdownCovers /\ ExpiredIsTrue /\ ProfileCovers
        /\ StepUpLimit \in Nat \ {0} /\ clock \in Nat \ {0} /\ pageAuth \in Nat
    BY PageAssumption DEF IInv, CountdownInv, FlowInv, TypeOK
  <1>p. ASSUME UNCHANGED pageVars, clock' >= clock, clock' \in Nat PROVE CountdownInv'
    BY <1>t, <1>p DEF CountdownInv, OneInterval, CountdownCovers, ExpiredIsTrue, Age, pageVars
  <1>h. ASSUME ~panel', OneInterval' PROVE CountdownInv'
    BY <1>h DEF CountdownInv, CountdownCovers, ExpiredIsTrue
  <1>1. CASE Tick
    BY <1>t, <1>p, <1>1 DEF Tick
  <1>2. ASSUME NEW f \in Flow, NEW request \in {"login", "logout", "transfer"},
               Click(f, request)
        PROVE  CountdownInv'
    BY <1>t, <1>p, <1>2 DEF Click
  <1>3. ASSUME NEW f \in Flow, Answer(f) PROVE CountdownInv'
    BY <1>t, <1>p, <1>3 DEF Answer
  <1>4. ASSUME NEW f \in Flow, LoginReturns(f) \/ LogoutReturns(f) \/ RetryReturns(f)
                               \/ TransferReturns(f)
        PROVE  CountdownInv'
    BY <1>t, <1>p, <1>4 DEF LoginReturns, LogoutReturns, RetryReturns, TransferReturns
  <1>5. ASSUME NEW f \in Flow, ProfileReturns(f) PROVE CountdownInv'
    <2>c. ClearInterval = <<>>
      BY <1>t, ClearEmpties
    <2>1. CASE verdict[f] = "refused" /\ panel' = FALSE /\ intervals' = ClearInterval
      <3>1. OneInterval'
        BY <2>1, <2>c DEF OneInterval
      <3> QED BY <1>h, <2>1, <3>1
    <2>2. CASE panel' = FALSE /\ UNCHANGED intervals
      BY <1>t, <1>h, <2>2 DEF OneInterval
    <2>3. CASE /\ verdict[f] = "ok"
               /\ pageAuth' = token[f]
               /\ timerGone' = (remaining[f] = 0)
               /\ intervals' =
                    Append(ClearInterval, [left |-> remaining[f], next |-> clock + 1])
      <3> DEFINE iv == [left |-> remaining[f], next |-> clock + 1]
      <3>1. token[f] \in Nat /\ remaining[f] \in Nat
            /\ remaining[f] + clock >= StepUpLimit + token[f]
        BY <1>t, <1>5, <2>3 DEF ProfileReturns, ProfileCovers, Refreshing, TypeOK
      <3>2. iv \in Interval
        BY <1>t, <3>1 DEF Interval
      <3>3. intervals' = <<iv>>
        BY <2>3, <2>c, <3>2, OneIsOne
      <3>4. OneInterval'
        BY <3>2, <3>3, OneIsOne
      <3>5. CountdownCovers'
        <4>1. ASSUME NEW i \in DOMAIN intervals'
              PROVE  intervals'[i].left + intervals'[i].next > StepUpLimit + token[f]
          <5>1. intervals'[i] = iv
            BY <3>3, <4>1
          <5> QED BY <1>t, <3>1, <5>1
        <4> QED BY <2>3, <4>1 DEF CountdownCovers
      <3>6. ExpiredIsTrue'
        <4>1. timerGone' => remaining[f] = 0
          BY <2>3
        <4>2. clock' = clock
          BY <1>5 DEF ProfileReturns
        <4>3. remaining[f] = 0 => clock - token[f] >= StepUpLimit
          BY <1>t, <3>1
        <4> QED BY <2>3, <4>1, <4>2, <4>3 DEF ExpiredIsTrue, Age
      <3> QED BY <3>4, <3>5, <3>6 DEF CountdownInv
    <2> QED BY <1>5, <2>1, <2>2, <2>3 DEF ProfileReturns
  <1>6. ASSUME NEW f \in Flow, RequestFails(f) PROVE CountdownInv'
    <2>1. CASE step[f] = "me"
      BY <1>t, <1>h, <1>6, <2>1 DEF RequestFails, OneInterval
    <2>2. CASE step[f] # "me"
      BY <1>t, <1>p, <1>6, <2>2 DEF RequestFails, pageVars
    <2> QED BY <2>1, <2>2
  <1>7. ASSUME NEW f \in Flow, Reload(f) PROVE CountdownInv'
    BY <1>h, <1>7 DEF Reload, OneInterval
  <1>8. ASSUME NEW i \in DOMAIN intervals, IntervalFires(i) PROVE CountdownInv'
    <2>c. ClearInterval = <<>>
      BY <1>t, ClearEmpties
    <2>i. /\ i = 1 /\ intervals[i] \in Interval
          /\ \A iv : [intervals EXCEPT ![i] = iv] = <<iv>>
      BY <1>t, TheOneInterval
    <2>l. /\ intervals[i].left \in Int /\ intervals[i].next \in Nat
          /\ clock >= intervals[i].next
          /\ UNCHANGED <<clock, panel, pageAuth>>
          /\ panel => intervals[i].left + intervals[i].next > StepUpLimit + pageAuth
      BY <1>t, <1>8, <2>i DEF IntervalFires, Interval, CountdownCovers
    <2>1. CASE intervals[i].left - 1 <= 0
      <3>1. timerGone' = TRUE /\ intervals' = <<>>
        BY <1>8, <2>1, <2>c DEF IntervalFires
      <3>2. OneInterval' /\ CountdownCovers'
        BY <3>1 DEF OneInterval, CountdownCovers
      <3>3. ExpiredIsTrue'
        BY <1>t, <2>1, <2>l DEF ExpiredIsTrue, Age
      <3> QED BY <3>2, <3>3 DEF CountdownInv
    <2>2. CASE ~(intervals[i].left - 1 <= 0)
      <3>1. PICK next \in intervals[i].next + 1 .. clock + 1 :
                intervals' = [intervals EXCEPT ![i] = [left |-> intervals[i].left - 1,
                                                       next |-> next]]
        BY <1>8, <2>2 DEF IntervalFires
      <3> DEFINE iv == [left |-> intervals[i].left - 1, next |-> next]
      <3>2. iv \in Interval /\ intervals' = <<iv>>
        BY <1>t, <2>i, <2>l, <3>1 DEF Interval
      <3>3. OneInterval'
        BY <3>2, OneIsOne
      <3>4. CountdownCovers'
        <4>1. ASSUME panel, NEW j \in DOMAIN intervals'
              PROVE  intervals'[j].left + intervals'[j].next > StepUpLimit + pageAuth
          <5>1. intervals'[j] = iv
            BY <3>2, <4>1
          <5> QED BY <1>t, <2>l, <3>1, <4>1, <5>1
        <4> QED BY <2>l, <4>1 DEF CountdownCovers
      <3>5. ExpiredIsTrue'
        <4>1. UNCHANGED timerGone
          BY <1>8, <2>2 DEF IntervalFires
        <4> QED BY <1>t, <2>l, <4>1 DEF ExpiredIsTrue, Age
      <3> QED BY <3>3, <3>4, <3>5 DEF CountdownInv
    <2> QED BY <2>1, <2>2
  <1>9. CASE UNCHANGED vars
    BY <1>t, <1>p, <1>9 DEF vars
  <1> QED
    BY <1>1, <1>2, <1>3, <1>4, <1>5, <1>6, <1>7, <1>8, <1>9 DEF Next

-----------------------------------------------------------------------------
(* FlowInv, flow by flow.                                                      *)
FlowSound(f) ==
    /\ Refreshing(f) /\ answered[f] /\ verdict[f] = "ok" =>
         token[f] # 0 /\ remaining[f] + clock >= StepUpLimit + token[f]
    /\ executed[f] <= 1
    /\ executed[f] = 1 =>
         \/ Refreshing(f)
         \/ step[f] \in {"transfer", "retry"} /\ answered[f] /\ verdict[f] = "ok"
    /\ step[f] \in {"login", "relogin"} /\ answered[f] => token[f] # 0

LEMMA FlowByFlow == FlowInv <=> \A f \in Flow : FlowSound(f)
  BY DEF FlowInv, ProfileCovers, TransferEnds, OneTransferPerClick, LoginsHaveTokens, FlowSound

(* A request that leaves is sound if no transfer was made for it yet, or if it *)
(* only refreshes the profile.                                                 *)
LEMMA SendSound ==
  ASSUME IInv, NEW f \in Flow, NEW request, NEW carried, Send(f, request, carried),
         executed[f] # 1 \/ request = "me", clock' = clock
  PROVE  \A g \in Flow : FlowSound(g)'
  <1>t. TypeOK /\ \A g \in Flow : FlowSound(g)
    BY FlowByFlow DEF IInv
  <1> SUFFICES ASSUME NEW g \in Flow PROVE FlowSound(g)'
    OBVIOUS
  <1>1. CASE g # f
    BY <1>t, <1>1 DEF Send, TypeOK, FlowSound, Refreshing
  <1>2. CASE g = f
    <2>1. /\ step'[f] = request /\ answered'[f] = FALSE
          /\ executed'[f] = executed[f] /\ executed[f] <= 1
      BY <1>t DEF Send, TypeOK, FlowSound
    <2> QED BY <1>2, <2>1 DEF FlowSound, Refreshing
  <1> QED BY <1>1, <1>2

LEMMA EndSound ==
  ASSUME IInv, NEW f \in Flow, End(f), clock' = clock
  PROVE  \A g \in Flow : FlowSound(g)'
  <1>t. TypeOK /\ \A g \in Flow : FlowSound(g)
    BY FlowByFlow DEF IInv
  <1> SUFFICES ASSUME NEW g \in Flow PROVE FlowSound(g)'
    OBVIOUS
  <1>1. CASE g # f
    BY <1>t, <1>1 DEF End, TypeOK, FlowSound, Refreshing
  <1>2. CASE g = f
    <2>1. step'[f] = "idle" /\ executed'[f] = 0
      BY <1>t DEF End, TypeOK
    <2> QED BY <1>2, <2>1 DEF FlowSound, Refreshing
  <1> QED BY <1>1, <1>2

(* A flow that waits for a first answer, and one that is idle, has made no     *)
(* transfer.                                                                   *)
LEMMA NotYetExecuted ==
  ASSUME IInv, NEW f \in Flow, ~Refreshing(f),
         \/ step[f] \notin {"transfer", "retry"}
         \/ ~answered[f]
         \/ verdict[f] # "ok"
  PROVE  executed[f] = 0
  BY FlowByFlow DEF IInv, TypeOK, FlowSound

LEMMA AnswerSound ==
  ASSUME IInv, NEW f \in Flow, Answer(f)
  PROVE  \A g \in Flow : FlowSound(g)'
  <1>t. /\ TypeOK /\ (\A g \in Flow : FlowSound(g)) /\ clock' = clock /\ step' = step
        /\ clock \in Nat \ {0} /\ token[f] \in Nat
    BY FlowByFlow DEF IInv, TypeOK, Answer
  <1> SUFFICES ASSUME NEW g \in Flow PROVE FlowSound(g)'
    OBVIOUS
  <1>a. answered'[f] = TRUE /\ ~answered[f]
        /\ (g # f => answered'[g] = answered[g])
    BY <1>t DEF Answer, TypeOK
  <1>o. ASSUME g # f, token'[g] = token[g], verdict'[g] = verdict[g],
               remaining'[g] = remaining[g], executed'[g] = executed[g]
        PROVE  FlowSound(g)'
    BY <1>t, <1>a, <1>o DEF FlowSound, Refreshing
  <1>1. CASE AnswerLogin(f)
    <2>1. CASE g = f
      <3>1. token'[f] = clock /\ executed'[f] = executed[f] /\ step[f] \in {"login", "relogin"}
        BY <1>t, <1>1 DEF AnswerLogin, TypeOK
      <3>2. executed[f] = 0
        BY <3>1, NotYetExecuted DEF Refreshing
      <3> QED BY <1>t, <2>1, <3>1, <3>2 DEF FlowSound, Refreshing
    <2>2. CASE g # f
      BY <1>t, <1>o, <1>1, <2>2 DEF AnswerLogin, TypeOK
    <2> QED BY <2>1, <2>2
  <1>2. CASE AnswerProfile(f)
    <2>1. CASE g = f
      <3>1. /\ step[f] = "me" /\ token'[f] = token[f] /\ executed'[f] = executed[f]
            /\ remaining'[f] = Remaining(token[f])
            /\ verdict'[f] = "ok" => Authentic(token[f])
        BY <1>t, <1>2 DEF AnswerProfile, TypeOK
      <3>2. Remaining(token[f]) + clock >= StepUpLimit + token[f]
        BY <1>t, RemainingType
      <3>3. verdict'[f] = "ok" => token[f] # 0
        BY <3>1 DEF Authentic
      <3> QED BY <1>t, <2>1, <3>1, <3>2, <3>3 DEF FlowSound, Refreshing
    <2>2. CASE g # f
      BY <1>t, <1>o, <1>2, <2>2 DEF AnswerProfile, TypeOK
    <2> QED BY <2>1, <2>2
  <1>3. CASE AnswerLogout(f)
    <2>1. CASE g = f
      <3>1. step[f] = "logout" /\ executed'[f] = executed[f]
        BY <1>t, <1>3 DEF AnswerLogout, TypeOK
      <3>2. executed[f] = 0
        BY <3>1, NotYetExecuted DEF Refreshing
      <3> QED BY <1>t, <2>1, <3>1, <3>2 DEF FlowSound, Refreshing
    <2>2. CASE g # f
      BY <1>t, <1>o, <1>3, <2>2 DEF AnswerLogout, TypeOK
    <2> QED BY <2>1, <2>2
  <1>4. CASE AnswerTransfer(f)
    <2>1. CASE g = f
      <3>1. step[f] \in {"transfer", "retry"}
        BY <1>4 DEF AnswerTransfer
      <3>2. executed[f] = 0
        BY <1>a, <3>1, NotYetExecuted DEF Refreshing
      <3>3. executed'[f] <= 1 /\ (executed'[f] = 1 => verdict'[f] = "ok")
        BY <1>t, <1>4, <3>2 DEF AnswerTransfer, TypeOK
      <3> QED BY <1>t, <1>a, <2>1, <3>1, <3>3 DEF FlowSound, Refreshing
    <2>2. CASE g # f
      BY <1>t, <1>o, <1>4, <2>2 DEF AnswerTransfer, TypeOK
    <2> QED BY <2>1, <2>2
  <1> QED BY <1>1, <1>2, <1>3, <1>4 DEF Answer

LEMMA FlowStep == IInv /\ [Next]_vars => FlowInv'
  <1> SUFFICES ASSUME IInv, [Next]_vars PROVE \A g \in Flow : FlowSound(g)'
    BY FlowByFlow DEF FlowInv, ProfileCovers, TransferEnds, OneTransferPerClick,
                      LoginsHaveTokens, FlowSound
  <1>t. TypeOK /\ \A g \in Flow : FlowSound(g)
    BY FlowByFlow DEF IInv
  <1>u. ASSUME UNCHANGED flowVars, clock' >= clock, clock' \in Nat
        PROVE  \A g \in Flow : FlowSound(g)'
    <2> SUFFICES ASSUME NEW g \in Flow PROVE FlowSound(g)'
      OBVIOUS
    <2>1. remaining[g] \in Nat /\ token[g] \in Nat /\ clock \in Nat /\ StepUpLimit \in Nat
      BY <1>t, PageAssumption DEF TypeOK
    <2> QED BY <1>t, <1>u, <2>1 DEF FlowSound, Refreshing, flowVars
  <1>1. CASE Tick
    BY <1>t, <1>u, <1>1 DEF Tick, TypeOK
  <1>2. ASSUME NEW f \in Flow, NEW request \in {"login", "logout", "transfer"},
               Click(f, request)
        PROVE  \A g \in Flow : FlowSound(g)'
    <2>1. executed[f] = 0
      BY <1>2, NotYetExecuted DEF Click, Refreshing
    <2> QED BY <1>2, <2>1, SendSound DEF Click
  <1>3. ASSUME NEW f \in Flow, Answer(f) PROVE \A g \in Flow : FlowSound(g)'
    BY <1>3, AnswerSound
  <1>4. ASSUME NEW f \in Flow, LoginReturns(f) PROVE \A g \in Flow : FlowSound(g)'
    <2>1. executed[f] = 0
      BY <1>4, NotYetExecuted DEF LoginReturns, Refreshing
    <2> QED BY <1>4, <2>1, SendSound DEF LoginReturns
  <1>5. ASSUME NEW f \in Flow, LogoutReturns(f) \/ RetryReturns(f)
        PROVE  \A g \in Flow : FlowSound(g)'
    BY <1>5, SendSound DEF LogoutReturns, RetryReturns
  <1>6. ASSUME NEW f \in Flow, TransferReturns(f) PROVE \A g \in Flow : FlowSound(g)'
    <2>1. CASE verdict[f] = "step_up_required" /\ Send(f, "relogin", cookie)
      <3>1. executed[f] = 0
        BY <1>6, <2>1, NotYetExecuted DEF TransferReturns, Refreshing
      <3> QED BY <1>6, <2>1, <3>1, SendSound DEF TransferReturns
    <2>2. CASE End(f)
      BY <1>6, <2>2, EndSound DEF TransferReturns
    <2> QED BY <1>6, <2>1, <2>2 DEF TransferReturns
  <1>7. ASSUME NEW f \in Flow, ProfileReturns(f) \/ RequestFails(f)
        PROVE  \A g \in Flow : FlowSound(g)'
    BY <1>7, EndSound DEF ProfileReturns, RequestFails
  <1>8. ASSUME NEW f \in Flow, Reload(f) PROVE \A g \in Flow : FlowSound(g)'
    BY <1>8 DEF Reload, FlowSound, Refreshing
  <1>9. ASSUME NEW i \in DOMAIN intervals, IntervalFires(i) PROVE \A g \in Flow : FlowSound(g)'
    BY <1>t, <1>u, <1>9 DEF IntervalFires, TypeOK
  <1>10. CASE UNCHANGED vars
    BY <1>t, <1>u, <1>10 DEF vars, TypeOK
  <1> QED
    BY <1>1, <1>2, <1>3, <1>4, <1>5, <1>6, <1>7, <1>8, <1>9, <1>10 DEF Next

-----------------------------------------------------------------------------
(* While nothing changes that PanelInv speaks of, it holds on.                 *)
LEMMA PanelKeeps ==
  ASSUME IInv, UNCHANGED <<cookie, step, disturbed>>, panel' => panel,
         \A f \in Flow : Refreshing(f) => token'[f] = token[f]
  PROVE  PanelInv'
  BY DEF IInv, PanelInv, OneRefresh, RefreshSeesLogout, PanelAwaitsRefresh, Refreshing

(* A refresh that leaves is the only one, or disturbs.                         *)
LEMMA SendRefresh ==
  ASSUME IInv, NEW f \in Flow, NEW carried, Send(f, "me", carried),
         ~disturbed' /\ cookie' = 0 => carried = 0, ~Refreshing(f)
  PROVE  PanelInv'
  <1>t. TypeOK /\ PanelInv
    BY DEF IInv
  <1>1. /\ step' = [step EXCEPT ![f] = "me"] /\ step'[f] = "me"
        /\ token' = [token EXCEPT ![f] = carried] /\ token'[f] = carried
    BY <1>t DEF Send, TypeOK
  <1>2. ~disturbed' => ~disturbed /\ \A g \in Flow : Refreshing(g) => g = f
    BY DEF Send
  <1>3. \A g \in Flow : g # f => Refreshing(g)' = Refreshing(g)
    BY <1>t, <1>1 DEF Refreshing, TypeOK
  <1>4. ~disturbed' => \A g \in Flow : Refreshing(g)' => g = f
    BY <1>2, <1>3
  <1>5. OneRefresh'
    BY <1>4 DEF OneRefresh
  <1>6. RefreshSeesLogout'
    BY <1>1, <1>4 DEF RefreshSeesLogout
  <1>7. PanelAwaitsRefresh'
    BY <1>1 DEF PanelAwaitsRefresh, Refreshing
  <1> QED BY <1>5, <1>6, <1>7 DEF PanelInv

(* Another request that leaves leaves the refreshes alone.                     *)
LEMMA SendOther ==
  ASSUME IInv, NEW f \in Flow, NEW request, request # "me", NEW carried,
         Send(f, request, carried), ~Refreshing(f), panel' => panel,
         cookie' # 0 \/ cookie' = cookie
  PROVE  PanelInv'
  <1>t. TypeOK /\ PanelInv
    BY DEF IInv
  <1>1. \A g \in Flow : Refreshing(g)' <=> Refreshing(g)
    BY <1>t DEF Send, TypeOK, Refreshing
  <1>2. \A g \in Flow : Refreshing(g) => token'[g] = token[g]
    BY <1>t DEF Send, TypeOK, Refreshing
  <1>3. ~disturbed' => ~disturbed
    BY DEF Send
  <1>4. OneRefresh'
    BY <1>t, <1>1, <1>3 DEF PanelInv, OneRefresh
  <1>5. RefreshSeesLogout'
    BY <1>t, <1>1, <1>2, <1>3 DEF PanelInv, RefreshSeesLogout
  <1>6. PanelAwaitsRefresh'
    BY <1>t, <1>1, <1>3 DEF PanelInv, PanelAwaitsRefresh
  <1> QED BY <1>4, <1>5, <1>6 DEF PanelInv

(* A flow that ends leaves the refreshes alone, or there is no panel without a *)
(* cookie.                                                                     *)
LEMMA EndKeeps ==
  ASSUME IInv, NEW f \in Flow, End(f), cookie' = cookie, disturbed => disturbed',
         \/ ~Refreshing(f) /\ (panel' => panel)
         \/ ~disturbed' /\ cookie = 0 => ~panel'
  PROVE  PanelInv'
  <1>t. TypeOK /\ PanelInv
    BY DEF IInv
  <1>1. \A g \in Flow : (Refreshing(g)' => Refreshing(g) /\ token'[g] = token[g])
                        /\ (g # f /\ Refreshing(g) => Refreshing(g)')
    BY <1>t DEF End, TypeOK, Refreshing
  <1>4. OneRefresh'
    BY <1>t, <1>1 DEF PanelInv, OneRefresh
  <1>5. RefreshSeesLogout'
    BY <1>t, <1>1 DEF PanelInv, RefreshSeesLogout
  <1>6. PanelAwaitsRefresh'
    BY <1>t, <1>1 DEF PanelInv, PanelAwaitsRefresh
  <1> QED BY <1>4, <1>5, <1>6 DEF PanelInv

LEMMA PanelStep == IInv /\ [Next]_vars => PanelInv'
  <1> SUFFICES ASSUME IInv, [Next]_vars PROVE PanelInv'
    OBVIOUS
  <1>t. TypeOK /\ PanelInv /\ \A g \in Flow : FlowSound(g)
    BY FlowByFlow DEF IInv
  <1>1. CASE Tick
    BY <1>1, PanelKeeps DEF Tick, flowVars, pageVars
  <1>2. ASSUME NEW f \in Flow, NEW request \in {"login", "logout", "transfer"},
               Click(f, request)
        PROVE  PanelInv'
    <2>1. ~Refreshing(f) /\ request # "me" /\ panel' = panel /\ cookie' = cookie
      BY <1>2 DEF Click, pageVars, Refreshing
    <2> QED BY <1>2, <2>1, SendOther DEF Click
  <1>3. ASSUME NEW f \in Flow, Answer(f) PROVE PanelInv'
    <2>1. \A g \in Flow : Refreshing(g) => token'[g] = token[g]
      BY <1>t, <1>3 DEF Answer, AnswerLogin, AnswerProfile, AnswerLogout, AnswerTransfer,
                        Refreshing, TypeOK
    <2> QED BY <1>3, <2>1, PanelKeeps DEF Answer, pageVars
  <1>4. ASSUME NEW f \in Flow, LoginReturns(f) PROVE PanelInv'
    <2>1. /\ step[f] \in {"login", "relogin"} /\ cookie' = token[f] /\ token[f] # 0
          /\ panel' = panel
      BY <1>t, <1>4 DEF LoginReturns, FlowSound, pageVars
    <2>2. CASE step[f] = "login"
      BY <1>4, <2>1, <2>2, SendRefresh DEF LoginReturns, Refreshing
    <2>3. CASE step[f] # "login"
      BY <1>4, <2>1, <2>3, SendOther DEF LoginReturns, Refreshing
    <2> QED BY <2>2, <2>3
  <1>5. ASSUME NEW f \in Flow, LogoutReturns(f) \/ RetryReturns(f) PROVE PanelInv'
    BY <1>5, SendRefresh DEF LogoutReturns, RetryReturns, Refreshing
  <1>6. ASSUME NEW f \in Flow, TransferReturns(f) PROVE PanelInv'
    <2>1. ~Refreshing(f) /\ panel' = panel /\ cookie' = cookie
      BY <1>6 DEF TransferReturns, pageVars, Refreshing
    <2>2. CASE Send(f, "relogin", cookie)
      BY <2>1, <2>2, SendOther
    <2>3. CASE End(f) /\ UNCHANGED disturbed
      BY <2>1, <2>3, EndKeeps
    <2> QED BY <1>6, <2>2, <2>3 DEF TransferReturns
  <1>7. ASSUME NEW f \in Flow, ProfileReturns(f) PROVE PanelInv'
    <2>1. ~disturbed' /\ cookie = 0 => ~panel'
      <3> SUFFICES ASSUME ~disturbed', cookie = 0, panel' PROVE FALSE
        OBVIOUS
      <3>1. verdict[f] = "ok" /\ Refreshing(f) /\ answered[f] /\ ~disturbed
        BY <1>7 DEF ProfileReturns, Refreshing
      <3>2. token[f] # 0
        BY <1>t, <3>1 DEF FlowSound
      <3>3. token[f] = 0
        BY <1>t, <3>1 DEF PanelInv, RefreshSeesLogout
      <3> QED BY <3>2, <3>3
    <2> QED BY <1>7, <2>1, EndKeeps DEF ProfileReturns
  <1>8. ASSUME NEW f \in Flow, RequestFails(f) PROVE PanelInv'
    <2>1. Refreshing(f) => ~panel'
      BY <1>8 DEF RequestFails, Refreshing
    <2>2. ~Refreshing(f) => panel' = panel
      BY <1>8 DEF RequestFails, Refreshing
    <2>3. disturbed => disturbed'
      BY <1>8 DEF RequestFails
    <2> QED BY <1>8, <2>1, <2>2, <2>3, EndKeeps DEF RequestFails
  <1>9. ASSUME NEW f \in Flow, Reload(f) PROVE PanelInv'
    <2>1. \A g \in Flow : Refreshing(g)' => g = f
      BY <1>9 DEF Reload, Refreshing
    <2>2. token'[f] = cookie' /\ ~panel'
      BY <1>9 DEF Reload
    <2> QED BY <2>1, <2>2 DEF PanelInv, OneRefresh, RefreshSeesLogout, PanelAwaitsRefresh
  <1>10. ASSUME NEW i \in DOMAIN intervals, IntervalFires(i) PROVE PanelInv'
    BY <1>10, PanelKeeps DEF IntervalFires, flowVars
  <1>11. CASE UNCHANGED vars
    BY <1>11, PanelKeeps DEF vars, flowVars, pageVars
  <1> QED
    BY <1>1, <1>2, <1>3, <1>4, <1>5, <1>6, <1>7, <1>8, <1>9, <1>10, <1>11 DEF Next

-----------------------------------------------------------------------------
(* Countdown, flows and panel are sound together.                             *)
THEOREM Inductive == Spec => []IInv
  <1>1. IInv /\ [Next]_vars => IInv'
    <2> SUFFICES ASSUME IInv, [Next]_vars PROVE IInv'
      OBVIOUS
    <2>1. CountdownInv'
      BY CountdownStep
    <2>2. TypeOK'
      BY <2>1, TypeStep DEF IInv, CountdownInv
    <2> QED BY <2>1, <2>2, FlowStep, PanelStep DEF IInv
  <1> QED BY <1>1, InitEstablishes, PTL DEF Spec

(* The page's variables keep their types: what an answer says is left of the   *)
(* step-up is never negative.                                                  *)
THEOREM TypeCorrect == Spec => []TypeOK
  <1>1. IInv => TypeOK
    BY DEF IInv
  <1> QED BY <1>1, Inductive, PTL

(* A click on the transfer button makes at most one transfer, whatever is lost *)
(* and however the clicks overlap.                                             *)
THEOREM OneTransferPerClickHolds == Spec => []OneTransferPerClick
  <1>1. IInv => OneTransferPerClick
    BY DEF IInv, FlowInv
  <1> QED BY <1>1, Inductive, PTL

(* "Step-Up Expired" is never said of a session younger than the limit.        *)
THEOREM ExpiredIsTrueHolds == Spec => []ExpiredIsTrue
  <1>1. IInv => ExpiredIsTrue
    BY DEF IInv, CountdownInv
  <1> QED BY <1>1, Inductive, PTL

(* When all clicks are answered the panel is shown only to a browser with a    *)
(* cookie, unless refreshes overlapped or a logout failed.                     *)
THEOREM PanelIsTrueHolds == Spec => []PanelIsTrue
  <1>1. IInv => PanelIsTrue
    BY DEF IInv, PanelInv, PanelAwaitsRefresh, PanelIsTrue, Refreshing
  <1> QED BY <1>1, Inductive, PTL
=============================================================================
