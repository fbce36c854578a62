------------------------------ MODULE DemoPage ------------------------------
(* The page gateway/static/index.html in one browser tab: the session panel    *)
(* with its step-up countdown, login, logout, and the transfer that the page   *)
(* retries after a step-up.  The gateway behind it answers as main.py does.    *)
(*                                                                             *)
(* A click starts an asynchronous flow.  It waits for one request at a time,   *)
(* but nothing disables the buttons: flows overlap, and their answers arrive   *)
(* in any order, late, or not at all.  The clock is in seconds; sessions do    *)
(* not expire here, their hour being long against the step-up limit.           *)
EXTENDS Integers, Sequences, SequencesExt

CONSTANTS
    Flow,       \* clicks under way
    StepUpLimit, \* STEP_UP_MAX_AGE_SECONDS
    MaxClock    \* bound of the clock

ASSUME PageAssumption == {StepUpLimit, MaxClock} \subseteq Nat \ {0}

VARIABLES
    clock,
    cookie,     \* the session cookie: its token's auth_time; 0 if there is none
    revoked,    \* tokens that were logged out
    step,       \* per flow: the request it waits for
    answered,   \* per flow: the gateway has answered, the answer is on its way
    token,      \* per flow: the token its request carries, or a login's new one
    verdict, remaining, \* per flow: what the answer says
    executed,   \* per flow: transfers the gateway made for this click
    panel,      \* the session panel is shown, not the login cards
    pageAuth,   \* auth_time of the session the panel was filled from
    timerGone,  \* the badge's text was replaced, and #stepUpTimer with it
    intervals,  \* running intervals: seconds left, earliest next call; the
                \* last one is stepUpInterval
    disturbed   \* two refreshes overlapped or a logout's answer was lost

flowVars == <<step, answered, token, verdict, remaining, executed>>
pageVars == <<panel, pageAuth, timerGone, intervals>>
vars == <<clock, cookie, revoked, flowVars, pageVars, disturbed>>

Request == {"login", "me", "logout", "transfer", "relogin", "retry"}
Interval == [left : Int, next : Nat]

TypeOK ==
    /\ clock \in Nat \ {0}
    /\ cookie \in Nat
    /\ revoked \in SUBSET Nat
    /\ step \in [Flow -> Request \cup {"idle"}]
    /\ answered \in [Flow -> BOOLEAN]
    /\ token \in [Flow -> Nat]
    /\ verdict \in [Flow -> {"ok", "refused", "step_up_required"}]
    /\ remaining \in [Flow -> Nat]
    /\ executed \in [Flow -> Nat]
    /\ panel \in BOOLEAN
    /\ pageAuth \in Nat
    /\ timerGone \in BOOLEAN
    /\ intervals \in Seq(Interval)
    /\ disturbed \in BOOLEAN

Init ==
    /\ clock = 1
    /\ cookie = 0
    /\ revoked = {}
    /\ \E f \in Flow : step = [g \in Flow |-> IF g = f THEN "me" ELSE "idle"]
    /\ answered = [f \in Flow |-> FALSE]
    /\ token = [f \in Flow |-> 0]
    /\ verdict = [f \in Flow |-> "ok"]
    /\ remaining = [f \in Flow |-> 0]
    /\ executed = [f \in Flow |-> 0]
    /\ panel = FALSE
    /\ pageAuth = 0
    /\ timerGone = FALSE
    /\ intervals = <<>>
    /\ disturbed = FALSE

-----------------------------------------------------------------------------
(* The flow's next request leaves, carrying the cookie as it is then.          *)
Refreshing(f) == step[f] = "me"
Send(f, request, carried) ==
    /\ step' = [step EXCEPT ![f] = request]
    /\ answered' = [answered EXCEPT ![f] = FALSE]
    /\ token' = [token EXCEPT ![f] = carried]
    /\ disturbed' = (disturbed \/ (request = "me" /\ \E g \in Flow \ {f} : Refreshing(g)))
    /\ UNCHANGED <<verdict, remaining, executed>>

End(f) ==
    /\ step' = [step EXCEPT ![f] = "idle"]
    /\ answered' = [answered EXCEPT ![f] = FALSE]
    /\ token' = [token EXCEPT ![f] = 0]
    /\ verdict' = [verdict EXCEPT ![f] = "ok"]
    /\ remaining' = [remaining EXCEPT ![f] = 0]
    /\ executed' = [executed EXCEPT ![f] = 0]

(* The buttons of the login cards and of the session panel.                    *)
Click(f, request) ==
    /\ step[f] = "idle"
    /\ panel = (request # "login")
    /\ Send(f, request, cookie)
    /\ UNCHANGED <<clock, cookie, revoked, pageVars>>

-----------------------------------------------------------------------------
(* The gateway answers.  A new token is that of its second; it may equal one   *)
(* that was revoked in the same second.                                        *)
Authentic(t) == t # 0 /\ t \notin revoked
Age(t) == clock - t
MutRemaining(t) == StepUpLimit - Age(t) \* not cut off at 0
Remaining(t) == IF Age(t) < StepUpLimit THEN StepUpLimit - Age(t) ELSE 0

AnswerLogin(f) ==
    /\ step[f] \in {"login", "relogin"}
    /\ token' = [token EXCEPT ![f] = clock]
    /\ UNCHANGED <<verdict, remaining, executed, revoked>>

(* get_current_user_profile: 200, or 401, or an error of the database.         *)
AnswerProfile(f) ==
    /\ step[f] = "me"
    /\ \E v \in {"ok", "refused"} :
         /\ v = "ok" => Authentic(token[f])
         /\ verdict' = [verdict EXCEPT ![f] = v]
    /\ remaining' = [remaining EXCEPT ![f] = Remaining(token[f])]
    /\ UNCHANGED <<token, executed, revoked>>

AnswerLogout(f) ==
    /\ step[f] = "logout"
    /\ revoked' = IF token[f] = 0 THEN revoked ELSE revoked \cup {token[f]}
    /\ UNCHANGED <<token, verdict, remaining, executed>>

(* perform_step_up_transfer *)
AnswerTransfer(f) ==
    LET judged == IF ~Authentic(token[f]) THEN "refused"
                  ELSE IF Age(token[f]) > StepUpLimit THEN "step_up_required"
                  ELSE "ok"
    IN  /\ step[f] \in {"transfer", "retry"}
        /\ verdict' = [verdict EXCEPT ![f] = judged]
        /\ executed' = [executed EXCEPT ![f] = IF judged = "ok" THEN @ + 1 ELSE @]
        /\ UNCHANGED <<token, remaining, revoked>>

Answer(f) ==
    /\ ~answered[f]
    /\ AnswerLogin(f) \/ AnswerProfile(f) \/ AnswerLogout(f) \/ AnswerTransfer(f)
    /\ answered' = [answered EXCEPT ![f] = TRUE]
    /\ UNCHANGED <<clock, cookie, step, pageVars, disturbed>>

-----------------------------------------------------------------------------
(* The answer arrives.  A login's sets the cookie; the flow goes on with the   *)
(* profile or with the retry.                                                  *)
LoginReturns(f) ==
    /\ step[f] \in {"login", "relogin"} /\ answered[f]
    /\ cookie' = token[f]
    /\ Send(f, IF step[f] = "login" THEN "me" ELSE "retry", token[f])
    /\ UNCHANGED <<clock, revoked, pageVars>>

MutLogoutReturns(f) == \* without a refresh
    /\ step[f] = "logout" /\ answered[f]
    /\ cookie' = 0
    /\ End(f)
    /\ UNCHANGED <<clock, revoked, pageVars, disturbed>>
LogoutReturns(f) ==
    /\ step[f] = "logout" /\ answered[f]
    /\ cookie' = 0
    /\ Send(f, "me", 0)
    /\ UNCHANGED <<clock, revoked, pageVars>>

(* A refused transfer asks for the step-up, in a dialog that holds up the      *)
(* page; any other answer, and a dialog that is declined, ends the flow.       *)
TransferReturns(f) ==
    /\ step[f] = "transfer" /\ answered[f]
    /\ \/ verdict[f] = "step_up_required" /\ Send(f, "relogin", cookie)
       \/ End(f) /\ UNCHANGED disturbed
    /\ UNCHANGED <<clock, cookie, revoked, pageVars>>

(* Whatever the retry's answer is, the profile is refreshed.                   *)
RetryReturns(f) ==
    /\ step[f] = "retry" /\ answered[f]
    /\ Send(f, "me", cookie)
    /\ UNCHANGED <<clock, cookie, revoked, pageVars>>

-----------------------------------------------------------------------------
MutClearInterval == intervals \* the old interval is not cleared
(* clearInterval(stepUpInterval) *)
ClearInterval == IF intervals = <<>> THEN <<>> ELSE Front(intervals)

(* refreshSessionProfile with an answer.  updateStepUpTimer throws when it has *)
(* seconds to show and #stepUpTimer is gone: the catch shows the login cards.  *)
ProfileReturns(f) ==
    /\ step[f] = "me" /\ answered[f]
    /\ End(f)
    /\ \/ /\ verdict[f] = "refused"
          /\ panel' = FALSE
          /\ intervals' = ClearInterval
          /\ UNCHANGED <<pageAuth, timerGone>>
       \/ /\ verdict[f] = "ok"
          /\ remaining[f] > 0 /\ timerGone
          /\ panel' = FALSE
          /\ pageAuth' = token[f]
          /\ UNCHANGED <<timerGone, intervals>>
       \/ /\ verdict[f] = "ok"
          /\ remaining[f] = 0 \/ ~timerGone
          /\ panel' = TRUE
          /\ pageAuth' = token[f]
          /\ timerGone' = (remaining[f] = 0)
          /\ intervals' =
               Append(ClearInterval, [left |-> remaining[f], next |-> clock + 1])
    /\ UNCHANGED <<clock, cookie, revoked, disturbed>>

(* An interval calls back, never too soon but maybe late; after a late call    *)
(* the next one may come less than a second later.                             *)
IntervalFires(i) ==
    LET left == intervals[i].left - 1
    IN  /\ clock >= intervals[i].next
        /\ IF left <= 0
             THEN /\ timerGone' = TRUE
                  /\ intervals' = ClearInterval
             ELSE /\ \E next \in intervals[i].next + 1 .. clock + 1 :
                       intervals' = [intervals EXCEPT ![i] = [left |-> left, next |-> next]]
                  /\ UNCHANGED timerGone
        /\ UNCHANGED <<clock, cookie, revoked, flowVars, panel, pageAuth, disturbed>>

MutRequestFails(f) == \* a transfer without an answer is retried
    /\ step[f] \in Request
    /\ IF step[f] = "transfer"
         THEN Send(f, "retry", cookie)
         ELSE End(f) /\ UNCHANGED disturbed
    /\ panel' = IF step[f] = "me" THEN FALSE ELSE panel
    /\ UNCHANGED <<clock, cookie, revoked, pageAuth, timerGone, intervals>>
(* fetch throws, the answer is lost or not JSON, or the user cancels the       *)
(* passkey prompt: the flow ends; a refresh shows the login cards, a logout    *)
(* does nothing.                                                               *)
RequestFails(f) ==
    /\ step[f] \in Request
    /\ End(f)
    /\ panel' = IF step[f] = "me" THEN FALSE ELSE panel
    /\ disturbed' = (disturbed \/ step[f] = "logout")
    /\ UNCHANGED <<clock, cookie, revoked, pageAuth, timerGone, intervals>>

(* The page is loaded again, with the cookie the browser holds.                *)
Reload(f) ==
    /\ step' = [g \in Flow |-> IF g = f THEN "me" ELSE "idle"]
    /\ answered' = [g \in Flow |-> FALSE]
    /\ token' = [g \in Flow |-> IF g = f THEN cookie ELSE 0]
    /\ verdict' = [g \in Flow |-> "ok"]
    /\ remaining' = [g \in Flow |-> 0]
    /\ executed' = [g \in Flow |-> 0]
    /\ panel' = FALSE
    /\ pageAuth' = 0
    /\ timerGone' = FALSE
    /\ intervals' = <<>>
    /\ disturbed' = FALSE
    /\ UNCHANGED <<clock, cookie, revoked>>

Tick ==
    /\ clock < MaxClock
    /\ clock' = clock + 1
    /\ UNCHANGED <<cookie, revoked, flowVars, pageVars, disturbed>>

Next ==
    \/ Tick
    \/ \E f \in Flow :
         \/ \E request \in {"login", "logout", "transfer"} : Click(f, request)
         \/ Answer(f)
         \/ LoginReturns(f) \/ LogoutReturns(f) \/ ProfileReturns(f)
         \/ TransferReturns(f) \/ RetryReturns(f) \/ RequestFails(f)
         \/ Reload(f)
    \/ \E i \in DOMAIN intervals : IntervalFires(i)

Spec == Init /\ [][Next]_vars

-----------------------------------------------------------------------------
(* One click on the transfer button makes at most one transfer: the page       *)
(* retries only what the gateway refused, never what it lost sight of.         *)
OneTransferPerClick == \A f \in Flow : executed[f] <= 1

(* The panel does not say "Step-Up Expired" of a session that is younger than  *)
(* the limit: the countdown of an earlier refresh or session never runs on     *)
(* into the one shown now.                                                     *)
ExpiredIsTrue == panel /\ timerGone => Age(pageAuth) >= StepUpLimit

(* Once all clicks are answered, the session panel is not shown to a browser   *)
(* that has logged out, unless two refreshes overlapped or the logout failed.  *)
PanelIsTrue ==
    panel /\ ~disturbed /\ (\A f \in Flow : step[f] = "idle") => cookie # 0

(* A login that succeeds makes the session panel active: a profile that is     *)
(* answered 200 is shown.                                                      *)
ProfileIsShown ==
    [][\A f \in Flow :
         Refreshing(f) /\ answered[f] /\ verdict[f] = "ok" /\ ProfileReturns(f)
             => panel']_vars
=============================================================================
