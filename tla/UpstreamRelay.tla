--------------------------- MODULE UpstreamRelay ----------------------------
(* proxy_upstream_request of gateway/middleware/auth_proxy.py and the service  *)
(* of upstream_service/app.py behind it.  The gateway makes one attempt and    *)
(* gives up after 30 s without a sign of the upstream service, which may carry *)
(* out a request that the gateway gave up, or that it sent before it died.     *)
EXTENDS Naturals

CONSTANT Request

VARIABLES
    relay,      \* per request, in the gateway: what the relaying waits for
    upstream,   \* per request, outside: on its way, rejected or carried out
    executed    \* per request of which something is left: how often it was carried out

TypeOK ==
    /\ relay \in [Request -> {"none", "body", "reply"}]
    /\ upstream \in [Request -> {"none", "transit", "rejected", "carried_out"}]
    /\ executed \in [Request -> Nat]

Init ==
    /\ relay = [r \in Request |-> "none"]
    /\ upstream = [r \in Request |-> "none"]
    /\ executed = [r \in Request |-> 0]

(* await request.body()                                                        *)
Begin(r) ==
    /\ relay' = [relay EXCEPT ![r] = "body"]
    /\ UNCHANGED <<upstream, executed>>

(* The body is complete and the request goes out with the identity headers.    *)
Send(r) ==
    /\ relay[r] = "body"
    /\ relay' = [relay EXCEPT ![r] = "reply"]
    /\ upstream' = [upstream EXCEPT ![r] = "transit"]
    /\ UNCHANGED executed

(* The client is gone before its body is complete, or a header cannot be       *)
(* encoded (a username beyond ASCII): an exception that is not caught.         *)
Abort(r) ==
    /\ relay[r] = "body"
    /\ relay' = [relay EXCEPT ![r] = "none"]
    /\ UNCHANGED <<upstream, executed>>

(* The service's handler runs, or rejects the request (404, 422).              *)
Execute(r) ==
    /\ upstream[r] = "transit"
    /\ upstream' = [upstream EXCEPT ![r] = "carried_out"]
    /\ executed' = [executed EXCEPT ![r] = @ + 1]
    /\ UNCHANGED relay

Reject(r) ==
    /\ upstream[r] = "transit"
    /\ upstream' = [upstream EXCEPT ![r] = "rejected"]
    /\ UNCHANGED <<relay, executed>>

(* The service's response is passed on.                                        *)
PassOn(r) ==
    /\ relay[r] = "reply"
    /\ upstream[r] \in {"rejected", "carried_out"}
    /\ relay' = [relay EXCEPT ![r] = "none"]
    /\ upstream' = [upstream EXCEPT ![r] = "none"]
    /\ UNCHANGED executed

(* httpx.RequestError: no connection, a connection that broke, or the timeout, *)
(* wherever the request is by then; nothing is sent a second time.             *)
GiveUp(r) ==
    /\ relay[r] = "reply"
    /\ relay' = [relay EXCEPT ![r] = "none"]
    /\ UNCHANGED <<upstream, executed>>

(* What the gateway does not wait for any more is lost on its way, or the      *)
(* service's answer finds nobody.                                              *)
Vanish(r) ==
    /\ relay[r] = "none"
    /\ upstream[r] # "none"
    /\ upstream' = [upstream EXCEPT ![r] = "none"]
    /\ executed' = [executed EXCEPT ![r] = 0]
    /\ UNCHANGED relay

Remaining(r) == IF upstream[r] = "none" THEN 0 ELSE executed[r]

Forget(r) ==
    /\ executed' = [executed EXCEPT ![r] = Remaining(r)]
    /\ UNCHANGED <<relay, upstream>>

Crash ==
    /\ relay' = [r \in Request |-> "none"]
    /\ executed' = [r \in Request |-> Remaining(r)]
    /\ UNCHANGED upstream
=============================================================================
