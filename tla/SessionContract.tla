-------------------------- MODULE SessionContract ---------------------------
(* What the gateway promises of a session, however it keeps track of it: a     *)
(* login begins it fresh, it grows stale, it ends for good by expiry or by an  *)
(* answered logout, and a request is served only while it lasts, as a step-up  *)
(* only while it is fresh.  A request may be refused at any time.              *)
CONSTANTS Session, Request

VARIABLES
    status,     \* session -> its stage of life
    answer      \* request -> how it is being answered, and for which session

vars == <<status, answer>>

Status == {"none", "fresh", "stale", "ended"}
Answer == {<<>>, <<"refused">>} \cup ({"authorised", "served"} \X Session)

Init ==
    /\ status = [s \in Session |-> "none"]
    /\ answer = [r \in Request |-> <<>>]

Login(s) ==
    /\ status[s] = "none"
    /\ status' = [status EXCEPT ![s] = "fresh"]
    /\ UNCHANGED answer

(* Time passes or a logout is answered: sessions grow older, never younger.    *)
Older == {<<"fresh", "stale">>, <<"fresh", "ended">>, <<"stale", "ended">>}

Age ==
    /\ status' \in [Session -> Status]
    /\ \A s \in Session : status'[s] # status[s] => <<status[s], status'[s]>> \in Older
    /\ UNCHANGED answer

(* A request of session s is answered.                                         *)
Authorise(r, s) ==
    /\ status[s] = "fresh"
    /\ answer' = [answer EXCEPT ![r] = <<"authorised", s>>]
    /\ UNCHANGED status

Serve(r, s) ==
    /\ status[s] = "stale"
    /\ answer' = [answer EXCEPT ![r] = <<"served", s>>]
    /\ UNCHANGED status

Refuse(r) ==
    /\ answer' = [answer EXCEPT ![r] = <<"refused">>]
    /\ UNCHANGED status

(* Requests are over, or cut off.                                              *)
Done ==
    /\ answer' \in [Request -> Answer]
    /\ \A r \in Request : answer'[r] \in {answer[r], <<>>}
    /\ UNCHANGED status

Next ==
    \/ \E s \in Session : Login(s)
    \/ Age
    \/ \E r \in Request, s \in Session : Authorise(r, s) \/ Serve(r, s)
    \/ \E r \in Request : Refuse(r)
    \/ Done

Spec == Init /\ [][Next]_vars
=============================================================================
