---------------------------- MODULE RateLimiter -----------------------------
(* gateway/middleware/rate_limit.py: the sliding window in front of the        *)
(* registration and login endpoints.  is_allowed runs without an await, so     *)
(* answering a request is one step.  The window is counted in seconds but the  *)
(* clock in fractions: one second is TPS ticks, and int() rounds down.         *)
(*                                                                             *)
(* A timestamp is kept as its age, which is all the code computes with it, so  *)
(* the model needs no clock and no bound on one.  A list of timestamps is a    *)
(* set of slots with an age each; its first entry is one of the oldest.        *)
EXTENDS Integers, FiniteSets

CONSTANTS
    Client,         \* those who post to the ceremony endpoints
    Address,        \* what the gateway tells them apart by
    AddressOf,      \* client -> address; one for all behind a proxy
    MaxRequests,    \* max_requests
    Window,         \* window_seconds
    TPS,            \* ticks per second
    Slot            \* room for timestamps; more than MaxRequests are needed

WindowTicks == Window * TPS

ASSUME LimiterAssumption ==
    /\ AddressOf \in [Client -> Address]
    /\ {MaxRequests, Window, TPS} \subseteq Nat \ {0}
    /\ IsFiniteSet(Slot)

VARIABLES
    history,        \* address -> the slots that is_allowed remembers
    age,            \* address -> slot -> ticks, counted up to WindowTicks
    admitted,       \* address -> the slots of the admissions really made in the
                    \* last WindowTicks ticks by this process
    pc,             \* client -> its last answer, or that it waits for one
    promise         \* address -> ticks until a client that was told to wait
                    \* should be let in; NoPromise if no promise is open

vars == <<history, age, admitted, pc, promise>>

NoPromise == -1

TypeOK ==
    /\ history \in [Address -> SUBSET Slot]
    /\ age \in [Address -> [Slot -> 0 .. WindowTicks]]
    /\ admitted \in [Address -> SUBSET Slot]
    /\ pc \in [Client -> {"idle", "asking", "admitted", "refused"}]
    /\ promise \in [Address -> Nat \cup {NoPromise}]

Init ==
    /\ history = [a \in Address |-> {}]
    /\ age = [a \in Address |-> [i \in Slot |-> WindowTicks]]
    /\ admitted = [a \in Address |-> {}]
    /\ pc = [c \in Client |-> "idle"]
    /\ promise = [a \in Address |-> NoPromise]

-----------------------------------------------------------------------------
MutRecent(a) == \* prunes a second early
    {i \in history[a] : age[a][i] < WindowTicks - TPS}

(* The pruned history: an admission counts for less than Window seconds.       *)
Recent(a) == {i \in history[a] : age[a][i] < WindowTicks}

Oldest(a, i) == i \in Recent(a) /\ \A j \in Recent(a) : age[a][j] <= age[a][i]

MutRetryAfter(a, i) == \* the time since the oldest, not what is left
    LET left == age[a][i] \div TPS
    IN  IF left > 1 THEN left ELSE 1

(* The Retry-After of a refusal whose oldest admission is in slot i, in whole  *)
(* seconds.                                                                    *)
RetryAfter(a, i) ==
    LET left == (WindowTicks - age[a][i]) \div TPS
    IN  IF left > 1 THEN left ELSE 1

(* A POST to one of the endpoints.  If the connection breaks or the process    *)
(* dies, the client sends it again.                                            *)
Ask(c) ==
    /\ pc[c] # "asking"
    /\ pc' = [pc EXCEPT ![c] = "asking"]
    /\ UNCHANGED <<history, age, admitted, promise>>

MutAdmit(c) == \* window_start is remembered instead of now
    LET a == AddressOf[c] IN
    /\ pc[c] = "asking"
    /\ Cardinality(Recent(a)) < MaxRequests
    /\ \E i \in Slot \ (Recent(a) \cup admitted[a]) :
         /\ history' = [history EXCEPT ![a] = Recent(a) \cup {i}]
         /\ age' = [age EXCEPT ![a][i] = -WindowTicks]
         /\ admitted' = [admitted EXCEPT ![a] = @ \cup {i}]
    /\ pc' = [pc EXCEPT ![c] = "admitted"]
    /\ promise' = [promise EXCEPT ![a] = NoPromise]

Admit(c) ==
    LET a == AddressOf[c] IN
    /\ pc[c] = "asking"
    /\ Cardinality(Recent(a)) < MaxRequests
    /\ \E i \in Slot \ (Recent(a) \cup admitted[a]) :
         /\ history' = [history EXCEPT ![a] = Recent(a) \cup {i}]
         /\ age' = [age EXCEPT ![a][i] = 0]
         /\ admitted' = [admitted EXCEPT ![a] = @ \cup {i}]
    /\ pc' = [pc EXCEPT ![c] = "admitted"]
    /\ promise' = [promise EXCEPT ![a] = NoPromise]

MutRefuse(c) == \* a refused request counts as well
    LET a == AddressOf[c] IN
    /\ pc[c] = "asking"
    /\ Cardinality(Recent(a)) >= MaxRequests
    /\ \E i \in Slot \ Recent(a) :
         /\ history' = [history EXCEPT ![a] = Recent(a) \cup {i}]
         /\ age' = [age EXCEPT ![a][i] = 0]
    /\ pc' = [pc EXCEPT ![c] = "refused"]
    /\ \E i \in Slot : Oldest(a, i) /\ promise' = [promise EXCEPT ![a] =
         IF @ = NoPromise THEN (RetryAfter(a, i) + 1) * TPS ELSE @]
    /\ UNCHANGED admitted

(* 429.  The seconds of Retry-After are rounded down: one more is needed.      *)
Refuse(c) ==
    LET a == AddressOf[c] IN
    /\ pc[c] = "asking"
    /\ Cardinality(Recent(a)) >= MaxRequests
    /\ history' = [history EXCEPT ![a] = Recent(a)]
    /\ pc' = [pc EXCEPT ![c] = "refused"]
    /\ \E i \in Slot : Oldest(a, i) /\ promise' = [promise EXCEPT ![a] =
         IF @ = NoPromise THEN (RetryAfter(a, i) + 1) * TPS ELSE @]
    /\ UNCHANGED <<age, admitted>>

Tick ==
    /\ age' = [a \in Address |-> [i \in Slot |->
         IF age[a][i] < WindowTicks THEN age[a][i] + 1 ELSE age[a][i]]]
    /\ admitted' = [a \in Address |-> {i \in admitted[a] : age'[a][i] < WindowTicks}]
    /\ promise' = [a \in Address |->
         IF promise[a] > 0 THEN promise[a] - 1 ELSE promise[a]]
    /\ UNCHANGED <<history, pc>>

(* The process starts anew and remembers nothing; the clients do.              *)
Restart ==
    /\ history' = [a \in Address |-> {}]
    /\ age' = [a \in Address |-> [i \in Slot |-> WindowTicks]]
    /\ admitted' = [a \in Address |-> {}]
    /\ UNCHANGED <<pc, promise>>

Next ==
    \/ \E c \in Client : Ask(c) \/ Admit(c) \/ Refuse(c)
    \/ Tick
    \/ Restart

Spec == Init /\ [][Next]_vars

(* Time passes, the event loop answers what it has received, and the clients   *)
(* are persistent: they ask again and again.                                   *)
FairSpec ==
    /\ Spec
    /\ \A c \in Client : WF_vars(Ask(c)) /\ WF_vars(Admit(c)) /\ WF_vars(Refuse(c))
    /\ WF_vars(Tick)

-----------------------------------------------------------------------------
Refused(c) == pc[c] # "refused" /\ pc'[c] = "refused"

(* However the requests of an address are spread, no window of Window seconds  *)
(* holds more than MaxRequests admissions: pruning never forgets one too soon. *)
WindowBound == \A a \in Address : Cardinality(admitted[a]) <= MaxRequests

(* A client is refused only for requests that were admitted: MaxRequests of    *)
(* them lie in the window before the refusal.  Being refused costs nothing.    *)
RefusedForAdmissions ==
    [][\A c \in Client : Refused(c) =>
         Cardinality(admitted[AddressOf[c]]) >= MaxRequests]_vars

(* A client that was refused and waits one second more than it was told is let *)
(* in, whatever it and its neighbours tried in between, unless one of them has *)
(* been let in since.                                                          *)
RetryIsHonoured ==
    [][\A c \in Client : Refused(c) => promise[AddressOf[c]] # 0]_vars

(* Clients that keep asking cannot keep each other out for ever: after every   *)
(* refusal somebody of the same address is let in again.                       *)
RefusalEnds == \A a \in Address : promise[a] # NoPromise ~> promise[a] = NoPromise
=============================================================================
