---------------------------- MODULE OneTimeNonce ----------------------------
(* What the gateway promises of a WebAuthn challenge, whatever stores it: it   *)
(* is issued once, spent at most once, and may be forgotten at any time (it    *)
(* expired, or the process that remembered it restarted).                      *)
EXTENDS Naturals

CONSTANT Nonce

VARIABLES
    issued, \* the challenges drawn so far; a random value is drawn once
    live,   \* those that a verification may still consume
    uses    \* how often each challenge was handed to a verification

vars == <<issued, live, uses>>

TypeOK ==
    /\ issued \in SUBSET Nonce
    /\ live \in SUBSET issued
    /\ uses \in [Nonce -> Nat]

Init ==
    /\ issued = {}
    /\ live = {}
    /\ uses = [n \in Nonce |-> 0]

Issue(n) ==
    /\ n \notin issued
    /\ issued' = issued \cup {n}
    /\ live' = live \cup {n}
    /\ UNCHANGED uses

Spend(n) ==
    /\ n \in live
    /\ live' = live \ {n}
    /\ uses' = [uses EXCEPT ![n] = @ + 1]
    /\ UNCHANGED issued

Forget(S) ==
    /\ live' = live \ S
    /\ UNCHANGED <<issued, uses>>

Next ==
    \/ \E n \in Nonce : Issue(n) \/ Spend(n)
    \/ \E S \in SUBSET live : Forget(S)

Spec == Init /\ [][Next]_vars
=============================================================================
