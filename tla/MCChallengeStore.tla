-------------------------- MODULE MCChallengeStore --------------------------
(* Instance of ChallengeStore for TLC: the calls and the challenges are        *)
(* interchangeable.                                                            *)
EXTENDS ChallengeStore, TLC

CallSymmetry == Permutations(Caller) \cup Permutations(Nonce)
=============================================================================
