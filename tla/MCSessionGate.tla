--------------------------- MODULE MCSessionGate ----------------------------
(* Instances of SessionGate for TLC: all sessions belong to one credential.    *)
EXTENDS SessionGate, TLC

CONSTANT passkey

CredentialOfValue == [s \in Session |-> passkey]

EitherFault == {{"redis"}, {"restart"}}

GateSymmetry == Permutations(Session) \cup Permutations(Request)
=============================================================================
