-------------------------- MODULE MCLoginCeremony ---------------------------
(* Instances of LoginCeremony for TLC.                                         *)
EXTENDS LoginCeremony, TLC

CONSTANTS hardware, synced, alice

(* One hardware key that was registered with count 1 and one synced passkey    *)
(* that reports no counter, both of the same user.                             *)
OwnerValue == [cr \in Credential |-> alice]
InitialCountValue == [cr \in Credential |-> IF cr = synced THEN 0 ELSE 1]
CounterlessValue == Credential \cap {synced}

CeremonySymmetry ==
    Permutations(Handler) \cup Permutations(Device) \cup Permutations(Challenge)
=============================================================================
