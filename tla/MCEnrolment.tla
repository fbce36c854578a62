---------------------------- MODULE MCEnrolment -----------------------------
(* Instances of Enrolment for TLC.                                             *)
EXTENDS Enrolment, TLC

EnrolmentSymmetry ==
    Permutations(Handler) \cup Permutations(Name) \cup Permutations(Challenge)
        \cup Permutations(Credential)
=============================================================================
