----------------------------- MODULE MCDemoPage -----------------------------
(* Instances of DemoPage for TLC.                                              *)
EXTENDS DemoPage, TLC

PageSymmetry == Permutations(Flow)
=============================================================================
