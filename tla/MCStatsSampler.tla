---------------------------- MODULE MCStatsSampler ----------------------------
(* Instances of StatsSampler for TLC.                                      *)
EXTENDS StatsSampler, TLC

RunnerSymmetry == Permutations(Runners)
=============================================================================
