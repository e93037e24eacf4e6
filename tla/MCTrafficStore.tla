---------------------------- MODULE MCTrafficStore ----------------------------
(* Instances of TrafficStore for TLC.                                      *)
EXTENDS TrafficStore, TLC

(* A report that starts inside a bucket and ends at the edge of one, and   *)
(* one of a single moment, at an edge: the rest of the bucket is later.    *)
MCWindows == [user : Users, start : {1}, end : {4}] \cup [user : Users, start : {2}, end : {2}]

UserSymmetry == Permutations(Users)
=============================================================================
