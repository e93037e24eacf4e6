----------------------------- MODULE MCUserPage -----------------------------
(* Two users, one of both inbounds and one of one, and two inbounds; the    *)
(* bulk form makes the name of the second user.                             *)
EXTENDS UserPage, TLC

CONSTANTS u1, u2, in1, in2

MCInitial ==
    [n \in {u1, u2} |-> [t \in {in1, in2} |->
       IF n = u2 /\ t = in2 THEN "absent" ELSE IF t = in1 THEN "vision" ELSE "none"]]

\* The handlers are alike; no liveness is checked here.
MCSymmetry == Permutations(Slots)

=============================================================================
