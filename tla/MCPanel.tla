------------------------------- MODULE MCPanel -------------------------------
(* Two ranges, two calls in flight on the dashboard and the logs, a user    *)
(* of two inbounds and one of one of them, and one call that fails.         *)
EXTENDS Panel

CONSTANTS p1, p2, in1, in2

MCTagsOf == [u \in {p1, p2} |-> IF u = p1 THEN <<in1, in2>> ELSE <<in1>>]

=============================================================================
