---------------------------- MODULE FailingCalls ----------------------------
(* What the calls of the pages have in common: some of them fail, and of     *)
(* those that do the modules consider a bounded number.                      *)
EXTENDS Naturals

CONSTANT MaxFails   \* bound: calls that fail

ASSUME FailsAssumption == MaxFails \in Nat

VARIABLE fails      \* how many have

CallFails ==
    /\ fails < MaxFails
    /\ fails' = fails + 1

=============================================================================
