---------------------------- MODULE TrafficLedger ----------------------------
(***************************************************************************)
(* What the traffic tables promise: a recorded row is kept until a         *)
(* deletion forgets it, and a deletion of a number of days that Fits       *)
(* forgets only rows that are older.  How a kept row is stored, raw or     *)
(* summed into a bucket, does not show.                                    *)
(***************************************************************************)
EXTENDS Integers

CONSTANTS Row,      \* what can be recorded
          Times,    \* values of the clock
          DaySize,  \* a day, in clock units
          Fits      \* the numbers of days that a deletion can count back

VARIABLES today, kept, forgotten,
          age       \* the number of days of the last deletion

LInit == /\ today = 0
         /\ kept = {}
         /\ forgotten = {}
         /\ age = 0

Pass == /\ today' \in Times
        /\ UNCHANGED <<kept, forgotten, age>>

Record == \E r \in Row \ (kept \cup forgotten) :
             /\ kept' = kept \cup {r}
             /\ UNCHANGED <<today, forgotten, age>>

Forget == /\ age' \in Nat \ {0}
          /\ kept' \subseteq kept
          /\ age' \in Fits => \A r \in kept \ kept' : r.ts < today - age' * DaySize
          /\ forgotten' = forgotten \cup (kept \ kept')
          /\ UNCHANGED today

LNext == Pass \/ Record \/ Forget

LSpec == LInit /\ [][LNext]_<<today, kept, forgotten, age>>
=============================================================================
