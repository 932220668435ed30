----------------------------- MODULE BestSoFar ------------------------------
(***************************************************************************)
(* What the optimizer's bookkeeping promises: it holds a solution and a    *)
(* score that was measured on that very solution, and replaces both, and   *)
(* only together, by a solution measured strictly better.                  *)
(***************************************************************************)
EXTENDS Integers

CONSTANTS
  Sols,     \* solutions: a master for every cell
  Score,    \* Score[s]: the scores the timers may measure on s
  Unknown   \* not measured yet

VARIABLES sol, score

Init == sol \in Sols /\ score = Unknown

Measure == /\ score = Unknown
           /\ score' \in Score[sol]
           /\ UNCHANGED sol

Improve == /\ score # Unknown
           /\ sol' \in Sols
           /\ score' \in Score[sol']
           /\ score' < score

Next == Measure \/ Improve

Spec == Init /\ [][Next]_<<sol, score>>
=============================================================================
