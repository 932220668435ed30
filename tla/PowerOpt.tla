------------------------------ MODULE PowerOpt ------------------------------
(***************************************************************************)
(* Post_PowerOpt: the nested search loops of the sizer and the books they  *)
(* keep of the best solution: best_cells_local and best_score_local inside *)
(* the search, best_cells_poweropt and best_score for the program, and the *)
(* .size file that is rewritten on every improvement.                      *)
(*                                                                         *)
(* A solution stands for the masters of all cells.  The repairs may turn   *)
(* any solution into any other.  CalcStats measures a score: one of the    *)
(* values Score[s] allows, since the timer's view of a solution depends on *)
(* when it was last correlated.  The program counter names the places of   *)
(* the loop; each action is the code from one place to the next.           *)
(***************************************************************************)
EXTENDS Integers

CONSTANTS
  Sols,        \* solutions
  Score,       \* Score[s]: what CalcStats may measure on s
  Configs,     \* option settings considered
  KickMax,     \* KICK_MAX
  OptEffort,   \* optEffort, the bound of iter
  MaxRecovery, \* max_time_recovery_iter
  Unknown

Options   == [fixCap: BOOLEAN, fixSlew: BOOLEAN, fixGlobal: BOOLEAN,
              initPath: BOOLEAN, compareTns: BOOLEAN]
(* Which violations CalcStats found, and whether all are below 0.03.       *)
Violation == [cap: BOOLEAN, slew: BOOLEAN, skew: BOOLEAN, small: BOOLEAN]

ASSUME PowerOptAssumption ==
  /\ Score \in [Sols -> SUBSET (Nat \ {0})]
  /\ Configs \subseteq Options
  /\ KickMax \in Nat /\ OptEffort \in Nat /\ MaxRecovery \in Nat
  /\ Unknown \notin Nat

VARIABLES
  opts,
  pc,
  kick,             \* i, the kick loop
  iter,
  rec,              \* time_recovery_iter
  useAttackNew,     \* use_attack_new
  cells,            \* the solution under work
  score,            \* the global score, as last computed
  vio,              \* the violations, as last computed
  change,           \* change > 0
  allChange,        \* all_change > 0
  prevBest,         \* prev_best_score of the recovery iteration
  updatedLocal,     \* updated_local
  allFeasible,      \* all_feasible
  bestLocal, bestScoreLocal,
  best, bestScore,
  file              \* the solution in <design>.size

loop  == <<kick, iter, rec>>
books == <<bestLocal, bestScoreLocal, best, bestScore, file>>
vars  == <<opts, pc, loop, useAttackNew, cells, score, vio, change, allChange,
           prevBest, updatedLocal, allFeasible, books>>

(* CalcStats on the cells of the next state.                               *)
CalcStats ==
  /\ score' \in Score[cells']
  /\ vio' \in {v \in Violation : ~(v.cap \/ v.slew \/ v.skew) => v.small}

Init ==
  /\ opts \in Configs
  /\ pc = "start"
  /\ kick = 0 /\ iter = 0 /\ rec = 0
  /\ useAttackNew \in BOOLEAN
  /\ cells \in Sols
  /\ score = Unknown
  /\ vio = [cap |-> FALSE, slew |-> FALSE, skew |-> FALSE, small |-> TRUE]
  /\ change = FALSE /\ allChange = FALSE
  /\ prevBest = Unknown
  /\ updatedLocal = FALSE /\ allFeasible = FALSE
  /\ best = cells /\ bestLocal = cells /\ file = cells
  /\ bestScoreLocal = Unknown /\ bestScore = Unknown

(* Copy the best, correlate, measure: the score to beat.                   *)
Start ==
  /\ pc = "start"
  /\ pc' = "kick"
  /\ cells' = best
  /\ CalcStats
  /\ bestScoreLocal' = score' /\ bestScore' = score'
  /\ bestLocal' = best /\ file' = cells'
  /\ UNCHANGED <<opts, loop, useAttackNew, change, allChange, prevBest,
                 updatedLocal, allFeasible, best>>

(* The heads of the three loops.                                           *)
KickHead ==
  /\ pc = "kick"
  /\ IF kick < KickMax THEN pc' = "iter" /\ iter' = 0 /\ updatedLocal' = FALSE
                       ELSE pc' = "end" /\ UNCHANGED <<iter, updatedLocal>>
  /\ UNCHANGED <<opts, kick, rec, useAttackNew, cells, score, vio, change,
                 allChange, prevBest, allFeasible, books>>

IterHead ==
  /\ pc = "iter"
  /\ IF iter < OptEffort
     THEN pc' = "recovery" /\ iter' = iter + 1 /\ rec' = 0 /\ allFeasible' = FALSE
     ELSE pc' = "kickEnd" /\ UNCHANGED <<iter, rec, allFeasible>>
  /\ UNCHANGED <<opts, kick, useAttackNew, cells, score, vio, change, allChange,
                 prevBest, updatedLocal, books>>

RecoveryHead ==
  /\ pc = "recovery"
  /\ IF rec >= MaxRecovery \/ allFeasible
     THEN pc' = "iterEnd" /\ UNCHANGED <<change, allChange, prevBest>>
     ELSE IF vio.cap \/ vio.slew \/ vio.skew
     THEN /\ pc' = "initPath"
          /\ change' = FALSE /\ allChange' = FALSE
          /\ prevBest' = bestScoreLocal
     ELSE pc' = "recoveryEnd" /\ UNCHANGED <<change, allChange, prevBest>>
  /\ UNCHANGED <<opts, loop, useAttackNew, cells, score, vio, updatedLocal,
                 allFeasible, books>>

(* A repair that counts its changes: the cells change only if the count    *)
(* does, but the count may rise without a change (FwdFixCapViolation adds  *)
(* the targets it found, applied or not).                                  *)
Edit == /\ cells' \in Sols
        /\ change' \in {change, TRUE}
        /\ cells' # cells => change'

(* InitWNSPath, timed and measured when it changed a cell.                 *)
InitPath ==
  /\ pc = "initPath"
  /\ pc' = "cap"
  /\ \/ opts.initPath /\ Edit /\ change' /\ CalcStats
     \/ UNCHANGED <<cells, change, score, vio>>
  /\ UNCHANGED <<opts, loop, useAttackNew, allChange, prevBest, updatedLocal,
                 allFeasible, books>>

(* FwdFixCapViolation, BwdFixCapViolation, CallTimer, CalcStats.           *)
FixCap ==
  /\ pc = "cap"
  /\ pc' = "afterCap"
  /\ IF opts.fixCap /\ vio.cap THEN Edit /\ CalcStats
     ELSE UNCHANGED <<cells, change, score, vio>>
  /\ UNCHANGED <<opts, loop, useAttackNew, allChange, prevBest, updatedLocal,
                 allFeasible, books>>

(* FwdFixSlewViolation, ...Post, CallTimer, CalcStats.                     *)
FixSlew ==
  /\ pc = "slew"
  /\ pc' = "afterSlew"
  /\ IF opts.fixSlew /\ vio.slew THEN Edit /\ CalcStats
     ELSE UNCHANGED <<cells, change, score, vio>>
  /\ UNCHANGED <<opts, loop, useAttackNew, allChange, prevBest, updatedLocal,
                 allFeasible, books>>

(* AttackNew once, Attack otherwise.  Both count every accepted trial, so  *)
(* an unchanged count means unchanged cells, and nothing is measured again *)
(* then.  With -compare_tns the trials themselves run CalcStats: a run     *)
(* that restores them all leaves the score of the last rejected one.       *)
Attack ==
  /\ pc = "attack"
  /\ pc' = "attacked"
  /\ LET first == rec = 0 /\ useAttackNew
         runs  == first \/ opts.fixGlobal
     IN  /\ useAttackNew' = (useAttackNew /\ ~first)
         /\ IF runs THEN Edit ELSE UNCHANGED <<cells, change>>
         /\ IF change' THEN CalcStats
            ELSE IF runs /\ ~first /\ opts.compareTns
            THEN (\E s \in Sols : score' \in Score[s]) /\ UNCHANGED vio
            ELSE UNCHANGED <<score, vio>>
  /\ UNCHANGED <<opts, loop, allChange, prevBest, updatedLocal, allFeasible, books>>

(* The second round of repairs, in the last recovery iteration only.       *)
LastRecovery == rec = MaxRecovery - 1

FixCapLast ==
  /\ pc = "capLast"
  /\ pc' = "afterCapLast"
  /\ IF LastRecovery /\ opts.fixCap THEN Edit /\ CalcStats
     ELSE UNCHANGED <<cells, change, score, vio>>
  /\ UNCHANGED <<opts, loop, useAttackNew, allChange, prevBest, updatedLocal,
                 allFeasible, books>>

FixSlewLast ==
  /\ pc = "slewLast"
  /\ pc' = "afterSlewLast"
  /\ IF LastRecovery /\ opts.fixSlew
     THEN /\ \E edited \in {change, TRUE} :
               /\ cells' \in Sols
               /\ cells' # cells => edited
               /\ allChange' = (allChange \/ edited)
          /\ change' = FALSE
          /\ CalcStats
     ELSE UNCHANGED <<cells, change, allChange, score, vio>>
  /\ UNCHANGED <<opts, loop, useAttackNew, prevBest, updatedLocal, allFeasible, books>>

(* Mutants: the cells are not copied; the file is not written; any new     *)
(* score is taken.                                                         *)
CheckBest_NoCopy ==
  IF score < bestScoreLocal
  THEN bestScoreLocal' = score /\ updatedLocal' = TRUE /\ UNCHANGED <<bestLocal, file>>
  ELSE UNCHANGED <<bestScoreLocal, bestLocal, file, updatedLocal>>

CheckBest_NoFile ==
  IF score < bestScoreLocal
  THEN bestScoreLocal' = score /\ bestLocal' = cells /\ updatedLocal' = TRUE /\ UNCHANGED file
  ELSE UNCHANGED <<bestScoreLocal, bestLocal, file, updatedLocal>>

CheckBest_Any ==
  bestScoreLocal' = score /\ bestLocal' = cells /\ file' = cells /\ updatedLocal' = TRUE

(* score < best_score_local: take the score, write the file, copy cells.   *)
CheckBest ==
  IF score < bestScoreLocal
  THEN /\ bestScoreLocal' = score /\ bestLocal' = cells /\ file' = cells
       /\ updatedLocal' = TRUE
  ELSE UNCHANGED <<bestScoreLocal, bestLocal, file, updatedLocal>>

(* The four places it is done, and where the code goes from each.          *)
Check ==
  /\ \/ pc = "afterCap" /\ pc' = "slew"
     \/ pc = "afterSlew" /\ pc' = "attack"
     \/ pc = "afterCapLast" /\ pc' = "slewLast"
     \/ pc = "afterSlewLast" /\ pc' = "track"
  /\ IF pc = "afterCapLast" /\ ~LastRecovery
     THEN UNCHANGED <<bestScoreLocal, bestLocal, file, updatedLocal>> ELSE CheckBest
  /\ IF pc = "afterCap" THEN allChange' = (allChange \/ change) /\ change' = FALSE
     ELSE UNCHANGED <<allChange, change>>
  /\ UNCHANGED <<opts, loop, useAttackNew, cells, score, vio, prevBest, allFeasible,
                 best, bestScore>>

(* all_change += change; change = 0, after the attack.                     *)
CountAttack ==
  /\ pc = "attacked"
  /\ pc' = "capLast"
  /\ allChange' = (allChange \/ change) /\ change' = FALSE
  /\ UNCHANGED <<opts, loop, useAttackNew, cells, score, vio, prevBest, updatedLocal,
                 allFeasible, books>>

(* Mutant: the sides the other way round.                                  *)
EarlyStop_Swapped == 100 * bestScoreLocal > 97 * prevBest

(* Nothing changed, or the early stop: leave the recovery loop.            *)
EarlyStop == 100 * prevBest < 97 * bestScoreLocal

Track ==
  /\ pc = "track"
  /\ pc' = IF ~allChange \/ EarlyStop THEN "iterEnd" ELSE "recoveryEnd"
  /\ UNCHANGED <<opts, loop, useAttackNew, cells, score, vio, change, allChange,
                 prevBest, updatedLocal, allFeasible, books>>

(* Mutant: time_recovery_iter is not counted.                              *)
RecoveryEnd_NoCount ==
  /\ pc = "recoveryEnd"
  /\ pc' = "recovery"
  /\ allFeasible' = (allFeasible \/ vio.small)
  /\ UNCHANGED <<opts, loop, useAttackNew, cells, score, vio, change, allChange,
                 prevBest, updatedLocal, books>>

RecoveryEnd ==
  /\ pc = "recoveryEnd"
  /\ pc' = "recovery"
  /\ rec' = rec + 1
  /\ allFeasible' = (allFeasible \/ vio.small)
  /\ UNCHANGED <<opts, kick, iter, useAttackNew, cells, score, vio, change, allChange,
                 prevBest, updatedLocal, books>>

IterEnd ==
  /\ pc = "iterEnd"
  /\ pc' = IF updatedLocal THEN "iter" ELSE "kickEnd"
  /\ UNCHANGED <<opts, loop, useAttackNew, cells, score, vio, change, allChange,
                 prevBest, updatedLocal, allFeasible, books>>

(* Mutant: the cells the kick ended with become the best.                  *)
KickEnd_Last ==
  /\ pc = "kickEnd"
  /\ pc' = "kick"
  /\ kick' = kick + 1
  /\ IF bestScoreLocal < bestScore
     THEN bestScore' = bestScoreLocal /\ best' = cells /\ file' = cells /\ updatedLocal' = TRUE
     ELSE UNCHANGED <<bestScore, best, file, updatedLocal>>
  /\ UNCHANGED <<opts, iter, rec, useAttackNew, cells, score, vio, change, allChange,
                 prevBest, allFeasible, bestLocal, bestScoreLocal>>

(* The local best becomes the program's best; the file written here is of  *)
(* the cells the search happens to be at.                                  *)
KickEnd ==
  /\ pc = "kickEnd"
  /\ pc' = "kick"
  /\ kick' = kick + 1
  /\ IF bestScoreLocal < bestScore
     THEN /\ bestScore' = bestScoreLocal /\ best' = bestLocal
          /\ file' = cells /\ updatedLocal' = TRUE
     ELSE UNCHANGED <<bestScore, best, file, updatedLocal>>
  /\ UNCHANGED <<opts, iter, rec, useAttackNew, cells, score, vio, change, allChange,
                 prevBest, allFeasible, bestLocal, bestScoreLocal>>

(* Back in the launcher: the size file of the best solution.               *)
WriteBest ==
  /\ pc = "end"
  /\ pc' = "done"
  /\ file' = best
  /\ UNCHANGED <<opts, loop, useAttackNew, cells, score, vio, change, allChange,
                 prevBest, updatedLocal, allFeasible, bestLocal, bestScoreLocal,
                 best, bestScore>>

Next ==
  \/ Start \/ KickHead \/ IterHead \/ RecoveryHead
  \/ InitPath \/ FixCap \/ FixSlew \/ Attack \/ CountAttack
  \/ FixCapLast \/ FixSlewLast \/ Check \/ Track
  \/ RecoveryEnd \/ IterEnd \/ KickEnd \/ WriteBest

Spec == Init /\ [][Next]_vars

(* The optimizer is one sequential thread that waits for nobody: as long   *)
(* as it is not finished, it takes its next step.                          *)
FairSpec == Spec /\ WF_vars(Next)

-----------------------------------------------------------------------------
Places == {"start", "kick", "iter", "recovery", "initPath", "cap", "afterCap",
           "slew", "afterSlew", "attack", "attacked", "capLast", "afterCapLast",
           "slewLast", "afterSlewLast", "track", "recoveryEnd", "iterEnd",
           "kickEnd", "end", "done"}

(* The types of the search's variables.                                    *)
TypeOK ==
  /\ opts \in Configs
  /\ pc \in Places
  /\ kick \in Nat /\ iter \in Nat /\ rec \in Nat
  /\ useAttackNew \in BOOLEAN
  /\ cells \in Sols /\ bestLocal \in Sols /\ best \in Sols /\ file \in Sols
  /\ vio \in Violation
  /\ change \in BOOLEAN /\ allChange \in BOOLEAN
  /\ updatedLocal \in BOOLEAN /\ allFeasible \in BOOLEAN
  /\ pc # "start" => score \in Nat /\ bestScoreLocal \in Nat /\ bestScore \in Nat
  /\ prevBest \in Nat \cup {Unknown}

(* The scores kept are scores of the solutions kept.  The global score is  *)
(* read at four places, and the repairs in between measure it only when    *)
(* they think they changed something: a score left over from other cells   *)
(* would be recorded with the wrong solution.  (-compare_tns does leave    *)
(* one, see the README.)                                                   *)
BooksMatch ==
  (pc # "start" /\ ~opts.compareTns) =>
    bestScoreLocal \in Score[bestLocal] /\ bestScore \in Score[best]

(* While the search runs its first kick, the size file on disk is the best *)
(* solution found so far: a run that is killed leaves its best result.     *)
(* (After KickEnd it is not, until WriteBest.)                             *)
FileIsBest ==
  /\ (kick = 0 /\ pc # "start") => file = bestLocal
  /\ pc = "done" => file = best

(* The test that should leave the recovery loop when an iteration brought  *)
(* too little never fires: it compares the older score with the newer one  *)
(* the wrong way round for scores that only fall.                          *)
EarlyStopNeverFires == pc = "track" => ~EarlyStop

(* The books of the search, and those of the program, behave as BestSoFar. *)
(* With -compare_tns, where scores outlive the cells they were measured    *)
(* on, nothing is promised: such a run maps to one that never measures.    *)
Measured(s) == IF pc = "start" \/ opts.compareTns THEN Unknown ELSE s
Kept(s)     == IF opts.compareTns THEN CHOOSE x \in Sols : TRUE ELSE s

Local  == INSTANCE BestSoFar WITH sol <- Kept(bestLocal), score <- Measured(bestScoreLocal)
Global == INSTANCE BestSoFar WITH sol <- Kept(best), score <- Measured(bestScore)

(* best_cells_local/best_score_local only move together to a strictly      *)
(* better measured solution (Post_PowerOpt's four checks).                 *)
LocalBestSoFar == Local!Spec

(* The same of best_cells_poweropt/best_score, across kicks.               *)
GlobalBestSoFar == Global!Spec

(* Given that each repair returns, the three nested loops end.             *)
SearchEnds == <>(pc = "done")
=============================================================================
