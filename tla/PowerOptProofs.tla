--------------------------- MODULE PowerOptProofs ---------------------------
(***************************************************************************)
(* Proofs about the books Post_PowerOpt keeps of the best solution, for    *)
(* every set of solutions, every score the timers may measure and every    *)
(* bound of the loops.                                                     *)
(***************************************************************************)
EXTENDS PowerOpt, TLAPS

-----------------------------------------------------------------------------
(* Type correctness.                                                       *)

LEMMA ScoresAreNat == ASSUME NEW s \in Sols, NEW x \in Score[s] PROVE x \in Nat
  BY PowerOptAssumption

LEMMA CalcStatsType ==
  ASSUME CalcStats, cells' \in Sols
  PROVE  score' \in Nat /\ vio' \in Violation
  BY PowerOptAssumption DEF CalcStats

LEMMA NextTypeOK == TypeOK /\ [Next]_vars => TypeOK'
  <1> SUFFICES ASSUME TypeOK, [Next]_vars PROVE TypeOK'
    OBVIOUS
  <1> USE DEF TypeOK, Places, loop, books
  <1>1. CASE Start
    BY <1>1, CalcStatsType DEF Start
  <1>2. CASE KickHead
    <2>1. CASE kick < KickMax
      <3>1. /\ pc' = "iter" /\ iter' = 0 /\ updatedLocal' = FALSE
            /\ UNCHANGED <<opts, kick, rec, useAttackNew, cells, score, vio, change,
                           allChange, prevBest, allFeasible, books>>
        BY <1>2, <2>1, Zenon DEF KickHead
      <3>2. updatedLocal' \in BOOLEAN
        BY <3>1, Zenon
      <3>3. pc' \in Places /\ pc' # "start" /\ pc # "start" /\ iter' \in Nat
        BY <1>2, <3>1 DEF KickHead
      <3> QED BY <3>1, <3>2, <3>3
    <2>2. CASE ~(kick < KickMax)
      BY <1>2, <2>2 DEF KickHead
    <2> QED BY <2>1, <2>2
  <1>3. CASE IterHead
    <2>1. CASE iter < OptEffort
      <3>1. /\ pc' = "recovery" /\ iter' = iter + 1 /\ rec' = 0 /\ allFeasible' = FALSE
            /\ UNCHANGED <<opts, kick, useAttackNew, cells, score, vio, change,
                           allChange, prevBest, updatedLocal, books>>
        BY <1>3, <2>1, Zenon DEF IterHead
      <3>2. allFeasible' \in BOOLEAN
        BY <3>1, Zenon
      <3>3. pc' \in Places /\ pc' # "start" /\ pc # "start" /\ iter' \in Nat /\ rec' \in Nat
        BY <1>3, <3>1 DEF IterHead
      <3> QED BY <3>1, <3>2, <3>3
    <2>2. CASE ~(iter < OptEffort)
      BY <1>3, <2>2 DEF IterHead
    <2> QED BY <2>1, <2>2
  <1>4. CASE RecoveryHead
    BY <1>4 DEF RecoveryHead
  <1>5. CASE InitPath
    <2>1. cells' \in Sols /\ change' \in BOOLEAN
      BY <1>5 DEF InitPath, Edit
    <2>2. score' \in Nat /\ vio' \in Violation
      BY <1>5, <2>1, CalcStatsType DEF InitPath
    <2> QED BY <1>5, <2>1, <2>2 DEF InitPath
  <1>6. CASE FixCap
    <2>1. cells' \in Sols /\ change' \in BOOLEAN
      BY <1>6 DEF FixCap, Edit
    <2>2. score' \in Nat /\ vio' \in Violation
      BY <1>6, <2>1, CalcStatsType DEF FixCap
    <2> QED BY <1>6, <2>1, <2>2 DEF FixCap
  <1>7. CASE FixSlew
    <2>1. cells' \in Sols /\ change' \in BOOLEAN
      BY <1>7 DEF FixSlew, Edit
    <2>2. score' \in Nat /\ vio' \in Violation
      BY <1>7, <2>1, CalcStatsType DEF FixSlew
    <2> QED BY <1>7, <2>1, <2>2 DEF FixSlew
  <1>8. CASE Attack
    <2>1. cells' \in Sols /\ change' \in BOOLEAN /\ useAttackNew' \in BOOLEAN
      BY <1>8 DEF Attack, Edit
    <2>2. score' \in Nat /\ vio' \in Violation
      <3>1. CASE change'
        BY <1>8, <2>1, <3>1, CalcStatsType DEF Attack
      <3>2. CASE ~change'
        BY <1>8, <3>2, ScoresAreNat DEF Attack
      <3> QED BY <3>1, <3>2
    <2> QED BY <1>8, <2>1, <2>2 DEF Attack
  <1>9. CASE CountAttack
    BY <1>9 DEF CountAttack
  <1>10. CASE FixCapLast
    <2>1. cells' \in Sols /\ change' \in BOOLEAN
      BY <1>10 DEF FixCapLast, Edit
    <2>2. score' \in Nat /\ vio' \in Violation
      BY <1>10, <2>1, CalcStatsType DEF FixCapLast
    <2> QED BY <1>10, <2>1, <2>2 DEF FixCapLast
  <1>11. CASE FixSlewLast
    <2>1. cells' \in Sols /\ change' \in BOOLEAN /\ allChange' \in BOOLEAN
      BY <1>11 DEF FixSlewLast
    <2>2. score' \in Nat /\ vio' \in Violation
      BY <1>11, <2>1, CalcStatsType DEF FixSlewLast
    <2> QED BY <1>11, <2>1, <2>2 DEF FixSlewLast
  <1>12. CASE Check
    <2>1. pc # "start" /\ pc' \in Places /\ pc' # "start"
      BY <1>12 DEF Check
    <2>2. /\ bestScoreLocal' \in Nat /\ bestLocal' \in Sols /\ file' \in Sols
          /\ updatedLocal' \in BOOLEAN
      BY <1>12, <2>1 DEF Check, CheckBest
    <2>3. allChange' \in BOOLEAN /\ change' \in BOOLEAN
      BY <1>12 DEF Check
    <2> QED BY <1>12, <2>1, <2>2, <2>3 DEF Check
  <1>13. CASE Track
    BY <1>13 DEF Track
  <1>14. CASE RecoveryEnd
    BY <1>14 DEF RecoveryEnd
  <1>15. CASE IterEnd
    BY <1>15 DEF IterEnd
  <1>16. CASE KickEnd
    <2>1. CASE bestScoreLocal < bestScore
      BY <1>16, <2>1 DEF KickEnd
    <2>2. CASE ~(bestScoreLocal < bestScore)
      BY <1>16, <2>2 DEF KickEnd
    <2> QED BY <2>1, <2>2
  <1>17. CASE WriteBest
    BY <1>17 DEF WriteBest
  <1>18. CASE UNCHANGED vars
    BY <1>18 DEF vars
  <1> QED BY <1>1, <1>2, <1>3, <1>4, <1>5, <1>6, <1>7, <1>8, <1>9, <1>10, <1>11,
             <1>12, <1>13, <1>14, <1>15, <1>16, <1>17, <1>18 DEF Next

LEMMA InitTypeOK == Init => TypeOK
  <1> SUFFICES ASSUME Init PROVE TypeOK
    OBVIOUS
  <1>1. vio \in Violation
    BY DEF Init, Violation
  <1> QED BY <1>1 DEF Init, TypeOK, Places

(* TypeOK holds in every reachable state of Post_PowerOpt's search: no     *)
(* score is left unmeasured once the search has started.                   *)
THEOREM TypeCorrect == Spec => []TypeOK
  BY InitTypeOK, NextTypeOK, PTL DEF Spec

-----------------------------------------------------------------------------
(* The books.  ScoreInv adds to BooksMatch what makes it inductive: the    *)
(* global score is a score of the cells at hand whenever the checks may    *)
(* read it, and the search starts from the program's best.                 *)
ScoreInv ==
  /\ pc = "start" => bestLocal = best
  /\ (pc # "start" /\ ~opts.compareTns) =>
       /\ score \in Score[cells]
       /\ bestScoreLocal \in Score[bestLocal]
       /\ bestScore \in Score[best]

(* What every action but Start, Check, KickEnd does to cells and scores.   *)
Quiet == UNCHANGED <<bestLocal, bestScoreLocal, best, bestScore>>
Rescored == \/ UNCHANGED <<cells, score>>
            \/ score' \in Score[cells']
            \/ opts.compareTns

LEMMA SearchSteps ==
  ASSUME [Next]_vars, ~Start, ~Check, ~KickEnd
  PROVE  /\ opts' = opts
         /\ pc # "start" => pc' # "start"
         /\ pc = "start" => pc' = "start"
         /\ Quiet /\ Rescored
  <1> USE DEF Quiet, Rescored, loop, books
  <1>1. CASE KickHead \/ IterHead \/ RecoveryHead
    BY <1>1 DEF KickHead, IterHead, RecoveryHead
  <1>2. CASE InitPath
    BY <1>2 DEF InitPath, CalcStats
  <1>3. CASE FixCap
    BY <1>3 DEF FixCap, CalcStats
  <1>4. CASE FixSlew
    BY <1>4 DEF FixSlew, CalcStats
  <1>5. CASE Attack
    <2>1. CASE change'
      BY <1>5, <2>1 DEF Attack, CalcStats
    <2>2. CASE ~change'
      <3>1. cells' = cells
        BY <1>5, <2>2 DEF Attack, Edit
      <3>2. score' = score \/ opts.compareTns
        BY <1>5, <2>2 DEF Attack
      <3>3. pc = "attack" /\ pc' = "attacked" /\ opts' = opts /\ Quiet
        BY <1>5 DEF Attack
      <3> QED BY <3>1, <3>2, <3>3
    <2> QED BY <2>1, <2>2
  <1>6. CASE FixCapLast
    BY <1>6 DEF FixCapLast, CalcStats
  <1>7. CASE FixSlewLast
    BY <1>7 DEF FixSlewLast, CalcStats
  <1>8. CASE CountAttack \/ Track \/ RecoveryEnd \/ IterEnd \/ WriteBest
    BY <1>8 DEF CountAttack, Track, RecoveryEnd, IterEnd, WriteBest
  <1>9. CASE UNCHANGED vars
    BY <1>9 DEF vars
  <1> QED BY <1>1, <1>2, <1>3, <1>4, <1>5, <1>6, <1>7, <1>8, <1>9 DEF Next

(* What Start, Check and KickEnd do to the books.                          *)
LEMMA StartStep ==
  ASSUME Start
  PROVE  /\ opts' = opts /\ pc = "start" /\ pc' # "start"
         /\ best' = best /\ bestLocal' = best
         /\ score' \in Score[best] /\ cells' = best
         /\ bestScoreLocal' = score' /\ bestScore' = score'
         /\ file' = best /\ kick' = kick
  BY DEF Start, CalcStats, loop

LEMMA CheckStep ==
  ASSUME Check
  PROVE  /\ opts' = opts /\ pc # "start" /\ pc' # "start" /\ pc' # "done"
         /\ cells' = cells /\ score' = score /\ best' = best /\ bestScore' = bestScore
         /\ kick' = kick
         /\ \/ UNCHANGED <<bestLocal, bestScoreLocal, file>>
            \/ /\ score < bestScoreLocal
               /\ bestScoreLocal' = score /\ bestLocal' = cells /\ file' = cells
  <1>1. CASE pc = "afterCapLast" /\ ~LastRecovery
    BY <1>1 DEF Check, loop
  <1>2. CASE ~(pc = "afterCapLast" /\ ~LastRecovery)
    BY <1>2 DEF Check, CheckBest, loop
  <1> QED BY <1>1, <1>2

LEMMA KickEndStep ==
  ASSUME KickEnd
  PROVE  /\ opts' = opts /\ pc # "start" /\ pc' # "start" /\ pc' # "done"
         /\ cells' = cells /\ score' = score
         /\ bestLocal' = bestLocal /\ bestScoreLocal' = bestScoreLocal
         /\ kick' = kick + 1
         /\ \/ UNCHANGED <<best, bestScore>>
            \/ /\ bestScoreLocal < bestScore
               /\ bestScore' = bestScoreLocal /\ best' = bestLocal
  BY DEF KickEnd

LEMMA InitScoreInv == Init => ScoreInv
  BY DEF Init, ScoreInv

LEMMA NextScoreInv == ScoreInv /\ [Next]_vars => ScoreInv'
  <1> SUFFICES ASSUME ScoreInv, [Next]_vars PROVE ScoreInv'
    OBVIOUS
  <1>1. CASE Start
    BY <1>1, StartStep DEF ScoreInv
  <1>2. CASE Check
    BY <1>2, CheckStep DEF ScoreInv
  <1>3. CASE KickEnd
    BY <1>3, KickEndStep DEF ScoreInv
  <1>4. CASE ~Start /\ ~Check /\ ~KickEnd
    BY <1>4, SearchSteps DEF ScoreInv, Quiet, Rescored
  <1> QED BY <1>1, <1>2, <1>3, <1>4

(* The scores kept by Post_PowerOpt were measured on the solutions kept,   *)
(* for any repairs and any timer, without -compare_tns.                    *)
THEOREM KeptScoresMatch == Spec => []BooksMatch
  <1>1. ScoreInv => BooksMatch
    BY DEF ScoreInv, BooksMatch
  <1> QED BY <1>1, InitScoreInv, NextScoreInv, PTL DEF Spec

-----------------------------------------------------------------------------
(* The file on disk.  Once the kicks are over there has been one, so that  *)
(* what WriteBest writes is not asked to be the local best as well.        *)
FileInv ==
  /\ FileIsBest
  /\ pc \in {"end", "done"} => kick # 0

LEMMA FileSteps ==
  ASSUME [Next]_vars, ~Start, ~Check, ~KickEnd
  PROVE  /\ kick' = kick
         /\ \/ pc = "end" /\ pc' = "done" /\ file' = best
            \/ pc' = "end" /\ ~(kick < KickMax) /\ file' = file
            \/ pc' \notin {"end", "done"} /\ file' = file
            \/ pc' = pc /\ file' = file
  <1> USE DEF loop, books
  <1>1. CASE KickHead
    BY <1>1 DEF KickHead
  <1>2. CASE IterHead \/ RecoveryHead
    BY <1>2 DEF IterHead, RecoveryHead
  <1>3. CASE InitPath \/ FixCap \/ FixSlew
    BY <1>3 DEF InitPath, FixCap, FixSlew
  <1>4. CASE Attack
    BY <1>4 DEF Attack
  <1>5. CASE FixCapLast \/ FixSlewLast
    BY <1>5 DEF FixCapLast, FixSlewLast
  <1>6. CASE CountAttack \/ Track \/ RecoveryEnd \/ IterEnd \/ WriteBest
    BY <1>6 DEF CountAttack, Track, RecoveryEnd, IterEnd, WriteBest
  <1>7. CASE UNCHANGED vars
    BY <1>7 DEF vars
  <1> QED BY <1>1, <1>2, <1>3, <1>4, <1>5, <1>6, <1>7 DEF Next

LEMMA NextFileInv ==
  ASSUME KickMax # 0, TypeOK, FileInv, [Next]_vars
  PROVE  FileInv'
  <1>1. kick \in Nat /\ KickMax \in Nat
    BY PowerOptAssumption DEF TypeOK
  <1>2. CASE Start
    <2>1. pc' = "kick"
      BY <1>2 DEF Start
    <2> QED BY <1>2, <2>1, StartStep DEF FileInv, FileIsBest
  <1>3. CASE Check
    <2>1. pc' \notin {"end", "done"}
      BY <1>3 DEF Check
    <2> QED BY <1>3, <2>1, CheckStep DEF FileInv, FileIsBest
  <1>4. CASE KickEnd
    <2>1. kick' # 0 /\ pc' \notin {"end", "done"}
      BY <1>1, <1>4 DEF KickEnd
    <2> QED BY <2>1 DEF FileInv, FileIsBest
  <1>5. CASE ~Start /\ ~Check /\ ~KickEnd
    <2>1. /\ best' = best /\ bestLocal' = bestLocal
          /\ pc = "start" => pc' = "start"
          /\ kick' = kick
      BY <1>5, SearchSteps, FileSteps DEF Quiet
    <2>2. CASE pc = "end" /\ pc' = "done" /\ file' = best
      BY <2>1, <2>2 DEF FileInv, FileIsBest
    <2>3. CASE pc' = "end" /\ ~(kick < KickMax) /\ file' = file
      BY <1>1, <2>1, <2>3 DEF FileInv, FileIsBest
    <2>4. CASE pc' \notin {"end", "done"} /\ file' = file
      BY <2>1, <2>4 DEF FileInv, FileIsBest
    <2>5. CASE pc' = pc /\ file' = file
      BY <2>1, <2>5 DEF FileInv, FileIsBest
    <2> QED BY <1>5, <2>2, <2>3, <2>4, <2>5, FileSteps
  <1> QED BY <1>2, <1>3, <1>4, <1>5

(* If the search has a kick at all, the size file holds the best solution  *)
(* throughout the first kick and when the program is done, whatever the    *)
(* repairs do and whichever options are set.                               *)
THEOREM FileKept ==
  ASSUME KickMax # 0
  PROVE  Spec => []FileIsBest
  <1>1. Init => FileInv
    BY DEF Init, FileInv, FileIsBest
  <1>2. TypeOK /\ FileInv /\ [Next]_vars => FileInv'
    BY NextFileInv
  <1>3. FileInv => FileIsBest
    BY DEF FileInv
  <1> QED BY <1>1, <1>2, <1>3, TypeCorrect, PTL DEF Spec

-----------------------------------------------------------------------------
(* The early stop.  While an iteration of the recovery loop runs, the best *)
(* local score is at most what it was at the iteration's head.             *)
Body == {"initPath", "cap", "afterCap", "slew", "afterSlew", "attack", "attacked",
         "capLast", "afterCapLast", "slewLast", "afterSlewLast", "track"}

FallInv ==
  pc \in Body => prevBest \in Nat /\ bestScoreLocal \in Nat /\ bestScoreLocal <= prevBest

LEMMA BodySteps ==
  ASSUME [Next]_vars, ~Check
  PROVE  \/ pc' \notin Body
         \/ pc \in Body /\ prevBest' = prevBest /\ bestScoreLocal' = bestScoreLocal
         \/ pc = "recovery" /\ prevBest' = bestScoreLocal /\ bestScoreLocal' = bestScoreLocal
  <1> USE DEF loop, books, Body
  <1>1. CASE Start \/ KickHead \/ IterHead
    BY <1>1 DEF Start, KickHead, IterHead
  <1>2. CASE RecoveryHead
    BY <1>2 DEF RecoveryHead
  <1>3. CASE InitPath \/ FixCap \/ FixSlew
    BY <1>3 DEF InitPath, FixCap, FixSlew
  <1>4. CASE Attack
    BY <1>4 DEF Attack
  <1>5. CASE FixCapLast \/ FixSlewLast
    BY <1>5 DEF FixCapLast, FixSlewLast
  <1>6. CASE CountAttack \/ Track \/ RecoveryEnd
    BY <1>6 DEF CountAttack, Track, RecoveryEnd
  <1>7. CASE IterEnd \/ KickEnd \/ WriteBest
    BY <1>7 DEF IterEnd, KickEnd, WriteBest
  <1>8. CASE UNCHANGED vars
    BY <1>8 DEF vars
  <1> QED BY <1>1, <1>2, <1>3, <1>4, <1>5, <1>6, <1>7, <1>8 DEF Next

LEMMA NextFallInv == TypeOK /\ FallInv /\ [Next]_vars => FallInv'
  <1> SUFFICES ASSUME TypeOK, FallInv, [Next]_vars PROVE FallInv'
    OBVIOUS
  <1>1. CASE Check
    <2>1. pc \in Body /\ pc # "start" /\ prevBest' = prevBest
      BY <1>1 DEF Check, Body
    <2>2. score \in Nat
      BY <2>1 DEF TypeOK
    <2> QED BY <1>1, <2>1, <2>2, CheckStep DEF FallInv
  <1>2. CASE ~Check
    <2>1. pc = "recovery" => bestScoreLocal \in Nat
      BY DEF TypeOK
    <2> QED BY <1>2, <2>1, BodySteps DEF FallInv
  <1> QED BY <1>1, <1>2

(* The early stop of the recovery loop (sizer.cpp:7091) is dead code for   *)
(* any scores and any repairs: the best score only falls.                  *)
THEOREM EarlyStopIsDead == Spec => []EarlyStopNeverFires
  <1>1. Init => FallInv
    BY DEF Init, FallInv, Body
  <1>2. FallInv => EarlyStopNeverFires
    BY DEF FallInv, Body, EarlyStopNeverFires, EarlyStop
  <1> QED BY <1>1, <1>2, NextFallInv, TypeCorrect, PTL DEF Spec

-----------------------------------------------------------------------------
(* The refinements of BestSoFar.                                           *)

(* The options of a run never change.                                      *)
LEMMA OptsKept ==
  ASSUME [Next]_vars
  PROVE  opts' = opts
  BY DEF Next, vars, Start, KickHead, IterHead, RecoveryHead, InitPath, FixCap, FixSlew,
         Attack, CountAttack, FixCapLast, FixSlewLast, Check, Track, RecoveryEnd,
         IterEnd, KickEnd, WriteBest

(* A step of the search measures, improves or keeps the local books.       *)
LEMMA LocalStep ==
  ASSUME TypeOK, ScoreInv, [Next]_vars
  PROVE  [Local!Next]_<<Kept(bestLocal), Measured(bestScoreLocal)>>
  <1>0. CASE opts.compareTns
    BY <1>0, OptsKept DEF Measured, Kept
  <1> SUFFICES ASSUME ~opts.compareTns
               PROVE  [Local!Next]_<<Kept(bestLocal), Measured(bestScoreLocal)>>
    BY <1>0
  <1> USE OptsKept DEF Local!Next, Local!Measure, Local!Improve, Measured, Kept
  <1>1. \A n \in Nat : n # Unknown
    BY PowerOptAssumption
  <1>2. CASE Start
    <2>1. bestLocal' = bestLocal /\ score' \in Score[bestLocal]
      BY <1>2, StartStep DEF ScoreInv
    <2> QED BY <1>2, <2>1, StartStep
  <1>3. CASE Check
    <2>1. pc # "start" /\ score \in Score[cells] /\ bestScoreLocal \in Nat /\ cells \in Sols
      BY <1>3, CheckStep DEF ScoreInv, TypeOK
    <2> QED BY <1>1, <1>3, <2>1, CheckStep
  <1>4. CASE KickEnd
    BY <1>4, KickEndStep
  <1>5. CASE ~Start /\ ~Check /\ ~KickEnd
    BY <1>5, SearchSteps DEF Quiet
  <1> QED BY <1>2, <1>3, <1>4, <1>5

(* And the books of the program.                                           *)
LEMMA GlobalStep ==
  ASSUME TypeOK, ScoreInv, [Next]_vars
  PROVE  [Global!Next]_<<Kept(best), Measured(bestScore)>>
  <1>0. CASE opts.compareTns
    BY <1>0, OptsKept DEF Measured, Kept
  <1> SUFFICES ASSUME ~opts.compareTns
               PROVE  [Global!Next]_<<Kept(best), Measured(bestScore)>>
    BY <1>0
  <1> USE OptsKept DEF Global!Next, Global!Measure, Global!Improve, Measured, Kept
  <1>1. \A n \in Nat : n # Unknown
    BY PowerOptAssumption
  <1>2. CASE Start
    BY <1>2, StartStep
  <1>3. CASE Check
    BY <1>3, CheckStep
  <1>4. CASE KickEnd
    <2>1. /\ pc # "start" /\ bestScoreLocal \in Score[bestLocal]
          /\ bestScore \in Nat /\ bestLocal \in Sols
      BY <1>4, KickEndStep DEF ScoreInv, TypeOK
    <2> QED BY <1>1, <1>4, <2>1, KickEndStep
  <1>5. CASE ~Start /\ ~Check /\ ~KickEnd
    BY <1>5, SearchSteps DEF Quiet
  <1> QED BY <1>2, <1>3, <1>4, <1>5

(* Unless -compare_tns is on, best_cells_local and best_score_local implement   *)
(* BestSoFar for any repairs and any timer: they change only together, and *)
(* only to a solution measured strictly better.                            *)
THEOREM LocalRefines == Spec => LocalBestSoFar
  <1>1. Init => Local!Init
    BY DEF Init, Local!Init, Measured, Kept
  <1>2. TypeOK /\ ScoreInv /\ [Next]_vars =>
          [Local!Next]_<<Kept(bestLocal), Measured(bestScoreLocal)>>
    BY LocalStep
  <1> QED BY <1>1, <1>2, TypeCorrect, InitScoreInv, NextScoreInv, PTL
          DEF Spec, LocalBestSoFar, Local!Spec

(* So do best_cells_poweropt and best_score, across the kicks.             *)
THEOREM GlobalRefines == Spec => GlobalBestSoFar
  <1>1. Init => Global!Init
    BY DEF Init, Global!Init, Measured, Kept
  <1>2. TypeOK /\ ScoreInv /\ [Next]_vars =>
          [Global!Next]_<<Kept(best), Measured(bestScore)>>
    BY GlobalStep
  <1> QED BY <1>1, <1>2, TypeCorrect, InitScoreInv, NextScoreInv, PTL
          DEF Spec, GlobalBestSoFar, Global!Spec
=============================================================================
