------------------------------ MODULE MCClimb ------------------------------
(* Climb for two models and three sets on two levels, the first of which   *)
(* has two questions, one judged.                                          *)
EXTENDS Climb, TLC

CONSTANTS l1, l2, s1, s2, s3, j1, j2, j3, j4

TwoLabels  == {l1, l2}
ThreeSets  == {s1, s2, s3}
TwoLevels  == [s \in ThreeSets |-> IF s = s3 THEN 2 ELSE 1]
Questions  == [s \in ThreeSets |-> CASE s = s1 -> {j1, j2}
                                     [] s = s2 -> {j3}
                                     [] s = s3 -> {j4}]
Judgeds    == {j1, j4}

LabelSymmetry == Permutations(TwoLabels)

ASSUME McRounds == EnoughRounds
=============================================================================
