---------------------------- MODULE MCJudgePhase ----------------------------
(* JudgePhase for an ordinary row and a second one that is treated         *)
(* differently: a reference row whose first answer has no content.         *)
EXTENDS JudgePhase

CONSTANTS r1, r2

TwoRows   == {r1, r2}
SecondRow == {r2}
=============================================================================
