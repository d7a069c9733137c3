--------------------------- MODULE MCStepPreempt ----------------------------
(* Instances of StepPreempt for TLC.                                       *)
EXTENDS StepPreempt

MovesWhole == {3, -6}
OneLimit == {2}
Zero == {0}
OneFlag == {{"StopModeCW"}}
=============================================================================
