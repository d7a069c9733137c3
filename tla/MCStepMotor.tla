----------------------------- MODULE MCStepMotor ----------------------------
(* Instances of StepMotor for TLC; the .cfg files choose among these sets. *)
EXTENDS StepMotor

(* With buffers of 3 or 4 steps: moves of one step, of less than, exactly  *)
(* and more than one and two buffers, both ways.                           *)
MovesAll == {1, 2, 3, 4, 7, -3, -5}
MovesLive == {1, 3, 5, -5}
NoMoves == {}
Limits == {1, 2}
OneLimit == {2}
Zero == {0}
NoFlags == {}
OneFlag == {{"StopModeCW"}}
=============================================================================
