----------------------------- MODULE MCStepRamp -----------------------------
(* Instances of StepRamp for TLC.                                          *)
EXTENDS StepRamp

Drive(a, s) == [accel |-> a, speed |-> s]

(* Full speed after 4 to 1358 steps, before and after the first buffers    *)
(* are full, by both curves.                                               *)
FastDrives ==
  {Drive(1000, 400), Drive(1000, 1000), Drive(5000, 1000), Drive(20000, 2000)}

(* Slow enough to need no acceleration.                                    *)
SlowDrives == {Drive(1000, 400), Drive(1000, 20)}

(* Shorter than, equal to and longer than one and two buffers, even and    *)
(* odd, with and without a stretch at full speed.                          *)
SomeLengths == {1, 2, 3, 4, 7, 100, 101, 200, 335}
TwoLengths == {2, 335}
=============================================================================
