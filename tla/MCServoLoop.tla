---------------------------- MODULE MCServoLoop ----------------------------
(* Small numbers for the runs of ServoLoop: the DAC has 4 steps for 1023, the
   gains are 3 and 1/2 (0.3 in the code) and the brake runs out within the
   speeds the tape can have.                                                 *)
EXTENDS ServoLoop

MCGains == [Kp |-> 6, Ki |-> 1]
MCTension == [m \in Modes |-> [r \in Reels |-> 1]]
MCCvMin == -1

(* The supply or the takeup is ahead, at any tick.                           *)
MCOffsets == {-1, 1}
=============================================================================
