---------------------------- MODULE MCServoComm ----------------------------
(* Two servos as in domohelios.cpp, where both are reversed; here the      *)
(* second is not.  Duties live in 2^20 instead of 2^32 values, which leaves*)
(* the wrap below 0 as it is.  MCServoComm.cfg sweeps in three updates of a*)
(* reduced range, the two others in the 25 updates and 3000 duty units of  *)
(* the program.                                                            *)
EXTENDS ServoComm

(* No move between these, or the starting positions, is a multiple of STEPS*)
(* duty units, but what the moves of a round trip lose adds up to nothing, *)
(* so that duties stay few.                                                *)
MCAngles == {0, 51, 132}
(* With these every round trip loses. *)
MCFineAngles == {0, 1, 2, 180}
MCEndAngles == {0, 180}
MCReversed == {1}
MCDutyMod == 2^20
=============================================================================
