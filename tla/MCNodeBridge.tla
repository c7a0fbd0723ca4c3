---------------------------- MODULE MCNodeBridge ----------------------------
(* Instances of NodeBridge for TLC.                                        *)
EXTENDS NodeBridge, TLC

CONSTANTS o1, o2, r1, r2, r3

TwoOpens == {o1, o2}
TwoAndThree == {o1, o2, r1, r2, r3}
TwoAndTwo == {o1, o2, r1, r2}
Loads == {TRUE}
LoadOrNot == BOOLEAN
=============================================================================
