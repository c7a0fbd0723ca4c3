---------------------------- MODULE MCEventPipe ----------------------------
(* An instance of EventPipe for TLC: three calls from other threads, one   *)
(* from the event thread, a pipe of three cells, so that a writer blocks   *)
(* between its two writes.                                                 *)
EXTENDS EventPipe, TLC

CONSTANTS c1, c2, c3, d1

ThreeCalls == {c1, c2, c3}
OneDirect == {d1}
=============================================================================
