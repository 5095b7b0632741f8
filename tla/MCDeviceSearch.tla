--------------------------- MODULE MCDeviceSearch ---------------------------
(* Instances of DeviceSearch for TLC.                                      *)
EXTENDS DeviceSearch

\* Two boxes, a box of the model KARTROL, and a timer thread.
CONSTANTS a, b, kartrol, t1

\* Bound: PingTask and the thread of a lone KARTROL are not under way at once;
\* each meets all else that goes on.
MCOneThread == pingTask.pc = "idle" \/ \A t \in Timers : kartrolTimer[t].pc = "idle"
=============================================================================
