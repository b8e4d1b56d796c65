----------------------------- MODULE MCSelfCamera -----------------------------
(***************************************************************************)
(* SelfCamera for TLC.  The sets of calls that may fail in the runs, and   *)
(* the frames the camera delivers.                                         *)
(***************************************************************************)
EXTENDS SelfCamera

NoFaults == {}

(* Detection ends when told to, and a callback is registered.              *)
MostFaults == Fault \ {"stopface", "setcb"}

(* The preview stops when told to.                                         *)
SureStops == Fault \ {"state", "stop"}

StartFault == {"start"}

AllFrames == {"nv12", "padded"}

===============================================================================
