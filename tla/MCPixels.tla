------------------------------- MODULE MCPixels -------------------------------
(* Pixels for TLC.                                                         *)
EXTENDS Pixels
===============================================================================
