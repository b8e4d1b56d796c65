----------------------------- MODULE MCCameraApp -----------------------------
(***************************************************************************)
(* CameraApp for TLC: the camera may be missing, no other call fails, and  *)
(* every frame may carry a sticker.                                        *)
(***************************************************************************)
EXTENDS CameraApp

CreateFault == {"create"}

OneFrame == {"nv12"}

===============================================================================
