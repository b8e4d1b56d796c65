------------------------------- MODULE MCPhotos -------------------------------
(***************************************************************************)
(* Photos for TLC: the camera folder, one whose name begins like it, and   *)
(* one that sorts before it.                                               *)
(***************************************************************************)
EXTENDS Photos

ThreeFolders == {"Downloads", "Images", "ImagesOld"}

SearchFaults == Fault

NameFault == {"name"}

===============================================================================
