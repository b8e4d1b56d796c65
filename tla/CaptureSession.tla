---------------------------- MODULE CaptureSession ----------------------------
(***************************************************************************)
(* What view.cpp promises its user about taking photos, without frames,    *)
(* faces, stickers or callbacks: a photo is taken of a running preview, on *)
(* request, one at a time; the preview stands still meanwhile, runs again  *)
(* afterwards, and nothing pauses or resumes it in between.  Calls of the  *)
(* camera may fail: two constants tell which promises that takes away.     *)
(* SelfCamera implements it.                                               *)
(***************************************************************************)
CONSTANTS
  Starts,               \* a Boolean: the camera starts and photos are written
  Stops                 \* a Boolean: a preview that is stopped stops

VARIABLES
  ready,                \* the camera was initialised when the view was created
  preview,              \* the preview runs
  pending,              \* a photo was requested
  shooting              \* a photo is being written

vars == <<ready, preview, pending, shooting>>

Init == /\ ready = FALSE
        /\ preview = FALSE
        /\ pending = FALSE
        /\ shooting = FALSE

Open ==
  /\ ~ready /\ ~preview /\ ~shooting
  /\ ready' \in BOOLEAN /\ preview' \in BOOLEAN
  /\ Starts => ready' /\ preview'
  /\ UNCHANGED <<pending, shooting>>

Request ==
  /\ pending' = TRUE
  /\ UNCHANGED <<ready, preview, shooting>>

(* The preview may start again only when no photo is being written.        *)
Shoot ==
  /\ ready /\ preview /\ pending /\ ~shooting
  /\ pending' = FALSE
  /\ preview' \in BOOLEAN
  /\ Stops => ~preview'
  /\ shooting' = TRUE
  /\ UNCHANGED ready

Finish ==
  /\ shooting
  /\ shooting' = FALSE
  /\ preview' \in BOOLEAN
  /\ Starts => preview'
  /\ UNCHANGED <<ready, pending>>

(* A request is dropped only if the camera was never initialised.          *)
Discard ==
  /\ ~ready /\ preview /\ pending
  /\ pending' = FALSE
  /\ UNCHANGED <<ready, preview, shooting>>

Suspend ==
  /\ ~shooting
  /\ preview' \in {FALSE, preview}
  /\ Stops => ~preview'
  /\ UNCHANGED <<ready, pending, shooting>>

Resume ==
  /\ ~shooting
  /\ preview' \in BOOLEAN
  /\ Starts => preview'
  /\ UNCHANGED <<ready, pending, shooting>>

(* The process dies.                                                       *)
Abort ==
  /\ ~Starts
  /\ preview' = FALSE
  /\ shooting' = FALSE
  /\ UNCHANGED <<ready, pending>>

Next == \/ Open \/ Request \/ Shoot \/ Finish \/ Discard
        \/ Suspend \/ Resume \/ Abort

Spec == Init /\ [][Next]_vars

(* What follows: the camera that takes a photo is ready and, if it can be  *)
(* stopped, does not preview, whatever the framework asks meanwhile.       *)
Still == shooting => ready /\ (Stops => ~preview)

(* A request on a running preview is taken up, and what is begun ends.     *)
FairSpec ==
  /\ Spec
  /\ WF_vars(Shoot)
  /\ WF_vars(Finish)

===============================================================================
