----------------------------- MODULE StickerShow -----------------------------
(***************************************************************************)
(* What the sticker button, the gestures and the effect button promise the *)
(* user, without signals, queues, frames, faces or callbacks: one tap is   *)
(* one step among the stickers that have a picture, a gesture is the next  *)
(* one, then a number without a picture, then the end of the stickers, and *)
(* faces are looked for from the tap that chooses a sticker until          *)
(* something ends it.  CameraApp implements it.                            *)
(***************************************************************************)
EXTENDS Integers

CONSTANTS
  MAX_STICKER,          \* even; below it the even numbers have a picture
  Reliable              \* a Boolean: detection starts, a preview is recognised

VARIABLES
  chosen,               \* the sticker's number, 0 for none
  watching,             \* faces are looked for, to put it on
  preview,              \* the preview runs
  loaded,               \* the shape predictor is loaded
  orderly               \* every press on the button ended on it

vars == <<chosen, watching, preview, loaded, orderly>>

Pictures == {s \in 1 .. MAX_STICKER - 1 : s % 2 = 0}

(* What may be chosen; the last number is neither a picture nor none.      *)
Numbers == {0} \cup Pictures \cup {MAX_STICKER}

Init == /\ chosen = 0
        /\ watching = FALSE
        /\ preview = FALSE
        /\ loaded = FALSE
        /\ orderly = TRUE

(* Taps go round and stay among the pictures: only gestures reach the last *)
(* number.  The first tap over a preview starts the search.                *)
Tap ==
  /\ orderly /\ loaded
  /\ chosen' = (chosen + 2) % MAX_STICKER
  /\ watching' \in BOOLEAN
  /\ chosen' = 0 => ~watching'
  /\ Reliable /\ chosen' # 0 => (watching' <=> watching \/ preview)
  /\ UNCHANGED <<preview, loaded, orderly>>

(* A gesture is seen on a face that was found in a preview.                *)
Gesture ==
  /\ orderly /\ loaded /\ preview
  /\ Reliable => watching
  /\ \/ /\ chosen < MAX_STICKER
        /\ chosen' = chosen + 2
        /\ watching' = TRUE
     \/ /\ chosen = MAX_STICKER
        /\ chosen' = 0
        /\ watching' = FALSE
  /\ UNCHANGED <<preview, loaded, orderly>>

(* The effect button ends the search over a preview and keeps the sticker. *)
Recolour ==
  /\ Reliable => preview
  /\ watching' = FALSE
  /\ UNCHANGED <<chosen, preview, loaded, orderly>>

(* The second signal of a tap starts a search that the first could not.    *)
Retry ==
  /\ ~Reliable /\ chosen # 0 /\ preview
  /\ watching' = TRUE
  /\ UNCHANGED <<chosen, preview, loaded, orderly>>

(* Pauses, resumes and captures keep the sticker and the search.           *)
SwitchPreview ==
  /\ preview' \in BOOLEAN
  /\ UNCHANGED <<chosen, watching, loaded, orderly>>

Load ==
  /\ loaded' = TRUE
  /\ UNCHANGED <<chosen, watching, preview, orderly>>

(* A press that ends off the button is half a tap: nothing is promised     *)
(* from then on.                                                           *)
Stray ==
  /\ orderly' = FALSE
  /\ UNCHANGED <<chosen, watching, preview, loaded>>

Disorder ==
  /\ ~orderly
  /\ chosen' \in Numbers
  /\ watching' \in BOOLEAN /\ preview' \in BOOLEAN /\ loaded' \in BOOLEAN
  /\ UNCHANGED orderly

Next == \/ SwitchPreview \/ Load \/ Tap \/ Gesture \/ Recolour \/ Retry
        \/ Stray \/ Disorder

Spec == Init /\ [][Next]_vars

-------------------------------------------------------------------------------
(* What follows from it.                                                   *)

(* No odd number is chosen, and no sticker before the predictor is loaded. *)
ShowSound ==
  /\ chosen \in Numbers
  /\ orderly /\ chosen # 0 => loaded

(* Taps always choose a picture or none: whoever is left without a picture *)
(* though a number is chosen, and faces are looked for, made a gesture     *)
(* over a preview.                                                         *)
BlankByGesture ==
  [][orderly /\ chosen # MAX_STICKER /\ chosen' = MAX_STICKER
       => preview /\ loaded /\ watching']_vars

===============================================================================
