----------------------------- MODULE CameraDevice -----------------------------
(***************************************************************************)
(* The Tizen camera as view.cpp uses it: a handle whose state, preview     *)
(* callback, face detection and hardware effect the application changes by *)
(* calls.  The library is not part of the repository, so every operator    *)
(* here is taken from the calls in src/ and from what they check.  Each    *)
(* call may fail (ok is FALSE): view.cpp logs that or ignores it and goes  *)
(* on.  A call that fails, or that comes in a state that does not allow    *)
(* it, leaves the device as it was.                                        *)
(***************************************************************************)
EXTENDS Naturals

(* "NONE": camera_create never succeeded, the handle is NULL.              *)
(* "DESTROYED": camera_destroy was called, the handle dangles.             *)
CameraState == {"NONE", "CREATED", "PREVIEW", "DESTROYED"}

PreviewCb == {"none", "sticker", "filter"}

Effect == {"NONE", "MONO", "NEGATIVE", "SEPIA"}

Camera == [state : CameraState, cb : PreviewCb, fd : BOOLEAN, effect : Effect]

NoCamera == [state |-> "NONE", cb |-> "none", fd |-> FALSE, effect |-> "NONE"]

NewCamera == [NoCamera EXCEPT !.state = "CREATED"]

Usable(c) == c.state \in {"CREATED", "PREVIEW"}

(* What a caller of camera_get_state finds in its variable: after an error *)
(* what was there before, and that may be anything.                        *)
StateRead(c, ok) == IF Usable(c) /\ ok THEN {c.state} ELSE CameraState

StartPreview(c, ok) ==
  IF c.state = "CREATED" /\ ok THEN [c EXCEPT !.state = "PREVIEW"] ELSE c

StopPreview(c, ok) ==
  IF c.state = "PREVIEW" /\ ok THEN [c EXCEPT !.state = "CREATED"] ELSE c

SetPreviewCb(c, cb, ok) == IF Usable(c) /\ ok THEN [c EXCEPT !.cb = cb] ELSE c

UnsetPreviewCb(c, ok) == IF Usable(c) /\ ok THEN [c EXCEPT !.cb = "none"] ELSE c

(* Detection can be switched only while the preview runs.                  *)
StartFaceDetection(c, ok) ==
  IF c.state = "PREVIEW" /\ ok THEN [c EXCEPT !.fd = TRUE] ELSE c

StopFaceDetection(c, ok) ==
  IF c.state = "PREVIEW" /\ ok THEN [c EXCEPT !.fd = FALSE] ELSE c

SetEffect(c, e, ok) == IF Usable(c) /\ ok THEN [c EXCEPT !.effect = e] ELSE c

Destroy(c) == IF Usable(c) THEN [c EXCEPT !.state = "DESTROYED"] ELSE c

===============================================================================
