---------------------------- MODULE CameraThreads ----------------------------
(***************************************************************************)
(* SelfCamera/src/view.cpp if the camera calls back in a thread of its     *)
(* own.  The repository does not say that it does not, and no lock guards  *)
(* s_info: the handlers of the main loop and the preview callback then     *)
(* interleave at every call of the camera and at every access of a shared  *)
(* field.  A step here is one such call or access; at says where the two   *)
(* threads stand.  view_pause and view_resume run in both.                 *)
(*                                                                         *)
(* What the threads do not change is left to SelfCamera: filters and       *)
(* effects, failures of camera_create and camera_get_state, how a gesture  *)
(* is recognised, and the sticker's number: here it is zero or not, and    *)
(* whether a step beyond it goes round is open.                            *)
(***************************************************************************)
EXTENDS CameraDevice

CONSTANTS
  MaxFaces,             \* bound: faces the camera reports at once
  Faults                \* the calls that may fail

Fault == {"start", "stop", "facedetect", "stopface", "setcb", "unsetcb", "encode", "model"}

ASSUME ThreadsAssumption ==
  /\ MaxFaces \in Nat
  /\ Faults \subseteq Fault

VARIABLES
  lifecycle,            \* what the application framework has called last
  loader,               \* the thread that runs load_shape_predictor
  fin,                  \* the s_info fields, named as in the source
  selected,             \* s_info.sticker is not zero
  flag_capturing,
  flag_facerunning,
  faces,                \* length of s_info.faces
  cam,                  \* the camera behind s_info.camera
  at,                   \* where the main loop and the preview callback stand
  idx,                  \* the face the callback is at, counted from 1
  count                 \* the number of faces in its copy of the list

Thread == {"main", "camera"}

lifeVars == <<lifecycle, loader, fin>>
infoVars == <<selected, flag_capturing, flag_facerunning, faces>>
loopVars == <<idx, count>>
vars == <<lifeVars, infoVars, cam, at, loopVars>>

Oks(call) == IF call \in Faults THEN BOOLEAN ELSE {TRUE}

Alive == lifecycle \in {"created", "resumed", "paused"}

-------------------------------------------------------------------------------
(* The steps a thread is made of.                                          *)

Goto(t, label) == at' = [at EXCEPT ![t] = label]

(* A test of a shared field or of the camera's state.                      *)
Test(t, from, yes, no, condition) ==
  /\ at[t] = from
  /\ Goto(t, IF condition THEN yes ELSE no)
  /\ UNCHANGED <<lifeVars, infoVars, cam, loopVars>>

(* A call of the camera.                                                   *)
Call(t, from, to, camera) ==
  /\ at[t] = from
  /\ cam' = camera
  /\ Goto(t, to)
  /\ UNCHANGED <<lifeVars, infoVars, loopVars>>

(* Stores to the two fields that both threads write.                       *)
SetSticker(t, from, to, some) ==
  /\ at[t] = from
  /\ selected' = some
  /\ Goto(t, to)
  /\ UNCHANGED <<lifeVars, flag_capturing, flag_facerunning, faces, cam, loopVars>>

SetRunning(t, from, to, value) ==
  /\ at[t] = from
  /\ flag_facerunning' = value
  /\ Goto(t, to)
  /\ UNCHANGED <<lifeVars, selected, flag_capturing, faces, cam, loopVars>>

-------------------------------------------------------------------------------
(* view_pause and view_resume.                                             *)

(* Who called view_pause: app_pause, _main_view_destroy_cb, or a capture.  *)
AfterPause(t) == IF t = "camera" THEN "encode"
                 ELSE IF lifecycle = "terminated" THEN "destroy" ELSE "idle"

ForgetFaces(t) ==
  /\ at[t] = "forget faces"
  /\ faces' = 0
  /\ Goto(t, AfterPause(t))
  /\ UNCHANGED <<lifeVars, selected, flag_capturing, flag_facerunning, cam, loopVars>>

ViewPause(t) ==
  \/ Test(t, "pause", "pause detection", AfterPause(t), cam.state = "PREVIEW")
  \/ \E ok \in Oks("stopface") :
       Call(t, "pause detection", "pause preview", StopFaceDetection(cam, ok))
  \/ \E ok \in Oks("stop") :
       Call(t, "pause preview", "forget faces", StopPreview(cam, ok))
  \/ ForgetFaces(t)

(* Mutant of RestartPreview: the second start is missing.                  *)
RestartPreviewOnce(t) ==
  \/ \E ok \in Oks("unsetcb") : Call(t, "unset", "stop", UnsetPreviewCb(cam, ok))
  \/ \E ok \in Oks("stop")  : Call(t, "stop", "start", StopPreview(cam, ok))
  \/ \E ok \in Oks("start") : Call(t, "start", "stop again", StartPreview(cam, ok))
  \/ \E ok \in Oks("stop")  : Call(t, "stop again", "detecting", StopPreview(cam, ok))

(* "stop->start -> stop -> start preview": a workaround for a brightness   *)
(* that is otherwise not shown.                                            *)
RestartPreview(t) ==
  \/ \E ok \in Oks("unsetcb") : Call(t, "unset", "stop", UnsetPreviewCb(cam, ok))
  \/ \E ok \in Oks("stop")  : Call(t, "stop", "start", StopPreview(cam, ok))
  \/ \E ok \in Oks("start") : Call(t, "start", "stop again", StartPreview(cam, ok))
  \/ \E ok \in Oks("stop")  : Call(t, "stop again", "start again", StopPreview(cam, ok))
  \/ \E ok \in Oks("start") : Call(t, "start again", "detecting", StartPreview(cam, ok))

(* Mutant of RegisterCallback: none is set without a sticker.              *)
RegisterStickerOnly(t) ==
  \/ Test(t, "choose", "set sticker", "idle", selected)
  \/ \E ok \in Oks("setcb") : Call(t, "set sticker", "idle", SetPreviewCb(cam, "sticker", ok))

(* The callback that fits the sticker.                                     *)
RegisterCallback(t) ==
  \/ Test(t, "choose", "set sticker", "set filter", selected)
  \/ \E ok \in Oks("setcb") : Call(t, "set sticker", "idle", SetPreviewCb(cam, "sticker", ok))
  \/ \E ok \in Oks("setcb") : Call(t, "set filter", "idle", SetPreviewCb(cam, "filter", ok))

(* Restarts a preview that does not run, then detection if the flag is     *)
(* set, then registers a callback.                                         *)
ViewResume(t) ==
  \/ Test(t, "resume", "unset", "idle", cam.state = "CREATED")
  \/ RestartPreview(t)
  \/ Test(t, "detecting", "detect", "choose", flag_facerunning)
  \/ \E ok \in Oks("facedetect") : Call(t, "detect", "choose", StartFaceDetection(cam, ok))
  \/ RegisterCallback(t)

-------------------------------------------------------------------------------
(* The main loop.                                                          *)

(* view_create has created the camera and initialises it.                  *)
Init ==
  /\ lifecycle = "start"
  /\ loader = "idle"
  /\ fin = 0
  /\ selected = FALSE
  /\ flag_capturing = FALSE
  /\ flag_facerunning = FALSE
  /\ faces = 0
  /\ cam = NewCamera
  /\ at = [t \in Thread |-> IF t = "main" THEN "resume" ELSE "idle"]
  /\ idx = 1
  /\ count = 0

(* view_create ends and starts the loader.                                 *)
Created ==
  /\ lifecycle = "start" /\ at["main"] = "idle"
  /\ lifecycle' = "created"
  /\ loader' = "loading"
  /\ UNCHANGED <<fin, infoVars, cam, at, loopVars>>

(* The framework calls app_resume, app_pause, or has the window deleted.   *)
FrameworkCalls(from, to, handler) ==
  /\ lifecycle \in from /\ at["main"] = "idle"
  /\ lifecycle' = to
  /\ Goto("main", handler)
  /\ UNCHANGED <<loader, fin, infoVars, cam, loopVars>>

AppResume == FrameworkCalls({"created", "paused"}, "resumed", "resume")
AppPause == FrameworkCalls({"resumed"}, "paused", "pause")
AppTerminate == FrameworkCalls({"created", "resumed", "paused"}, "terminated", "pause")

(* What _main_view_destroy_cb does after view_pause.                       *)
DestroyCamera == Call("main", "destroy", "idle", Destroy(cam))

ShutterButton ==
  /\ Alive /\ at["main"] = "idle"
  /\ flag_capturing' = TRUE
  /\ UNCHANGED <<lifeVars, selected, flag_facerunning, faces, cam, at, loopVars>>

(* _main_view_effect_button_cb gives up detection over a preview and, with *)
(* a sticker selected, its callback.                                       *)
EffectButton ==
  \/ Alive /\ Test("main", "idle", "effect", "idle", cam.state = "PREVIEW")
  \/ Test("main", "effect", "effect off", "idle", flag_facerunning)
  \/ \E ok \in Oks("stopface") :
       Call("main", "effect off", "effect flag", StopFaceDetection(cam, ok))
  \/ SetRunning("main", "effect flag", "effect sticker", FALSE)
  \/ Test("main", "effect sticker", "effect unset", "idle", selected)
  \/ \E ok \in Oks("unsetcb") :
       Call("main", "effect unset", "effect set", UnsetPreviewCb(cam, ok))
  \/ \E ok \in Oks("setcb") :
       Call("main", "effect set", "idle", SetPreviewCb(cam, "filter", ok))

(* Mutant of PredictorReady: stickers without waiting for the loader.      *)
NoWait == TRUE

(* "sp is not unloaded": the early return of the sticker button.           *)
PredictorReady == fin = 1

(* _main_view_sticker_button_cb advances the sticker, in two stores that   *)
(* do not see what the other thread stores meanwhile; registers the        *)
(* callback of a sticker; ends detection for none, or starts it if the     *)
(* flag is not set.                                                        *)
StickerButton ==
  \/ Alive /\ PredictorReady /\ Test("main", "idle", "sticker next", "sticker first", selected)
  \/ SetSticker("main", "sticker first", "sticker chosen", TRUE)
  \/ SetSticker("main", "sticker next", "sticker wrap", TRUE)
  \/ \E some \in BOOLEAN : SetSticker("main", "sticker wrap", "sticker chosen", some)
  \/ Test("main", "sticker chosen", "sticker unset", "sticker none", selected)
  \/ \E ok \in Oks("unsetcb") :
       Call("main", "sticker unset", "sticker set", UnsetPreviewCb(cam, ok))
  \/ \E ok \in Oks("setcb") :
       Call("main", "sticker set", "sticker none", SetPreviewCb(cam, "sticker", ok))
  \/ Test("main", "sticker none", "sticker flag", "sticker end", selected)
  \/ Test("main", "sticker end", "sticker off", "sticker flag", flag_facerunning)
  \/ \E ok \in Oks("stopface") :
       Call("main", "sticker off", "sticker clear", StopFaceDetection(cam, ok))
  \/ SetRunning("main", "sticker clear", "idle", FALSE)
  \/ Test("main", "sticker flag", "idle", "sticker start", flag_facerunning)
  \/ \E ok \in Oks("facedetect") :
       Call("main", "sticker start",
            IF ok /\ cam.state = "PREVIEW" THEN "sticker mark" ELSE "idle",
            StartFaceDetection(cam, ok))
  \/ SetRunning("main", "sticker mark", "idle", TRUE)

MainLoop ==
  \/ ViewPause("main") \/ ViewResume("main")
  \/ Created \/ AppResume \/ AppPause \/ AppTerminate \/ DestroyCamera
  \/ ShutterButton \/ EffectButton \/ StickerButton

-------------------------------------------------------------------------------
(* The loader.                                                             *)

(* load_shape_predictor up to its synchronous call into the main loop.     *)
LoadModel ==
  /\ loader = "loading"
  /\ loader' = "calling"
  /\ UNCHANGED <<lifecycle, fin, infoVars, cam, at, loopVars>>

(* dlib throws and nobody catches it: the process ends.                    *)
LoadModelFails ==
  /\ loader = "loading" /\ Alive
  /\ FALSE \in Oks("model")
  /\ loader' = "done"
  /\ lifecycle' = "aborted"
  /\ cam' = NoCamera
  /\ at' = [t \in Thread |-> "idle"]
  /\ UNCHANGED <<fin, infoVars, loopVars>>

(* enable_sticker, run by the main loop.                                   *)
EnableSticker ==
  /\ loader = "calling" /\ Alive /\ at["main"] = "idle"
  /\ loader' = "done"
  /\ fin' = 1
  /\ UNCHANGED <<lifecycle, infoVars, cam, at, loopVars>>

-------------------------------------------------------------------------------
(* The camera's thread.                                                    *)

(* _camera_face_detected_cb replaces the list of faces, also while a frame *)
(* is being worked on.                                                     *)
FaceDetected ==
  /\ cam.state = "PREVIEW" /\ cam.fd
  /\ faces' \in 0 .. MaxFaces
  /\ UNCHANGED <<lifeVars, selected, flag_capturing, flag_facerunning, cam, at, loopVars>>

(* A frame for the registered callback.                                    *)
Frame ==
  \/ cam.state = "PREVIEW" /\ cam.cb = "sticker" /\ Test("camera", "idle", "frame", "", TRUE)
  \/ cam.state = "PREVIEW" /\ cam.cb = "filter" /\ Test("camera", "idle", "request", "", TRUE)

(* The copy of the list; face_landmark returns at once from a frame whose  *)
(* luma plane is padded.                                                   *)
CopyFaces ==
  /\ at["camera"] = "copy"
  /\ idx' = 1
  /\ count' = faces
  /\ \/ faces > 0 /\ Goto("camera", "face")
     \/ Goto("camera", "request")
  /\ UNCHANGED <<lifeVars, infoVars, cam>>

(* Mutant of NextFace: i <= count.                                         *)
NextFaceTooFar ==
  IF idx <= count
  THEN Goto("camera", "face") /\ idx' = idx + 1 /\ UNCHANGED count
  ELSE Goto("camera", "request") /\ idx' = 1 /\ count' = 0

(* The end of a round of face_landmark's loop.                             *)
NextFace ==
  IF idx < count
  THEN Goto("camera", "face") /\ idx' = idx + 1 /\ UNCHANGED count
  ELSE Goto("camera", "request") /\ idx' = 1 /\ count' = 0

(* A round of the loop, the first one perhaps with an open mouth.          *)
Round ==
  /\ at["camera"] \in {"face", "mouth"}
  /\ \/ UNCHANGED flag_capturing
     \/ idx = 1 /\ flag_capturing' = TRUE
  /\ NextFace
  /\ UNCHANGED <<lifeVars, selected, flag_facerunning, faces, cam>>

(* A nose gesture advances the sticker; past the last one it ends stickers *)
(* and detection.                                                          *)
NoseGesture ==
  \/ idx = 1 /\ SetSticker("camera", "face", "bound", TRUE)
  \/ \E past \in BOOLEAN : Test("camera", "bound", "nose end", "mouth", past)
  \/ SetSticker("camera", "nose end", "nose off", FALSE)
  \/ \E ok \in Oks("stopface") :
       Call("camera", "nose off", "nose flag", StopFaceDetection(cam, ok))
  \/ SetRunning("camera", "nose flag", "mouth", FALSE)

(* The request is consumed, and _main_view_mycapture_cb begins.            *)
TakeRequest ==
  /\ at["camera"] = "take"
  /\ flag_capturing' = FALSE
  /\ Goto("camera", "pause")
  /\ UNCHANGED <<lifeVars, selected, flag_facerunning, faces, cam, loopVars>>

Encode ==
  \E ok \in Oks("encode") : Test("camera", "encode", "resume", "idle", ok)

PreviewCallback ==
  \/ Frame \/ CopyFaces \/ Round \/ NoseGesture \/ TakeRequest \/ Encode
  \/ Test("camera", "frame", "copy", "request", flag_facerunning)
  \/ Test("camera", "request", "take", "idle", flag_capturing)
  \/ ViewPause("camera") \/ ViewResume("camera")

-------------------------------------------------------------------------------

Next == \/ MainLoop \/ LoadModel \/ LoadModelFails \/ EnableSticker
        \/ FaceDetected \/ PreviewCallback

Spec == Init /\ [][Next]_vars

(* A handler that has begun runs on; so does the callback, and a camera    *)
(* that previews again and again delivers frames, however often a button   *)
(* takes the callback away for a moment.                                   *)
FairSpec ==
  /\ Spec
  /\ WF_vars(at["main"] # "idle" /\ MainLoop)
  /\ SF_vars(PreviewCallback)

-------------------------------------------------------------------------------
(* Properties.                                                             *)

(* Labels, by the thread that may stand at them.                           *)
PauseLabel == {"pause", "pause detection", "pause preview", "forget faces"}
RestartLabel == {"unset", "stop", "start", "stop again", "start again"}
ResumeLabel == RestartLabel \cup {"resume", "detecting", "detect", "choose",
                                  "set sticker", "set filter"}
EffectLabel == {"effect", "effect off", "effect flag", "effect sticker",
                "effect unset", "effect set"}
StickerLabel == {"sticker first", "sticker next", "sticker wrap", "sticker chosen",
                 "sticker unset", "sticker set", "sticker none", "sticker end",
                 "sticker off", "sticker clear", "sticker flag", "sticker start",
                 "sticker mark"}
LoopLabel == {"face", "bound", "nose end", "nose off", "nose flag", "mouth"}
MainLabel == PauseLabel \cup ResumeLabel \cup EffectLabel \cup StickerLabel
               \cup {"idle", "destroy"}
CameraLabel == PauseLabel \cup ResumeLabel \cup LoopLabel
                 \cup {"idle", "frame", "copy", "request", "take", "encode"}

(* Each variable has its type and each thread stands at one of its labels. *)
ThreadsTypeOK ==
  /\ lifecycle \in {"start", "created", "resumed", "paused", "terminated", "aborted"}
  /\ loader \in {"idle", "loading", "calling", "done"}
  /\ fin \in {0, 1}
  /\ selected \in BOOLEAN
  /\ flag_capturing \in BOOLEAN /\ flag_facerunning \in BOOLEAN
  /\ faces \in 0 .. MaxFaces
  /\ cam \in Camera
  /\ at \in [Thread -> MainLabel \cup CameraLabel]
  /\ at["main"] \in MainLabel /\ at["camera"] \in CameraLabel
  /\ idx \in {1} \cup 1 .. MaxFaces
  /\ count \in 0 .. MaxFaces

(* The preview callback evaluates the shape predictor only when the loader *)
(* has finished deserialising it: what keeps the two apart is fin, tested  *)
(* by the sticker button in a third thread, and the flag it sets later.    *)
PredictorLoaded == at["camera"] \in LoopLabel => loader \in {"calling", "done"}

(* Between unsetting the callback and setting one: view_resume, in either  *)
(* thread, and the effect and sticker buttons.                             *)
Rewiring == (ResumeLabel \ {"resume", "unset"}) \cup {"effect set", "sticker set"}

(* A running preview has a callback, or the shutter would be dead, except  *)
(* while a thread that took it away is about to set one: however the four  *)
(* places that do so interleave, the last one leaves a callback.           *)
PreviewHasCallback ==
  cam.state = "PREVIEW" /\ cam.cb = "none" => \E t \in Thread : at[t] \in Rewiring

(* An application in front previews whenever both threads are done,        *)
(* although a capture's view_pause and view_resume may interleave, call by *)
(* call, with those of the framework.                                      *)
PreviewRestored ==
  lifecycle \in {"created", "resumed"} /\ (\A t \in Thread : at[t] = "idle")
    => cam.state = "PREVIEW"

(* "Called on app_pause app event. Stops camera preview." of view_pause:   *)
(* no preview runs in a paused application when both threads are done.     *)
PauseStopsPreview ==
  lifecycle = "paused" /\ (\A t \in Thread : at[t] = "idle") => cam.state # "PREVIEW"

(* face_landmark indexes s_info.faces with an index bounded by the length  *)
(* of a copy taken earlier: the list must not have shrunk since.           *)
FacesInBounds == at["camera"] \in LoopLabel => idx <= count /\ count <= faces

(* A request for a photo is consumed, unless the application leaves the    *)
(* front first, however buttons, pauses and captures interleave.           *)
RequestServed == flag_capturing ~> (~flag_capturing \/ lifecycle # "resumed")

===============================================================================
