------------------------------ MODULE SelfCamera ------------------------------
(***************************************************************************)
(* The camera side of SelfCamera/src/view.cpp: the application life cycle, *)
(* the thread that loads the shape predictor, the buttons, the face        *)
(* detection callback and the preview callbacks with the capture they      *)
(* perform.  All of them share the one static struct s_info.               *)
(*                                                                         *)
(* Threads of control.  The main loop runs the life-cycle callbacks, the   *)
(* buttons, enable_sticker and, here, the callbacks of the camera: nothing *)
(* else of it runs until a callback has returned.  The repository does not *)
(* say where the camera runs its callbacks; CameraThreads has them in a    *)
(* thread of their own.  The loader is an Ecore thread.                    *)
(*                                                                         *)
(* A preview callback is one step per point at which it reads shared state *)
(* again: delivery of the frame, each face, a gesture's new sticker, the   *)
(* filter, the capture flag, the encoding and the restart of the preview.  *)
(* Every other handler is one step.  A frame in an unsupported format      *)
(* changes nothing, so it is a stuttering step.  The handler of            *)
(* "camera_change_clicked" is left out: no program of the layout emits     *)
(* that signal, and nothing reads the field it would toggle.               *)
(***************************************************************************)
EXTENDS CameraDevice

CONSTANTS
  MAX_STICKER,          \* number of the last sticker (even), 10 in the source
  MAX_FILTER,           \* number of filters, 14 in the source
  TIMER,                \* reload value of s_info.timer, 8 in the source
  MaxFaces,             \* bound: faces the camera reports at once
  FrameKinds,           \* frames the camera delivers
  Faults                \* the calls that may fail

(* Named after the call: camera_get_state is "state", and so on.           *)
Fault == {"create", "display", "state", "start", "stop", "facedetect", "stopface",
          "setcb", "unsetcb", "effect", "encode", "model"}

ASSUME ConstantsAssumption ==
  /\ MAX_STICKER \in Nat /\ MAX_STICKER >= 2
  /\ MAX_FILTER \in Nat /\ MAX_FILTER >= 2
  /\ TIMER \in Nat
  /\ MaxFaces \in Nat
  /\ FrameKinds \subseteq {"nv12", "padded"}
  /\ Faults \subseteq Fault

VARIABLES
  lifecycle,         \* what the application framework has called last
  loader,            \* the thread that runs load_shape_predictor
  cam,               \* the camera behind s_info.camera
  camera_enabled,    \* the s_info fields, named as in the source
  fin,
  sticker,
  filter,
  motion,
  timer,
  nose,              \* both coordinates of s_info.nose are non-zero
  flag_capturing,
  flag_facerunning,
  faces,             \* length of s_info.faces
  pc,                \* where the preview callback stands
  idx,               \* the face it is at, counted from 1
  count              \* the number of faces it saw when it started

buttonVars == <<sticker, filter, motion>>
gestureVars == <<timer, nose>>
flagVars == <<flag_capturing, flag_facerunning>>
frameVars == <<pc, idx, count>>
startVars == <<lifecycle, loader, camera_enabled, fin>>

vars == <<startVars, cam, buttonVars, gestureVars, flagVars, faces, frameVars>>

-------------------------------------------------------------------------------

(* Mutant of SoftFilters: sepia is recoloured as well.                     *)
SoftFiltersFromThree == 3 .. MAX_FILTER - 2

(* The filters that apply_filter computes in software; 0 to 3 are hardware *)
(* effects and the last one is in no case of either switch.                *)
SoftFilters == 4 .. MAX_FILTER - 2

HwEffect == <<"MONO", "NEGATIVE", "SEPIA">>

(* The hardware effect of the filters 0 to 3.                              *)
EffectOf(f) == IF f = 0 THEN "NONE" ELSE HwEffect[f]

(* How a call may end, and how each of several calls may.                  *)
Oks(call) == IF call \in Faults THEN BOOLEAN ELSE {TRUE}

Outcomes(calls) == {ok \in [calls -> BOOLEAN] : \A call \in calls \ Faults : ok[call]}

PauseCalls == {"state", "stopface", "stop"}

ResumeCalls == {"state", "unsetcb", "stop", "start", "facedetect", "setcb"}

EffectCalls == {"state", "stopface", "unsetcb", "setcb", "effect"}

StickerCalls == {"unsetcb", "setcb", "stopface", "facedetect"}

MainLoopFree == pc = "idle"

Alive == lifecycle \in {"created", "resumed", "paused"}

(* Mutant of CallbackFor: every resume goes back to the filters.           *)
AlwaysFilter(s) == "filter"

(* The preview callback that view_resume registers for sticker s.          *)
CallbackFor(s) == IF s # 0 THEN "sticker" ELSE "filter"

(* Mutant of Paused: the preview is not stopped.                           *)
PausedKeepsPreview(c, ok) == StopFaceDetection(c, ok["stopface"])

(* view_pause: stops detection and preview, unless the state cannot be     *)
(* read or no preview runs.                                                *)
Paused(c, ok) ==
  IF c.state = "PREVIEW" /\ ok["state"]
  THEN StopPreview(StopFaceDetection(c, ok["stopface"]), ok["stop"]) ELSE c

(* It then forgets the faces, also when the preview did not stop.          *)
FacesAfterPause(c, ok) == IF c.state = "PREVIEW" /\ ok["state"] THEN 0 ELSE faces

(* Mutant of Resumed: the second start is missing.                         *)
ResumedOnce(c, ok) ==
  SetPreviewCb(StopPreview(StartPreview(c, ok["start"]), ok["stop"]),
               CallbackFor(sticker), ok["setcb"])

(* Mutant of Resumed: the callback that was unset is not set again.        *)
ResumedUnregistered(c, ok) ==
  IF c.state = "CREATED" /\ ok["state"]
  THEN StartPreview(UnsetPreviewCb(c, ok["unsetcb"]), ok["start"]) ELSE c

(* view_resume: restarts a preview that does not run, then detection if it *)
(* was on, then registers the callback that fits the sticker.  The preview *)
(* is stopped, started, stopped and started.  Both starts, and both stops, *)
(* share an outcome: whichever of them fail, a preview runs in the end or  *)
(* does not, and both of that can come of one start that fails.            *)
Resumed(c, ok) ==
  LET silent  == UnsetPreviewCb(c, ok["unsetcb"])
      warm    == StartPreview(StopPreview(silent, ok["stop"]), ok["start"])
      started == StartPreview(StopPreview(warm, ok["stop"]), ok["start"])
      watched == IF flag_facerunning
                 THEN StartFaceDetection(started, ok["facedetect"]) ELSE started
  IN  IF c.state = "CREATED" /\ ok["state"]
      THEN SetPreviewCb(watched, CallbackFor(sticker), ok["setcb"])
      ELSE c

ViewResume == \E ok \in Outcomes(ResumeCalls) : cam' = Resumed(cam, ok)

ViewPause == \E ok \in Outcomes(PauseCalls) :
               /\ cam' = Paused(cam, ok)
               /\ faces' = FacesAfterPause(cam, ok)

-------------------------------------------------------------------------------

Init ==
  /\ lifecycle = "start"
  /\ loader = "idle"
  /\ cam = NoCamera
  /\ camera_enabled = FALSE
  /\ fin = 0
  /\ sticker = 0
  /\ filter = 0
  /\ motion = 0
  /\ timer = TIMER
  /\ nose = FALSE
  /\ flag_capturing = FALSE
  /\ flag_facerunning = FALSE
  /\ faces = 0
  /\ pc = "idle"
  /\ idx = 1
  /\ count = 0

-------------------------------------------------------------------------------
(* The application life cycle.                                             *)

(* _main_view_init_camera, called by _main_view_add: its result is         *)
(* camera_enabled, and that of view_resume whether it could read a state.  *)
InitCamera ==
  \/ /\ FALSE \in Oks("create")
     /\ cam' = NoCamera
     /\ camera_enabled' = FALSE
  \/ /\ FALSE \in Oks("display")
     /\ cam' = NewCamera
     /\ camera_enabled' = FALSE
  \/ \E ok \in Outcomes(ResumeCalls) :
       /\ cam' = Resumed(NewCamera, ok)
       /\ camera_enabled' = ok["state"]

(* view_create: builds the view, then starts the loader.                   *)
AppCreate ==
  /\ lifecycle = "start"
  /\ lifecycle' = "created"
  /\ InitCamera
  /\ loader' = "loading"
  /\ UNCHANGED <<fin, buttonVars, gestureVars, flagVars, faces, frameVars>>

AppResume ==
  /\ lifecycle \in {"created", "paused"}
  /\ MainLoopFree
  /\ lifecycle' = "resumed"
  /\ ViewResume
  /\ UNCHANGED <<loader, camera_enabled, fin, buttonVars, gestureVars, flagVars,
                 faces, frameVars>>

AppPause ==
  /\ lifecycle = "resumed"
  /\ MainLoopFree
  /\ lifecycle' = "paused"
  /\ ViewPause
  /\ UNCHANGED <<loader, camera_enabled, fin, buttonVars, gestureVars, flagVars,
                 frameVars>>

(* view_destroy deletes the window; freeing the layout calls               *)
(* _main_view_destroy_cb, which pauses and destroys the camera.  Whether   *)
(* that succeeds makes no difference, the application ends.                *)
AppTerminate ==
  /\ Alive
  /\ MainLoopFree
  /\ lifecycle' = "terminated"
  /\ \E ok \in Outcomes(PauseCalls) :
       /\ cam' = Destroy(Paused(cam, ok))
       /\ faces' = FacesAfterPause(cam, ok)
  /\ UNCHANGED <<loader, camera_enabled, fin, buttonVars, gestureVars, flagVars,
                 frameVars>>

-------------------------------------------------------------------------------
(* The loader thread.                                                      *)

(* Mutant of LoadModel: the main loop is not told.                         *)
LoadModelSilently ==
  /\ loader = "loading"
  /\ loader' = "done"
  /\ UNCHANGED <<lifecycle, camera_enabled, fin, cam, buttonVars, gestureVars,
                 flagVars, faces, frameVars>>

(* load_shape_predictor up to the synchronous call into the main loop.     *)
LoadModel ==
  /\ loader = "loading"
  /\ loader' = "calling"
  /\ UNCHANGED <<lifecycle, camera_enabled, fin, cam, buttonVars, gestureVars,
                 flagVars, faces, frameVars>>

(* dlib throws on a file it cannot read and nobody catches it.             *)
LoadModelFails ==
  /\ loader = "loading"
  /\ FALSE \in Oks("model")
  /\ Alive
  /\ loader' = "done"
  /\ lifecycle' = "aborted"
  /\ cam' = NoCamera
  /\ pc' = "idle"
  /\ UNCHANGED <<camera_enabled, fin, buttonVars, gestureVars, flagVars, faces,
                 idx, count>>

(* enable_sticker, run by the main loop on behalf of the waiting loader.   *)
EnableSticker ==
  /\ loader = "calling"
  /\ Alive
  /\ MainLoopFree
  /\ loader' = "done"
  /\ fin' = 1
  /\ UNCHANGED <<lifecycle, camera_enabled, cam, buttonVars, gestureVars, flagVars,
                 faces, frameVars>>

-------------------------------------------------------------------------------
(* The buttons.                                                            *)

Touchable == Alive /\ MainLoopFree

ShutterButton ==
  /\ Touchable
  /\ camera_enabled
  /\ flag_capturing' = TRUE
  /\ UNCHANGED <<startVars, cam, buttonVars, gestureVars, flag_facerunning, faces,
                 frameVars>>

(* Mutant of NextFilter: without the modulus.                              *)
NextFilterUnwrapped(f) == f + 1

NextFilter(f) == (f + 1) % MAX_FILTER

(* Mutant of EffectCamera: only the flag is cleared.                       *)
EffectCameraKeepsDetection(stop, f, ok) ==
  IF f \in 0 .. 3 THEN SetEffect(cam, EffectOf(f), ok["effect"]) ELSE cam

(* The camera after _main_view_effect_button_cb: it gives up the sticker   *)
(* callback if detection was running, then sets a hardware effect.         *)
EffectCamera(stop, f, ok) ==
  LET off   == IF stop THEN StopFaceDetection(cam, ok["stopface"]) ELSE cam
      plain == IF stop /\ sticker # 0
               THEN SetPreviewCb(UnsetPreviewCb(off, ok["unsetcb"]), "filter", ok["setcb"])
               ELSE off
  IN  IF f \in 0 .. 3 THEN SetEffect(plain, EffectOf(f), ok["effect"]) ELSE plain

(* The local variable "state" is not initialised, and nobody looks whether *)
(* camera_get_state failed: any value may be read then.                    *)
EffectButton ==
  /\ Touchable
  /\ filter' = NextFilter(filter)
  /\ \E ok \in Outcomes(EffectCalls) : \E state \in StateRead(cam, ok["state"]) :
       LET stop == state = "PREVIEW" /\ flag_facerunning
       IN  /\ cam' = EffectCamera(stop, filter', ok)
           /\ flag_facerunning' = (flag_facerunning /\ ~stop)
  /\ UNCHANGED <<startVars, sticker, motion, gestureVars, flag_capturing,
                 faces, frameVars>>

(* Mutant of StickerCamera: the callback is unset for sticker 0 too.       *)
StickerCameraAlwaysUnset(s, ok) ==
  IF s # 0 THEN SetPreviewCb(UnsetPreviewCb(cam, ok["unsetcb"]), "sticker", ok["setcb"])
  ELSE UnsetPreviewCb(cam, ok["unsetcb"])

(* Mutant of PredictorReady: stickers without waiting for the loader.      *)
NoWait == TRUE

(* The early return of the sticker button: "sp is not unloaded".           *)
PredictorReady == fin = 1

(* A sticker needs its callback; for sticker 0 the callback stays.         *)
StickerCamera(s, ok) ==
  IF s # 0 THEN SetPreviewCb(UnsetPreviewCb(cam, ok["unsetcb"]), "sticker", ok["setcb"])
  ELSE cam

StickerButton ==
  /\ Touchable
  /\ PredictorReady
  /\ sticker' = (sticker + 1) % MAX_STICKER
  /\ \E ok \in Outcomes(StickerCalls) :
       LET c == StickerCamera(sticker', ok)
       IN  \/ /\ sticker' = 0 /\ flag_facerunning
              /\ cam' = StopFaceDetection(c, ok["stopface"])
              /\ flag_facerunning' = FALSE
           \/ /\ sticker' # 0 /\ flag_facerunning
              /\ cam' = c
              /\ UNCHANGED flag_facerunning
           \/ /\ ~flag_facerunning
              /\ cam' = StartFaceDetection(c, ok["facedetect"])
              /\ flag_facerunning' = (c.state = "PREVIEW" /\ ok["facedetect"])
  /\ UNCHANGED <<startVars, filter, motion, gestureVars, flag_capturing,
                 faces, frameVars>>

MotionButton ==
  /\ Touchable
  /\ motion' = IF filter # 0 THEN 0 ELSE 1 - motion
  /\ UNCHANGED <<startVars, cam, sticker, filter, gestureVars, flagVars,
                 faces, frameVars>>

-------------------------------------------------------------------------------
(* The camera's callbacks.                                                 *)

(* _camera_face_detected_cb replaces the list of faces.                    *)
FaceDetected ==
  /\ cam.state = "PREVIEW" /\ cam.fd
  /\ MainLoopFree
  /\ faces' \in 0 .. MaxFaces
  /\ UNCHANGED <<startVars, cam, buttonVars, gestureVars, flagVars, frameVars>>

Delivers(cb) == cam.state = "PREVIEW" /\ cam.cb = cb /\ pc = "idle"

(* The gesture timer of face_landmark.                                     *)
Tick(t) == IF t = 0 THEN TIMER ELSE t - 1

(* A frame for the sticker callback with faces to place it on: the number  *)
(* of faces is taken from a copy of the list and the timer ticks.          *)
StickerFrame ==
  /\ Delivers("sticker")
  /\ "nv12" \in FrameKinds
  /\ flag_facerunning /\ faces > 0
  /\ timer' = Tick(timer)
  /\ pc' = "landmark"
  /\ idx' = 1
  /\ count' = faces
  /\ UNCHANGED <<startVars, cam, buttonVars, nose, flagVars, faces>>

(* A frame without faces, or one whose luma plane is padded: face_landmark *)
(* is not called or returns at once.                                       *)
PlainStickerFrame ==
  /\ Delivers("sticker")
  /\ FrameKinds # {}
  /\ flag_facerunning /\ faces > 0 => "padded" \in FrameKinds
  /\ pc' = "capture"
  /\ UNCHANGED <<startVars, cam, buttonVars, gestureVars, flagVars, faces, idx, count>>

(* A frame for the filter callback; a software filter recolours it.        *)
FilterFrame ==
  /\ Delivers("filter")
  /\ FrameKinds # {}
  /\ pc' = IF filter \in SoftFilters THEN "filter" ELSE "capture"
  /\ UNCHANGED <<startVars, cam, buttonVars, gestureVars, flagVars, faces, idx, count>>

(* apply_filter also switches the hardware effect off.                     *)
ApplyFilter ==
  /\ pc = "filter"
  /\ \E ok \in Oks("effect") : cam' = SetEffect(cam, "NONE", ok)
  /\ pc' = "capture"
  /\ UNCHANGED <<startVars, buttonVars, gestureVars, flagVars, faces, idx, count>>

(* Mutant of NextFace: i <= count.                                         *)
NextFaceTooFar ==
  IF idx <= count
  THEN pc' = "landmark" /\ idx' = idx + 1 /\ UNCHANGED count
  ELSE pc' = "capture" /\ idx' = 1 /\ count' = 0

(* The end of a round of face_landmark's loop: for (i = 0; i < count; ++i) *)
NextFace ==
  IF idx < count
  THEN pc' = "landmark" /\ idx' = idx + 1 /\ UNCHANGED count
  ELSE pc' = "capture" /\ idx' = 1 /\ count' = 0

(* One round of the loop of face_landmark without gesture control.         *)
PlaceSticker ==
  /\ pc = "landmark"
  /\ idx > 1 \/ motion = 0
  /\ NextFace
  /\ UNCHANGED <<startVars, cam, buttonVars, gestureVars, flagVars, faces>>

(* The round for the first face with gesture control, in three steps.  A   *)
(* nose that moved far since the last frame advances the sticker.          *)
NoseGesture ==
  /\ pc = "landmark"
  /\ idx = 1 /\ motion # 0
  /\ timer = TIMER /\ nose
  /\ sticker' = sticker + 2
  /\ pc' = "bound"
  /\ UNCHANGED <<startVars, cam, filter, motion, gestureVars, flagVars, faces, idx, count>>

PastLast(s) == s > MAX_STICKER

(* The stickers that the switch of face_landmark draws.                    *)
Pictures == {s \in 1 .. MAX_STICKER - 1 : s % 2 = 0}

(* Past the last sticker, stickers and detection end.                      *)
BoundSticker ==
  /\ pc = "bound"
  /\ \/ /\ PastLast(sticker)
        /\ sticker' = 0
        /\ \E ok \in Oks("stopface") : cam' = StopFaceDetection(cam, ok)
        /\ flag_facerunning' = FALSE
     \/ /\ ~PastLast(sticker)
        /\ UNCHANGED <<sticker, cam, flag_facerunning>>
  /\ pc' = "mouth"
  /\ UNCHANGED <<startVars, filter, motion, gestureVars, flag_capturing, faces, idx, count>>

(* A wide open mouth asks for a capture.                                   *)
MouthGesture ==
  \/ UNCHANGED flag_capturing
  \/ timer = TIMER /\ flag_capturing' = TRUE

(* Without a nose gesture the round is this step alone.                    *)
FollowFace ==
  /\ \/ pc = "landmark" /\ idx = 1 /\ motion # 0
     \/ pc = "mouth"
  /\ MouthGesture
  /\ nose' \in BOOLEAN
  /\ NextFace
  /\ UNCHANGED <<startVars, cam, buttonVars, timer, flag_facerunning, faces>>

(* Mutant of TakeRequest: without looking at camera_enabled.               *)
TakeRequestUnchecked ==
  /\ pc = "capture"
  /\ flag_capturing
  /\ flag_capturing' = FALSE
  /\ ViewPause
  /\ pc' = "encode"
  /\ UNCHANGED <<startVars, buttonVars, gestureVars, flag_facerunning, idx, count>>

(* The end of both callbacks: consume a request and pause for the capture. *)
TakeRequest ==
  /\ pc = "capture"
  /\ flag_capturing /\ camera_enabled
  /\ flag_capturing' = FALSE
  /\ ViewPause
  /\ pc' = "encode"
  /\ UNCHANGED <<startVars, buttonVars, gestureVars, flag_facerunning, idx, count>>

(* Without a request nothing happens; a request is dropped if the camera   *)
(* was never initialised.                                                  *)
EndFrame ==
  /\ pc = "capture"
  /\ ~(flag_capturing /\ camera_enabled)
  /\ flag_capturing' = FALSE
  /\ pc' = "idle"
  /\ UNCHANGED <<startVars, cam, buttonVars, gestureVars, flag_facerunning, faces,
                 idx, count>>

(* image_util_encode_jpeg writes the photo and the thumbnail is set, or    *)
(* the callback returns early, without view_resume.                        *)
Encode ==
  /\ pc = "encode"
  /\ \E ok \in Oks("encode") : pc' = IF ok THEN "resume" ELSE "idle"
  /\ UNCHANGED <<startVars, cam, buttonVars, gestureVars, flagVars, faces, idx, count>>

RestartPreview ==
  /\ pc = "resume"
  /\ ViewResume
  /\ pc' = "idle"
  /\ UNCHANGED <<startVars, buttonVars, gestureVars, flagVars, faces, idx, count>>

PreviewCallback ==
  \/ StickerFrame \/ PlainStickerFrame \/ FilterFrame \/ ApplyFilter
  \/ PlaceSticker \/ NoseGesture \/ BoundSticker \/ FollowFace
  \/ TakeRequest \/ EndFrame \/ Encode \/ RestartPreview

-------------------------------------------------------------------------------

Next ==
  \/ AppCreate \/ AppResume \/ AppPause \/ AppTerminate
  \/ LoadModel \/ LoadModelFails \/ EnableSticker
  \/ ShutterButton \/ EffectButton \/ StickerButton \/ MotionButton
  \/ FaceDetected
  \/ PreviewCallback

Spec == Init /\ [][Next]_vars

(* A running camera keeps delivering frames and its callback runs on; the  *)
(* loader runs; the main loop serves the call the loader waits for among   *)
(* the frames (strong fairness: it can run only between them).  User and   *)
(* framework owe nothing.                                                  *)
FairSpec ==
  /\ Spec
  /\ WF_vars(PreviewCallback)
  /\ WF_vars(LoadModel)
  /\ SF_vars(EnableSticker)

-------------------------------------------------------------------------------
(* Properties.                                                             *)

(* Every variable has its type; in particular no sequence of buttons takes *)
(* filter past the filters, and faces is bounded by what was detected.     *)
TypeOK ==
  /\ lifecycle \in {"start", "created", "resumed", "paused", "terminated", "aborted"}
  /\ loader \in {"idle", "loading", "calling", "done"}
  /\ cam \in Camera
  /\ camera_enabled \in BOOLEAN
  /\ fin \in {0, 1}
  /\ sticker \in Nat
  /\ filter \in 0 .. MAX_FILTER - 1
  /\ motion \in {0, 1}
  /\ timer \in 0 .. TIMER
  /\ nose \in BOOLEAN
  /\ flag_capturing \in BOOLEAN
  /\ flag_facerunning \in BOOLEAN
  /\ faces \in 0 .. MaxFaces
  /\ pc \in {"idle", "landmark", "bound", "mouth", "filter", "capture", "encode", "resume"}
  /\ idx \in 1 .. MaxFaces + 1
  /\ count \in 0 .. MaxFaces

(* The preview callback evaluates the shape predictor only when the loader *)
(* has finished deserialising it: the only guard is fin, several steps     *)
(* earlier and in another thread.                                          *)
PredictorLoaded == pc = "landmark" => loader \in {"calling", "done"}

(* face_landmark indexes s_info.faces with an index bounded by the length  *)
(* of a copy taken earlier: the list must not have shrunk since.           *)
FacesInBounds ==
  pc \in {"landmark", "bound", "mouth"} => idx <= count /\ count <= faces

(* "Called on app_pause app event. Stops camera preview." of view_pause:   *)
(* while the application is paused no preview runs, also when the pause    *)
(* comes before, after or instead of a capture's own.                      *)
PauseStopsPreview == lifecycle = "paused" => cam.state # "PREVIEW"

(* Whenever the application is in front and no callback is at work the     *)
(* preview runs: every capture and every pause is undone.                  *)
PreviewRestored ==
  lifecycle \in {"created", "resumed"} /\ pc = "idle" => cam.state = "PREVIEW"

(* flag_facerunning and the detection in the device agree whenever the     *)
(* preview runs, across pauses, captures and every way to switch it off.   *)
DetectionFollowsFlag ==
  cam.state = "PREVIEW" => (cam.fd <=> flag_facerunning)

(* Detection never runs in the device without the flag that the buttons    *)
(* use to switch it off.                                                   *)
DetectionNeverForgotten == cam.fd => flag_facerunning

(* A selected sticker whose faces are being detected has the callback that *)
(* draws it, whatever mix of sticker button, effect button, gesture, pause *)
(* and capture led there: four places register callbacks, and the sticker  *)
(* button leaves the old one in place when it wraps to 0.                  *)
StickerServed ==
  cam.state = "PREVIEW" /\ flag_facerunning /\ sticker # 0 => cam.cb = "sticker"

(* A running preview always has a callback, or the shutter would be dead.  *)
PreviewHasCallback == cam.state = "PREVIEW" => cam.cb # "none"

(* The hardware effect is the one of the selected filter; a frame that a   *)
(* software filter has treated carries no hardware effect.                 *)
EffectShown ==
  Usable(cam) =>
    /\ filter \in 0 .. 3 => cam.effect = EffectOf(filter)
    /\ filter \in SoftFilters /\ pc = "capture" /\ cam.cb = "filter"
         => cam.effect = "NONE"

(* A request for a photo is consumed, unless the application leaves the    *)
(* front first.                                                            *)
RequestServed == flag_capturing ~> (~flag_capturing \/ lifecycle # "resumed")

(* The calls that start what a photo is taken of, or end it, and those     *)
(* that stop the preview for it; the others do not matter to photos.       *)
CaptureCalls == {"create", "display", "state", "start", "encode", "model"}

StopCalls == {"state", "stop"}

(* The abstract view of photo taking, see CaptureSession.                  *)
Session == INSTANCE CaptureSession WITH
  Starts   <- Faults \cap CaptureCalls = {},
  Stops    <- Faults \cap StopCalls = {},
  ready    <- camera_enabled,
  preview  <- cam.state = "PREVIEW",
  pending  <- flag_capturing,
  shooting <- pc \in {"encode", "resume"}

(* A photo is taken only on request, of a running preview and one at a     *)
(* time; while it is written nothing restarts the preview, which has been  *)
(* stopped unless that failed, and afterwards it runs again unless a call  *)
(* fails that photos depend on.                                            *)
SessionSafe == Session!Spec

(* Every request on a running preview becomes a photo, and every photo     *)
(* ends: the capture inside a preview callback, which pauses the very      *)
(* preview that called it, never waits for anything.                       *)
SessionLive == Session!FairSpec

(* The sticker button is enabled in the end: the loader's call reaches the *)
(* main loop.                                                              *)
StickersEnabled == lifecycle = "created" ~> (fin = 1 \/ ~Alive)

(* "@return EINA_TRUE on success, EINA_FALSE on error" of                  *)
(* _main_view_init_camera: a camera reported as initialised previews.      *)
InitReported ==
  [][camera_enabled' /\ ~camera_enabled => cam'.state = "PREVIEW"]_vars

===============================================================================
