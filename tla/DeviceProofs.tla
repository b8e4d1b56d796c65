------------------------------ MODULE DeviceProofs -----------------------------
(***************************************************************************)
(* Theorems about SelfCamera: what a capture in progress excludes, that    *)
(* SelfCamera implements CaptureSession, and that buttons, gestures,       *)
(* pauses and captures leave the callback, the face detection and the      *)
(* effect of the device as s_info says they are.                           *)
(***************************************************************************)
EXTENDS SelfCameraProofs

-------------------------------------------------------------------------------
(* What the handlers do to the state of the device.                        *)

(* None of the calls fails without which a preview cannot start, or is not *)
(* started again.  Those that may still fail: stopping the preview, the    *)
(* face detection, callbacks, effects and the shape predictor.             *)
PreviewSure == Faults \cap {"create", "display", "state", "start", "encode"} = {}

(* A preview that is to stop stops.                                        *)
StopSure == Faults \cap StopCalls = {}

LEMMA ResumeStates ==
  TypeOK /\ ViewResume =>
    /\ cam.state # "CREATED" => cam' = cam
    /\ cam.state = "CREATED" => /\ cam'.state \in {"CREATED", "PREVIEW"}
                                /\ PreviewSure => cam'.state = "PREVIEW"
  <1> SUFFICES ASSUME TypeOK, ViewResume
               PROVE  /\ cam.state # "CREATED" => cam' = cam
                      /\ cam.state = "CREATED" =>
                           /\ cam'.state \in {"CREATED", "PREVIEW"}
                           /\ PreviewSure => cam'.state = "PREVIEW"
    OBVIOUS
  <1>1. PICK ok \in Outcomes(ResumeCalls) : cam' = Resumed(cam, ok)
    BY DEF ViewResume
  <1>2. PreviewSure => ok["start"] = TRUE /\ ok["state"] = TRUE
    BY OutcomesType DEF PreviewSure, ResumeCalls
  <1>3. cam \in Camera
    BY DEF TypeOK
  <1>4. CASE cam.state # "CREATED"
    BY <1>1, <1>3, <1>4, ResumedState
  <1>5. CASE cam.state = "CREATED"
    BY <1>1, <1>2, <1>3, <1>5, ResumedState
  <1> QED BY <1>4, <1>5

LEMMA PauseStates ==
  TypeOK /\ ViewPause => /\ StopSure => cam'.state # "PREVIEW"
                         /\ cam.state = "PREVIEW" => cam'.state \in {"CREATED", "PREVIEW"}
                         /\ cam.state # "PREVIEW" => cam' = cam
  <1> SUFFICES ASSUME TypeOK, ViewPause
               PROVE  /\ StopSure => cam'.state # "PREVIEW"
                      /\ cam.state = "PREVIEW" => cam'.state \in {"CREATED", "PREVIEW"}
                      /\ cam.state # "PREVIEW" => cam' = cam
    OBVIOUS
  <1>1. PICK ok \in Outcomes(PauseCalls) : cam' = Paused(cam, ok)
    BY DEF ViewPause
  <1>2. StopSure => ok["stop"] = TRUE /\ ok["state"] = TRUE
    BY OutcomesType DEF StopSure, StopCalls, PauseCalls
  <1> QED BY <1>1, <1>2, PausedState DEF TypeOK

LEMMA TerminateStates == TypeOK /\ AppTerminate => ~Usable(cam')
  <1> SUFFICES ASSUME TypeOK, AppTerminate PROVE ~Usable(cam')
    OBVIOUS
  <1>1. PICK ok : cam' = Destroy(Paused(cam, ok))
    BY DEF AppTerminate
  <1>2. Paused(cam, ok) \in Camera
    BY PausedType DEF TypeOK
  <1> QED BY <1>1, <1>2 DEF Destroy, Usable, Camera

LEMMA CreateStates ==
  TypeOK /\ AppCreate =>
    /\ cam'.state # "DESTROYED"
    /\ PreviewSure => camera_enabled' /\ cam'.state = "PREVIEW"
  <1> SUFFICES ASSUME TypeOK, AppCreate
               PROVE  /\ cam'.state # "DESTROYED"
                      /\ PreviewSure => camera_enabled' /\ cam'.state = "PREVIEW"
    OBVIOUS
  <1>1. CASE FALSE \in Oks("create") /\ cam' = NoCamera
    BY <1>1 DEF Oks, NoCamera, PreviewSure
  <1>2. CASE FALSE \in Oks("display") /\ cam' = NewCamera
    BY <1>2 DEF Oks, NewCamera, NoCamera, PreviewSure
  <1>3. CASE \E ok \in Outcomes(ResumeCalls) :
               cam' = Resumed(NewCamera, ok) /\ camera_enabled' = ok["state"]
    <2>1. PICK ok \in Outcomes(ResumeCalls) :
            cam' = Resumed(NewCamera, ok) /\ camera_enabled' = ok["state"]
      BY <1>3
    <2>2. PreviewSure => ok["start"] = TRUE /\ ok["state"] = TRUE
      BY OutcomesType DEF PreviewSure, ResumeCalls
    <2>3. NewCamera \in Camera /\ NewCamera.state = "CREATED"
      BY NewCameraType DEF NewCamera, NoCamera
    <2> QED BY <2>1, <2>2, <2>3, ResumedState
  <1> QED BY <1>1, <1>2, <1>3 DEF AppCreate, InitCamera

LEMMA EffectButtonStates == TypeOK /\ EffectButton => cam'.state = cam.state
  <1> SUFFICES ASSUME TypeOK, EffectButton PROVE cam'.state = cam.state
    OBVIOUS
  <1>1. PICK ok \in Outcomes(EffectCalls) : \E state \in StateRead(cam, ok["state"]) :
          cam' = EffectCamera(state = "PREVIEW" /\ flag_facerunning, filter', ok)
    BY DEF EffectButton
  <1>2. PICK state \in StateRead(cam, ok["state"]) :
          cam' = EffectCamera(state = "PREVIEW" /\ flag_facerunning, filter', ok)
    BY <1>1
  <1>3. (state = "PREVIEW" /\ flag_facerunning) \in BOOLEAN
    OBVIOUS
  <1> QED BY <1>2, <1>3, EffectCameraState DEF TypeOK

LEMMA StickerButtonStates == TypeOK /\ StickerButton => cam'.state = cam.state
  <1> SUFFICES ASSUME TypeOK, StickerButton PROVE cam'.state = cam.state
    OBVIOUS
  <1>1. PICK ok \in Outcomes(StickerCalls) :
          \/ cam' = StopFaceDetection(StickerCamera(sticker', ok), ok["stopface"])
          \/ cam' = StickerCamera(sticker', ok)
          \/ cam' = StartFaceDetection(StickerCamera(sticker', ok), ok["facedetect"])
    BY DEF StickerButton
  <1>2. /\ StickerCamera(sticker', ok) \in Camera
        /\ StickerCamera(sticker', ok).state = cam.state
    BY StickerCameraState DEF TypeOK
  <1>4. ok["stopface"] \in BOOLEAN /\ ok["facedetect"] \in BOOLEAN
    BY OutcomesType DEF StickerCalls
  <1>3. /\ StopFaceDetection(StickerCamera(sticker', ok), ok["stopface"]).state = cam.state
        /\ StartFaceDetection(StickerCamera(sticker', ok), ok["facedetect"]).state = cam.state
    BY <1>2, <1>4, DetectionState
  <1> QED BY <1>1, <1>2, <1>3

LEMMA BoundStickerStates == TypeOK /\ BoundSticker => cam'.state = cam.state
  <1> SUFFICES ASSUME TypeOK, BoundSticker PROVE cam'.state = cam.state
    OBVIOUS
  <1>1. \A ok \in BOOLEAN : StopFaceDetection(cam, ok).state = cam.state
    BY DetectionState DEF TypeOK
  <1> QED BY <1>1, OksBoolean DEF BoundSticker

LEMMA ApplyFilterStates == TypeOK /\ ApplyFilter => cam'.state = cam.state
  BY DEF ApplyFilter, SetEffect, TypeOK, Camera

-------------------------------------------------------------------------------
(* The capture excludes the rest of the main loop.                         *)

(* A callback at work implies a running preview, or one it stopped itself; *)
(* if previews stop when told to, nothing runs out of the front.           *)
SerialInv ==
  /\ lifecycle = "start" => cam.state = "NONE" /\ ~camera_enabled
  /\ ~Alive => pc = "idle" /\ cam.state # "PREVIEW"
  /\ StopSure /\ lifecycle = "paused" => pc = "idle" /\ cam.state # "PREVIEW"
  /\ pc \in {"landmark", "bound", "mouth", "filter", "capture"} => cam.state = "PREVIEW"
  /\ pc \in {"encode", "resume"} => Usable(cam) /\ camera_enabled
  /\ StopSure /\ pc \in {"encode", "resume"} => cam.state = "CREATED"
  /\ pc \in {"landmark", "bound", "mouth"} => idx <= count /\ count <= faces

(* Without failing calls the camera is ready to preview.                   *)
ReliableInv ==
  PreviewSure =>
    /\ lifecycle \in {"created", "resumed"} /\ pc \notin {"encode", "resume"}
         => cam.state = "PREVIEW"
    /\ lifecycle = "paused" => Usable(cam)

LEMMA SerialInit == Init => SerialInv /\ ReliableInv
  BY DEF Init, SerialInv, ReliableInv, Alive, NoCamera

LEMMA SerialNext ==
  TypeOK /\ SerialInv /\ ReliableInv /\ [Next]_vars
    => SerialInv' /\ ReliableInv'
  <1> SUFFICES ASSUME TypeOK, SerialInv, ReliableInv, [Next]_vars
               PROVE  SerialInv' /\ ReliableInv'
    OBVIOUS
  <1> USE DEF SerialInv, ReliableInv, Alive, Usable
  <1>1. CASE AppCreate
    BY <1>1, CreateStates DEF AppCreate, frameVars
  <1>2. CASE AppResume
    BY <1>2, ResumeStates DEF AppResume, MainLoopFree, frameVars
  <1>3. CASE AppPause
    BY <1>3, PauseStates DEF AppPause, MainLoopFree, frameVars
  <1>4. CASE AppTerminate
    BY <1>4, TerminateStates DEF AppTerminate, MainLoopFree, frameVars
  <1>5. CASE LoadModel
    BY <1>5 DEF LoadModel, frameVars
  <1>6. CASE LoadModelFails
    BY <1>6 DEF LoadModelFails, NoCamera
  <1>7. CASE EnableSticker
    BY <1>7 DEF EnableSticker, frameVars
  <1>8. CASE ShutterButton
    BY <1>8 DEF ShutterButton, startVars, frameVars
  <1>9. CASE EffectButton
    BY <1>9, EffectButtonStates DEF EffectButton, startVars, frameVars
  <1>10. CASE StickerButton
    BY <1>10, StickerButtonStates DEF StickerButton, startVars, frameVars
  <1>11. CASE MotionButton
    BY <1>11 DEF MotionButton, startVars, frameVars
  <1>12. CASE FaceDetected
    BY <1>12 DEF FaceDetected, MainLoopFree, startVars, frameVars
  <1>13. CASE PreviewCallback
    <2>1. CASE StickerFrame
      BY <2>1 DEF StickerFrame, Delivers, startVars, TypeOK
    <2>2. CASE PlainStickerFrame
      BY <2>2 DEF PlainStickerFrame, Delivers, startVars
    <2>3. CASE FilterFrame
      BY <2>3 DEF FilterFrame, Delivers, startVars
    <2>4. CASE ApplyFilter
      BY <2>4, ApplyFilterStates DEF ApplyFilter, startVars
    <2>5. CASE PlaceSticker
      BY <2>5 DEF PlaceSticker, NextFace, startVars, TypeOK
    <2>6. CASE FollowFace
      BY <2>6 DEF FollowFace, NextFace, startVars, TypeOK
    <2>11. CASE NoseGesture
      BY <2>11 DEF NoseGesture, startVars
    <2>12. CASE BoundSticker
      BY <2>12, BoundStickerStates DEF BoundSticker, startVars
    <2>7. CASE TakeRequest
      BY <2>7, PauseStates DEF TakeRequest, startVars
    <2>8. CASE EndFrame
      BY <2>8 DEF EndFrame, startVars
    <2>9. CASE Encode
      BY <2>9 DEF Encode, Oks, PreviewSure, startVars
    <2>10. CASE RestartPreview
      BY <2>10, ResumeStates DEF RestartPreview, startVars
    <2> QED BY <1>13, <2>1, <2>2, <2>3, <2>4, <2>5, <2>6, <2>7, <2>8, <2>9, <2>10,
               <2>11, <2>12 DEF PreviewCallback
  <1>14. CASE UNCHANGED vars
    BY <1>14 DEF vars, startVars, frameVars
  <1> QED BY <1>1, <1>2, <1>3, <1>4, <1>5, <1>6, <1>7, <1>8, <1>9, <1>10, <1>11, <1>12,
             <1>13, <1>14 DEF Next

LEMMA SerialInvariant == Spec => [](TypeOK /\ SerialInv /\ ReliableInv)
  <1>1. Init => TypeOK /\ SerialInv /\ ReliableInv
    BY InitType, SerialInit
  <1>2. TypeOK /\ SerialInv /\ ReliableInv /\ [Next]_vars
          => (TypeOK /\ SerialInv /\ ReliableInv)'
    BY NextType, SerialNext
  <1> QED BY <1>1, <1>2, PTL DEF Spec

(* With the callbacks in the main loop a pause of the application cannot   *)
(* fall between view_pause and view_resume of a capture, so nothing        *)
(* restarts the preview behind it.  Only a preview that fails to stop, and *)
(* a state that cannot be read, leave a paused application previewing:     *)
(* view_pause looks at no other result.                                    *)
THEOREM PauseSafe == Faults \cap {"state", "stop"} = {} => (Spec => []PauseStopsPreview)
  <1> SUFFICES ASSUME StopSure PROVE Spec => []PauseStopsPreview
    BY DEF StopSure, StopCalls
  <1>1. SerialInv => PauseStopsPreview
    BY DEF SerialInv, PauseStopsPreview
  <1> QED BY <1>1, SerialInvariant, PTL

(* With the callbacks in the main loop face_landmark never indexes past    *)
(* the list of faces, although its bound comes from a copy of the list.    *)
THEOREM FacesSafe == Spec => []FacesInBounds
  <1>1. SerialInv => FacesInBounds
    BY DEF SerialInv, FacesInBounds
  <1> QED BY <1>1, SerialInvariant, PTL

(* Every capture and every pause is undone: between frames an application  *)
(* in front shows its preview, although stopping it, detection, callbacks, *)
(* effects and the shape predictor may fail.                               *)
THEOREM PreviewSafe ==
  Faults \cap {"create", "display", "state", "start", "encode"} = {}
    => (Spec => []PreviewRestored)
  <1> SUFFICES ASSUME PreviewSure PROVE Spec => []PreviewRestored
    BY DEF PreviewSure
  <1>1. ReliableInv => PreviewRestored
    BY DEF ReliableInv, PreviewRestored
  <1> QED BY <1>1, SerialInvariant, PTL

(* Only camera_start_preview makes _main_view_init_camera say TRUE of a    *)
(* camera that is dark: if it does not fail, a camera that is reported as  *)
(* initialised previews, whatever other calls fail.                        *)
THEOREM InitHonest == "start" \notin Faults => (Spec => InitReported)
  <1> SUFFICES ASSUME "start" \notin Faults PROVE Spec => InitReported
    OBVIOUS
  <1>1. ASSUME TypeOK, Next, camera_enabled', ~camera_enabled
        PROVE  cam'.state = "PREVIEW"
    <2>1. CASE AppCreate
      <3>1. PICK ok \in Outcomes(ResumeCalls) :
              cam' = Resumed(NewCamera, ok) /\ ok["state"]
        BY <1>1, <2>1 DEF AppCreate, InitCamera
      <3>2. ok["start"] = TRUE
        BY OutcomesType DEF ResumeCalls
      <3>3. NewCamera \in Camera /\ NewCamera.state = "CREATED"
        BY NewCameraType DEF NewCamera, NoCamera
      <3> QED BY <3>1, <3>2, <3>3, ResumedState
    <2>2. CASE ~AppCreate
      <3>1. UNCHANGED camera_enabled
        BY <1>1, <2>2
        DEF Next, AppResume, AppPause, AppTerminate, LoadModel, LoadModelFails,
            EnableSticker, ShutterButton, EffectButton, StickerButton, MotionButton,
            FaceDetected, PreviewCallback, StickerFrame, PlainStickerFrame, FilterFrame,
            ApplyFilter, PlaceSticker, NoseGesture, BoundSticker, FollowFace, TakeRequest,
            EndFrame, Encode, RestartPreview, startVars
      <3> QED BY <1>1, <3>1
    <2> QED BY <2>1, <2>2
  <1>2. TypeOK /\ [Next]_vars
          => [camera_enabled' /\ ~camera_enabled => cam'.state = "PREVIEW"]_vars
    BY <1>1
  <1> QED BY <1>2, TypesCorrect, PTL DEF Spec, InitReported

-------------------------------------------------------------------------------
(* SelfCamera implements CaptureSession.                                   *)

LEMMA SessionInit == Init => Session!Init
  BY DEF Init, Session!Init, NoCamera

LEMMA SessionNext ==
  TypeOK /\ SerialInv /\ ReliableInv /\ [Next]_vars
    => [Session!Next]_(Session!vars)
  <1> SUFFICES ASSUME TypeOK, SerialInv, ReliableInv, [Next]_vars
               PROVE  [Session!Next]_(Session!vars)
    OBVIOUS
  <1> USE DEF Session!Next, Session!vars
  <1>0. /\ Faults \cap CaptureCalls = {} => PreviewSure
        /\ Faults \cap StopCalls = {} => StopSure
    BY DEF PreviewSure, StopSure, CaptureCalls
  <1>1. CASE AppCreate
    <2>1. Session!Open
      BY <1>0, <1>1, CreateStates, NextType
         DEF AppCreate, Session!Open, SerialInv, flagVars, frameVars, TypeOK
    <2> QED BY <2>1
  <1>2. CASE AppResume
    <2>1. Session!Resume
      BY <1>0, <1>2, ResumeStates
         DEF AppResume, MainLoopFree, Session!Resume, ReliableInv, Usable, flagVars, frameVars
    <2> QED BY <2>1
  <1>3. CASE AppPause
    <2>1. Session!Suspend
      BY <1>0, <1>3, PauseStates
         DEF AppPause, MainLoopFree, Session!Suspend, flagVars, frameVars
    <2> QED BY <2>1
  <1>4. CASE AppTerminate
    <2>1. Session!Suspend
      BY <1>4, TerminateStates
         DEF AppTerminate, MainLoopFree, Session!Suspend, Usable, flagVars, frameVars
    <2> QED BY <2>1
  <1>5. CASE LoadModelFails
    <2>1. Faults \cap CaptureCalls # {}
      BY <1>5 DEF LoadModelFails, Oks, CaptureCalls
    <2>2. /\ cam'.state # "PREVIEW" /\ pc' \notin {"encode", "resume"}
          /\ UNCHANGED <<camera_enabled, flag_capturing>>
      BY <1>5 DEF LoadModelFails, NoCamera, flagVars
    <2>3. Session!Abort
      BY <2>1, <2>2 DEF Session!Abort
    <2> QED BY <2>3
  <1>6. CASE LoadModel \/ EnableSticker \/ MotionButton \/ FaceDetected
    BY <1>6 DEF LoadModel, EnableSticker, MotionButton, FaceDetected,
                startVars, flagVars, frameVars
  <1>7. CASE ShutterButton
    <2>1. Session!Request
      BY <1>7 DEF ShutterButton, Session!Request, startVars, frameVars
    <2> QED BY <2>1
  <1>8. CASE EffectButton
    BY <1>8, EffectButtonStates DEF EffectButton, startVars, frameVars
  <1>9. CASE StickerButton
    BY <1>9, StickerButtonStates DEF StickerButton, startVars, frameVars
  <1>10. CASE PreviewCallback
    <2>1. CASE StickerFrame \/ PlainStickerFrame \/ FilterFrame
      BY <2>1 DEF StickerFrame, PlainStickerFrame, FilterFrame, Delivers, startVars, flagVars
    <2>2. CASE ApplyFilter
      BY <2>2, ApplyFilterStates DEF ApplyFilter, startVars, flagVars
    <2>3. CASE PlaceSticker
      BY <2>3 DEF PlaceSticker, NextFace, startVars, flagVars
    <2>9. CASE NoseGesture
      BY <2>9 DEF NoseGesture, startVars, flagVars
    <2>10. CASE BoundSticker
      BY <2>10, BoundStickerStates DEF BoundSticker, startVars
    <2>4. CASE FollowFace
      <3>1. /\ UNCHANGED camera_enabled
            /\ cam'.state = cam.state
            /\ (pc' \in {"encode", "resume"}) = (pc \in {"encode", "resume"})
            /\ UNCHANGED flag_capturing \/ flag_capturing' = TRUE
        BY <2>4 DEF FollowFace, NextFace, MouthGesture, startVars
      <3>2. CASE UNCHANGED flag_capturing
        BY <3>1, <3>2
      <3>3. CASE flag_capturing' = TRUE
        <4>1. Session!Request
          BY <3>1, <3>3 DEF Session!Request
        <4> QED BY <4>1
      <3> QED BY <3>1, <3>2, <3>3
    <2>5. CASE TakeRequest
      <3>1. Session!Shoot
        BY <1>0, <2>5, PauseStates DEF TakeRequest, SerialInv, Session!Shoot, startVars
      <3> QED BY <3>1
    <2>6. CASE EndFrame
      <3>1. CASE flag_capturing
        <4>1. Session!Discard
          BY <2>6, <3>1 DEF EndFrame, SerialInv, Session!Discard, startVars
        <4> QED BY <4>1
      <3>2. CASE ~flag_capturing
        <4>1. flag_capturing = FALSE /\ flag_capturing' = FALSE
          BY <2>6, <3>2 DEF EndFrame, TypeOK
        <4>2. UNCHANGED flag_capturing
          BY <4>1
        <4>3. /\ UNCHANGED <<camera_enabled, cam>>
              /\ pc \notin {"encode", "resume"} /\ pc' \notin {"encode", "resume"}
          BY <2>6 DEF EndFrame, startVars
        <4> QED BY <4>2, <4>3
      <3> QED BY <3>1, <3>2
    <2>7. CASE Encode
      <3>1. CASE pc' = "resume"
        BY <2>7, <3>1 DEF Encode, startVars, flagVars
      <3>2. CASE pc' = "idle"
        <4>1. Faults \cap CaptureCalls # {}
          BY <2>7, <3>2 DEF Encode, Oks, CaptureCalls
        <4>2. /\ pc \in {"encode", "resume"} /\ pc' \notin {"encode", "resume"}
              /\ UNCHANGED <<camera_enabled, cam, flag_capturing>>
          BY <2>7, <3>2 DEF Encode, startVars, flagVars
        <4>3. Session!Finish
          BY <4>1, <4>2 DEF Session!Finish
        <4> QED BY <4>3
      <3> QED BY <2>7, <3>1, <3>2 DEF Encode
    <2>8. CASE RestartPreview
      <3>1. Session!Finish
        BY <1>0, <2>8, ResumeStates
           DEF RestartPreview, SerialInv, Session!Finish, Usable, startVars, flagVars
      <3> QED BY <3>1
    <2> QED BY <1>10, <2>1, <2>2, <2>3, <2>4, <2>5, <2>6, <2>7, <2>8, <2>9, <2>10
        DEF PreviewCallback
  <1>11. CASE UNCHANGED vars
    BY <1>11 DEF vars, startVars, flagVars, frameVars
  <1> QED BY <1>1, <1>2, <1>3, <1>4, <1>5, <1>6, <1>7, <1>8, <1>9, <1>10, <1>11 DEF Next

(* Photos are taken as CaptureSession says, for any number of stickers,    *)
(* filters and faces: on request, of a running preview and one at a time,  *)
(* with nothing starting the preview meanwhile.  Calls may fail; those in  *)
(* StopCalls take away that the preview stands still, and those in         *)
(* CaptureCalls that it runs again.                                        *)
THEOREM SessionImplemented == Spec => SessionSafe
  <1>1. TypeOK /\ SerialInv /\ ReliableInv /\ [Next]_vars
          => [Session!Next]_(Session!vars)
    BY SessionNext
  <1> QED BY <1>1, SessionInit, SerialInvariant, PTL DEF Spec, SessionSafe, Session!Spec

(* What CaptureSession promises by itself: while a photo is written the    *)
(* preview, if it stops when told to, stands still, and the camera has     *)
(* been initialised.                                                       *)
LEMMA SessionStill == Session!Spec => [](Session!Still)
  <1> USE DEF Session!Still
  <1>1. Session!Init => Session!Still
    BY DEF Session!Init
  <1>2. Session!Still /\ [Session!Next]_(Session!vars) => Session!Still'
    BY DEF Session!Next, Session!vars, Session!Open, Session!Request, Session!Shoot,
           Session!Finish, Session!Discard, Session!Suspend, Session!Resume, Session!Abort
  <1> QED BY <1>1, <1>2, PTL DEF Session!Spec

(* The camera of a photo that is being written has been initialised and,   *)
(* unless camera_stop_preview or camera_get_state fails, does not preview, *)
(* whatever pauses, resumes and other failing calls come before.           *)
THEOREM PhotoStill ==
  Faults \cap {"state", "stop"} = {}
    => (Spec => [](pc \in {"encode", "resume"} => camera_enabled /\ cam.state # "PREVIEW"))
  <1> SUFFICES ASSUME Faults \cap StopCalls = {}
               PROVE  Spec => [](pc \in {"encode", "resume"}
                                   => camera_enabled /\ cam.state # "PREVIEW")
    BY DEF StopCalls
  <1>1. Session!Still => (pc \in {"encode", "resume"} => camera_enabled /\ cam.state # "PREVIEW")
    BY DEF Session!Still
  <1> QED BY <1>1, SessionImplemented, SessionStill, PTL DEF SessionSafe


-------------------------------------------------------------------------------
(* What the handlers do to the device, field by field.                     *)

LEMMA ResumedOutcome ==
  ASSUME NEW c \in Camera, c.state = "CREATED", NEW ok, ok["state"]
  PROVE  LET r == Resumed(c, ok)
         IN  /\ ok["setcb"] => r.cb = CallbackFor(sticker)
             /\ r.effect = c.effect
             /\ c.fd => r.fd
             /\ r.state = "PREVIEW" /\ flag_facerunning /\ ok["facedetect"] => r.fd
  <1> DEFINE silent  == UnsetPreviewCb(c, ok["unsetcb"])
             warm    == StartPreview(StopPreview(silent, ok["stop"]), ok["start"])
             started == StartPreview(StopPreview(warm, ok["stop"]), ok["start"])
             watched == IF flag_facerunning
                        THEN StartFaceDetection(started, ok["facedetect"]) ELSE started
             last    == SetPreviewCb(watched, CallbackFor(sticker), ok["setcb"])
  <1>1. /\ silent \in Camera /\ silent.fd = c.fd /\ silent.effect = c.effect
        /\ silent.state = "CREATED"
    BY DEF UnsetPreviewCb, Usable, Camera, PreviewCb
  <1>2. /\ warm \in Camera /\ warm.fd = c.fd /\ warm.effect = c.effect
        /\ warm.state \in {"CREATED", "PREVIEW"}
    <2> HIDE DEF silent
    <2> QED BY <1>1 DEF StopPreview, StartPreview, Camera, CameraState
  <1>3. /\ started \in Camera /\ started.fd = c.fd /\ started.effect = c.effect
        /\ started.state \in {"CREATED", "PREVIEW"}
    <2> HIDE DEF warm
    <2> QED BY <1>2 DEF StopPreview, StartPreview, Camera, CameraState
  <1>4. /\ watched \in Camera /\ watched.effect = c.effect
        /\ watched.state \in {"CREATED", "PREVIEW"}
        /\ c.fd => watched.fd
        /\ watched.state = "PREVIEW" /\ flag_facerunning /\ ok["facedetect"] => watched.fd
    <2> HIDE DEF started
    <2> QED BY <1>3 DEF StartFaceDetection, Camera
  <1>5. /\ ok["setcb"] => last.cb = CallbackFor(sticker)
        /\ last.effect = watched.effect /\ last.fd = watched.fd
        /\ last.state = watched.state
    <2> HIDE DEF watched
    <2> QED BY <1>4 DEF SetPreviewCb, Usable, Camera
  <1>6. Resumed(c, ok) = last
    BY DEF Resumed
  <1> HIDE DEF last, watched
  <1> QED BY <1>4, <1>5, <1>6

LEMMA DetectionOutcome ==
  ASSUME NEW c \in Camera, NEW ok \in BOOLEAN
  PROVE  /\ StopFaceDetection(c, ok).cb = c.cb
         /\ StopFaceDetection(c, ok).effect = c.effect
         /\ StartFaceDetection(c, ok).cb = c.cb
         /\ StartFaceDetection(c, ok).effect = c.effect
  BY DEF StopFaceDetection, StartFaceDetection, Camera

LEMMA PausedOutcome ==
  ASSUME NEW c \in Camera, NEW ok
  PROVE  /\ Paused(c, ok).cb = c.cb /\ Paused(c, ok).effect = c.effect
         /\ Usable(Paused(c, ok)) <=> Usable(c)
  BY DEF Paused, StopPreview, StopFaceDetection, Usable, Camera, CameraState

LEMMA EffectCameraOutcome ==
  ASSUME cam \in Camera, NEW stop \in BOOLEAN, NEW f, NEW ok
  PROVE  LET e == EffectCamera(stop, f, ok)
         IN  /\ ok["setcb"] =>
                  e.cb = IF stop /\ sticker # 0 /\ Usable(cam) THEN "filter" ELSE cam.cb
             /\ f \notin 0 .. 3 => e.effect = cam.effect
             /\ f \in 0 .. 3 /\ Usable(cam) /\ ok["effect"] => e.effect = EffectOf(f)
  <1> DEFINE off   == IF stop THEN StopFaceDetection(cam, ok["stopface"]) ELSE cam
             unset == UnsetPreviewCb(off, ok["unsetcb"])
             plain == IF stop /\ sticker # 0
                      THEN SetPreviewCb(unset, "filter", ok["setcb"]) ELSE off
  <1>1. /\ off \in Camera /\ off.state = cam.state /\ off.cb = cam.cb
        /\ off.effect = cam.effect
    BY DEF StopFaceDetection, Camera
  <1>2. unset \in Camera /\ unset.state = cam.state /\ unset.effect = cam.effect
    <2> HIDE DEF off
    <2> QED BY <1>1 DEF UnsetPreviewCb, Camera, PreviewCb
  <1>3. /\ plain \in Camera /\ plain.state = cam.state /\ plain.effect = cam.effect
        /\ ok["setcb"] =>
             plain.cb = IF stop /\ sticker # 0 /\ Usable(cam) THEN "filter" ELSE cam.cb
    <2>1. CASE stop /\ sticker # 0
      <3> HIDE DEF off, unset
      <3>1. plain = SetPreviewCb(unset, "filter", ok["setcb"])
        BY <2>1
      <3>2. ~Usable(cam) => unset.cb = off.cb
        BY <1>1 DEF Usable, UnsetPreviewCb, unset
      <3> QED BY <1>1, <1>2, <2>1, <3>1, <3>2 DEF SetPreviewCb, Usable, Camera, PreviewCb
    <2>2. CASE ~(stop /\ sticker # 0)
      <3> HIDE DEF off, unset
      <3> QED BY <1>1, <2>2
    <2> QED BY <2>1, <2>2
  <1>4. LET e == SetEffect(plain, EffectOf(f), ok["effect"])
        IN  /\ e.cb = plain.cb
            /\ Usable(cam) /\ ok["effect"] => e.effect = EffectOf(f)
    <2> HIDE DEF plain
    <2> QED BY <1>3 DEF SetEffect, Usable, Camera
  <1>5. EffectCamera(stop, f, ok)
          = IF f \in 0 .. 3 THEN SetEffect(plain, EffectOf(f), ok["effect"]) ELSE plain
    BY DEF EffectCamera
  <1> HIDE DEF plain, off, unset
  <1> QED BY <1>3, <1>4, <1>5

LEMMA StickerCameraOutcome ==
  ASSUME cam \in Camera, NEW s, NEW ok
  PROVE  LET e == StickerCamera(s, ok)
         IN  /\ ok["setcb"] =>
                  e.cb = IF s # 0 /\ Usable(cam) THEN "sticker" ELSE cam.cb
             /\ e.effect = cam.effect
  BY DEF StickerCamera, SetPreviewCb, UnsetPreviewCb, Usable, Camera, PreviewCb

-------------------------------------------------------------------------------
(* The same for whole actions.                                             *)

LEMMA ViewResumeOutcome ==
  TypeOK /\ ViewResume =>
    \/ cam' = cam /\ (cam.state = "PREVIEW" => cam'.state = "PREVIEW")
    \/ /\ cam.state = "CREATED"
       /\ "setcb" \notin Faults => cam'.cb = CallbackFor(sticker)
       /\ cam'.effect = cam.effect
       /\ Usable(cam')
       /\ "facedetect" \notin Faults /\ cam'.state = "PREVIEW" /\ flag_facerunning => cam'.fd
  <1> SUFFICES ASSUME TypeOK, ViewResume, cam' # cam
               PROVE  /\ cam.state = "CREATED"
                      /\ "setcb" \notin Faults => cam'.cb = CallbackFor(sticker)
                      /\ cam'.effect = cam.effect
                      /\ Usable(cam')
                      /\ "facedetect" \notin Faults /\ cam'.state = "PREVIEW"
                           /\ flag_facerunning => cam'.fd
    OBVIOUS
  <1>1. PICK ok \in Outcomes(ResumeCalls) : cam' = Resumed(cam, ok)
    BY DEF ViewResume
  <1>2. /\ "setcb" \notin Faults => ok["setcb"]
        /\ "facedetect" \notin Faults => ok["facedetect"]
    BY OutcomesType DEF ResumeCalls
  <1>3. cam \in Camera /\ cam.state = "CREATED" /\ ok["state"]
    BY <1>1 DEF Resumed, TypeOK
  <1>4. Usable(cam')
    BY <1>1, <1>3, ResumedState DEF Usable
  <1> QED BY <1>1, <1>2, <1>3, <1>4, ResumedOutcome

LEMMA CreateOutcome ==
  TypeOK /\ AppCreate =>
    /\ cam'.state = "PREVIEW" =>
         /\ "setcb" \notin Faults => cam'.cb = CallbackFor(sticker)
         /\ "facedetect" \notin Faults /\ flag_facerunning => cam'.fd
    /\ cam'.effect = "NONE"
  <1> SUFFICES ASSUME TypeOK, AppCreate
               PROVE  /\ cam'.state = "PREVIEW" =>
                           /\ "setcb" \notin Faults => cam'.cb = CallbackFor(sticker)
                           /\ "facedetect" \notin Faults /\ flag_facerunning => cam'.fd
                      /\ cam'.effect = "NONE"
    OBVIOUS
  <1>1. CASE cam' = NoCamera \/ cam' = NewCamera
    BY <1>1 DEF NoCamera, NewCamera
  <1>2. CASE cam' # NewCamera /\ \E ok \in Outcomes(ResumeCalls) : cam' = Resumed(NewCamera, ok)
    <2>1. PICK ok \in Outcomes(ResumeCalls) : cam' = Resumed(NewCamera, ok)
      BY <1>2
    <2>2. /\ "setcb" \notin Faults => ok["setcb"]
          /\ "facedetect" \notin Faults => ok["facedetect"]
      BY OutcomesType DEF ResumeCalls
    <2>3. /\ NewCamera \in Camera /\ NewCamera.state = "CREATED"
          /\ NewCamera.effect = "NONE"
      BY NewCameraType DEF NewCamera, NoCamera
    <2>4. ok["state"]
      BY <1>2, <2>1 DEF Resumed
    <2> QED BY <2>1, <2>2, <2>3, <2>4, ResumedOutcome
  <1> QED BY <1>1, <1>2 DEF AppCreate, InitCamera

LEMMA EffectButtonOutcome ==
  TypeOK /\ EffectButton =>
    /\ cam'.state = cam.state
    /\ "effect" \notin Faults =>
         IF filter' \in 0 .. 3 THEN Usable(cam) => cam'.effect = EffectOf(filter')
                               ELSE cam'.effect = cam.effect
    /\ "setcb" \notin Faults =>
         cam'.cb = cam.cb \/ (cam'.cb = "filter" /\ (Usable(cam) => ~flag_facerunning'))
    /\ flag_facerunning' => cam'.fd = cam.fd
  <1> SUFFICES ASSUME TypeOK, EffectButton
               PROVE  /\ cam'.state = cam.state
                      /\ "effect" \notin Faults =>
                           IF filter' \in 0 .. 3
                           THEN Usable(cam) => cam'.effect = EffectOf(filter')
                           ELSE cam'.effect = cam.effect
                      /\ "setcb" \notin Faults =>
                           cam'.cb = cam.cb
                             \/ (cam'.cb = "filter" /\ (Usable(cam) => ~flag_facerunning'))
                      /\ flag_facerunning' => cam'.fd = cam.fd
    OBVIOUS
  <1>0. PICK ok \in Outcomes(EffectCalls) : \E state \in StateRead(cam, ok["state"]) :
          LET stop == state = "PREVIEW" /\ flag_facerunning
          IN  /\ cam' = EffectCamera(stop, filter', ok)
              /\ flag_facerunning' = (flag_facerunning /\ ~stop)
    BY DEF EffectButton
  <1>1. PICK state \in StateRead(cam, ok["state"]) :
          LET stop == state = "PREVIEW" /\ flag_facerunning
          IN  /\ cam' = EffectCamera(stop, filter', ok)
              /\ flag_facerunning' = (flag_facerunning /\ ~stop)
    BY <1>0
  <1> DEFINE stop == state = "PREVIEW" /\ flag_facerunning
  <1>2. /\ stop \in BOOLEAN /\ cam' = EffectCamera(stop, filter', ok)
        /\ flag_facerunning' = (flag_facerunning /\ ~stop)
    BY <1>1
  <1>3. /\ "setcb" \notin Faults => ok["setcb"]
        /\ "effect" \notin Faults => ok["effect"]
        /\ cam \in Camera
    <2>1. "setcb" \in EffectCalls /\ "effect" \in EffectCalls
      BY DEF EffectCalls
    <2>2. /\ "setcb" \notin Faults => ok["setcb"] = TRUE
          /\ "effect" \notin Faults => ok["effect"] = TRUE
      BY <2>1, OutcomesType
    <2> QED BY <2>2 DEF TypeOK
  <1> HIDE DEF stop
  <1>4. cam'.state = cam.state /\ (~stop => cam'.fd = cam.fd)
    BY <1>2, <1>3, EffectCameraState
  <1>5. /\ ok["setcb"] =>
             cam'.cb = IF stop /\ sticker # 0 /\ Usable(cam) THEN "filter" ELSE cam.cb
        /\ filter' \notin 0 .. 3 => cam'.effect = cam.effect
        /\ filter' \in 0 .. 3 /\ Usable(cam) /\ ok["effect"]
             => cam'.effect = EffectOf(filter')
    BY <1>2, <1>3, EffectCameraOutcome
  <1>6. "setcb" \notin Faults =>
          cam'.cb = cam.cb \/ (cam'.cb = "filter" /\ (Usable(cam) => ~flag_facerunning'))
    BY <1>2, <1>3, <1>5
  <1>7. flag_facerunning' => cam'.fd = cam.fd
    BY <1>2, <1>4
  <1> QED BY <1>3, <1>4, <1>5, <1>6, <1>7

LEMMA StickerButtonOutcome ==
  TypeOK /\ StickerButton =>
    /\ cam'.state = cam.state
    /\ cam'.effect = cam.effect
    /\ "setcb" \notin Faults =>
         cam'.cb = IF sticker' # 0 /\ Usable(cam) THEN "sticker" ELSE cam.cb
    /\ cam.state = "PREVIEW" /\ flag_facerunning' => cam'.fd \/ (flag_facerunning /\ ~cam.fd)
  <1> SUFFICES ASSUME TypeOK, StickerButton
               PROVE  /\ cam'.state = cam.state
                      /\ cam'.effect = cam.effect
                      /\ "setcb" \notin Faults =>
                           cam'.cb = IF sticker' # 0 /\ Usable(cam) THEN "sticker" ELSE cam.cb
                      /\ cam.state = "PREVIEW" /\ flag_facerunning'
                           => cam'.fd \/ (flag_facerunning /\ ~cam.fd)
    OBVIOUS
  <1>1. PICK ok \in Outcomes(StickerCalls) :
          LET c == StickerCamera(sticker', ok)
          IN  \/ cam' = StopFaceDetection(c, ok["stopface"]) /\ flag_facerunning' = FALSE
              \/ cam' = c /\ flag_facerunning /\ UNCHANGED flag_facerunning
              \/ /\ cam' = StartFaceDetection(c, ok["facedetect"])
                 /\ flag_facerunning' = (c.state = "PREVIEW" /\ ok["facedetect"])
    BY DEF StickerButton
  <1> DEFINE off == ok["stopface"]
             on  == ok["facedetect"]
             c   == StickerCamera(sticker', ok)
  <1>2. /\ off \in BOOLEAN /\ on \in BOOLEAN /\ ("setcb" \notin Faults => ok["setcb"])
        /\ cam \in Camera
    BY OutcomesType DEF StickerCalls, TypeOK
  <1>3. c \in Camera /\ c.state = cam.state /\ c.fd = cam.fd
    BY <1>2, StickerCameraState
  <1>4. /\ c.effect = cam.effect
        /\ "setcb" \notin Faults =>
             c.cb = IF sticker' # 0 /\ Usable(cam) THEN "sticker" ELSE cam.cb
    BY <1>2, StickerCameraOutcome
  <1>5. \/ cam' = StopFaceDetection(c, off) /\ flag_facerunning' = FALSE
        \/ cam' = c /\ flag_facerunning /\ UNCHANGED flag_facerunning
        \/ /\ cam' = StartFaceDetection(c, on)
           /\ flag_facerunning' = (c.state = "PREVIEW" /\ on)
    BY <1>1
  <1> HIDE DEF c, off, on
  <1>6. /\ StopFaceDetection(c, off).state = c.state /\ StartFaceDetection(c, on).state = c.state
        /\ StopFaceDetection(c, off).cb = c.cb /\ StartFaceDetection(c, on).cb = c.cb
        /\ StopFaceDetection(c, off).effect = c.effect
        /\ StartFaceDetection(c, on).effect = c.effect
        /\ StartFaceDetection(c, on).fd = (c.fd \/ (c.state = "PREVIEW" /\ on))
    BY <1>2, <1>3, DetectionState, DetectionOutcome
  <1>7. cam'.state = cam.state /\ cam'.effect = cam.effect /\ cam'.cb = c.cb
    BY <1>3, <1>4, <1>5, <1>6
  <1>8. cam.state = "PREVIEW" /\ flag_facerunning' => cam'.fd \/ (flag_facerunning /\ ~cam.fd)
    BY <1>3, <1>5, <1>6
  <1> QED BY <1>2, <1>4, <1>7, <1>8

LEMMA BoundStickerOutcome ==
  TypeOK /\ BoundSticker =>
    /\ cam'.state = cam.state /\ cam'.cb = cam.cb /\ cam'.effect = cam.effect
    /\ \/ UNCHANGED <<cam, sticker, flag_facerunning>>
       \/ sticker' = 0 /\ ~flag_facerunning'
  <1> SUFFICES ASSUME TypeOK, BoundSticker
               PROVE  /\ cam'.state = cam.state /\ cam'.cb = cam.cb
                      /\ cam'.effect = cam.effect
                      /\ \/ UNCHANGED <<cam, sticker, flag_facerunning>>
                         \/ sticker' = 0 /\ ~flag_facerunning'
    OBVIOUS
  <1>1. \A ok \in BOOLEAN : /\ StopFaceDetection(cam, ok).cb = cam.cb
                            /\ StopFaceDetection(cam, ok).effect = cam.effect
    BY DetectionOutcome DEF TypeOK
  <1>2. cam'.cb = cam.cb /\ cam'.effect = cam.effect
    BY <1>1, OksBoolean DEF BoundSticker
  <1> QED BY <1>2, BoundStickerStates DEF BoundSticker

LEMMA ApplyFilterOutcome ==
  TypeOK /\ ApplyFilter =>
    /\ cam'.state = cam.state /\ cam'.cb = cam.cb /\ cam'.fd = cam.fd
    /\ Usable(cam) /\ "effect" \notin Faults => cam'.effect = "NONE"
  BY DEF ApplyFilter, SetEffect, TypeOK, Camera, Oks

LEMMA PauseOutcome ==
  TypeOK /\ ViewPause =>
    /\ cam'.state = "PREVIEW" =>
         cam.state = "PREVIEW" /\ ("stop" \notin Faults => cam' = cam)
    /\ cam'.cb = cam.cb /\ cam'.effect = cam.effect /\ (Usable(cam') <=> Usable(cam))
  <1> SUFFICES ASSUME TypeOK, ViewPause
               PROVE  /\ cam'.state = "PREVIEW" =>
                           cam.state = "PREVIEW" /\ ("stop" \notin Faults => cam' = cam)
                      /\ cam'.cb = cam.cb /\ cam'.effect = cam.effect
                      /\ Usable(cam') <=> Usable(cam)
    OBVIOUS
  <1>1. PICK ok \in Outcomes(PauseCalls) : cam' = Paused(cam, ok)
    BY DEF ViewPause
  <1>2. "stop" \notin Faults => ok["stop"]
    BY OutcomesType DEF PauseCalls
  <1> QED BY <1>1, <1>2, PausedState, PausedOutcome DEF TypeOK

-------------------------------------------------------------------------------
(* Callbacks.                                                              *)

LEMMA CallbackNext ==
  "setcb" \notin Faults /\ TypeOK /\ PreviewHasCallback /\ [Next]_vars => PreviewHasCallback'
  <1> SUFFICES ASSUME "setcb" \notin Faults, TypeOK, PreviewHasCallback, [Next]_vars
               PROVE  PreviewHasCallback'
    OBVIOUS
  <1> USE DEF PreviewHasCallback
  <1>e. \A s : CallbackFor(s) # "none"
    BY DEF CallbackFor
  <1>1. CASE AppCreate
    BY <1>1, <1>e, CreateOutcome
  <1>2. CASE ViewResume
    BY <1>2, <1>e, ViewResumeOutcome
  <1>3. CASE ViewPause
    BY <1>3, PauseOutcome
  <1>4. CASE AppTerminate
    BY <1>4, TerminateStates DEF Usable
  <1>5. CASE LoadModelFails
    BY <1>5 DEF LoadModelFails, NoCamera
  <1>6. CASE EffectButton
    BY <1>6, EffectButtonOutcome
  <1>7. CASE StickerButton
    BY <1>7, StickerButtonOutcome
  <1>8. CASE BoundSticker
    BY <1>8, BoundStickerOutcome
  <1>9. CASE ApplyFilter
    BY <1>9, ApplyFilterOutcome
  <1>10. CASE UNCHANGED cam
    BY <1>10
  <1> QED
    BY <1>1, <1>2, <1>3, <1>4, <1>5, <1>6, <1>7, <1>8, <1>9, <1>10
    DEF Next, PreviewCallback, AppResume, AppPause, LoadModel, EnableSticker, ShutterButton,
        MotionButton, FaceDetected, StickerFrame, PlainStickerFrame, FilterFrame,
        PlaceSticker, NoseGesture, FollowFace, TakeRequest, EndFrame, Encode,
        RestartPreview, vars

(* As long as registering a callback does not fail, a running preview      *)
(* always has one between two handlers, whatever else fails.               *)
THEOREM CallbackSafe == "setcb" \notin Faults => (Spec => []PreviewHasCallback)
  <1> SUFFICES ASSUME "setcb" \notin Faults PROVE Spec => []PreviewHasCallback
    OBVIOUS
  <1>1. Init => PreviewHasCallback
    BY DEF Init, PreviewHasCallback, NoCamera
  <1>2. TypeOK /\ PreviewHasCallback /\ [Next]_vars => PreviewHasCallback'
    BY CallbackNext
  <1> QED BY <1>1, <1>2, TypesCorrect, PTL DEF Spec

-------------------------------------------------------------------------------
(* Detection.                                                              *)

LEMMA FollowsNext ==
  Faults \cap {"facedetect", "stopface", "stop"} = {}
    /\ TypeOK /\ DetectionInv /\ DetectionFollowsFlag /\ [Next]_vars
    => DetectionFollowsFlag'
  <1> SUFFICES ASSUME Faults \cap {"facedetect", "stopface", "stop"} = {}, TypeOK, DetectionInv,
                      DetectionFollowsFlag, [Next]_vars, cam'.state = "PREVIEW", flag_facerunning'
               PROVE  cam'.fd
    BY DetectionNext DEF DetectionInv, DetectionFollowsFlag
  <1>0. cam.state = "PREVIEW" => (cam.fd <=> flag_facerunning)
    BY DEF DetectionFollowsFlag
  <1>1. CASE AppCreate
    BY <1>1, CreateOutcome DEF AppCreate, flagVars
  <1>2. CASE ViewResume /\ UNCHANGED flag_facerunning
    BY <1>0, <1>2, ViewResumeOutcome
  <1>3. CASE ViewPause /\ UNCHANGED flag_facerunning
    BY <1>0, <1>3, PauseOutcome
  <1>4. CASE AppTerminate
    BY <1>4, TerminateStates DEF Usable
  <1>5. CASE LoadModelFails
    BY <1>5 DEF LoadModelFails, NoCamera
  <1>6. CASE EffectButton
    <2>1. flag_facerunning' => flag_facerunning
      BY <1>6 DEF EffectButton
    <2> QED BY <1>0, <1>6, <2>1, EffectButtonOutcome
  <1>7. CASE StickerButton
    BY <1>0, <1>7, StickerButtonOutcome
  <1>8. CASE BoundSticker
    BY <1>0, <1>8, BoundStickerOutcome
  <1>9. CASE ApplyFilter
    BY <1>0, <1>9, ApplyFilterOutcome DEF ApplyFilter, flagVars
  <1>10. CASE UNCHANGED <<cam, flag_facerunning>>
    BY <1>0, <1>10
  <1> QED
    BY <1>1, <1>2, <1>3, <1>4, <1>5, <1>6, <1>7, <1>8, <1>9, <1>10
    DEF Next, PreviewCallback, AppResume, AppPause, LoadModel, EnableSticker, ShutterButton,
        MotionButton, FaceDetected, StickerFrame, PlainStickerFrame, FilterFrame,
        PlaceSticker, NoseGesture, FollowFace, TakeRequest, EndFrame, Encode,
        RestartPreview, vars, flagVars

(* As long as detection starts and stops when told to, and the preview     *)
(* stops, the device detects faces exactly when flag_facerunning says so,  *)
(* in every running preview: across pauses, captures and the three ways to *)
(* switch it off.                                                          *)
THEOREM FollowsSafe ==
  Faults \cap {"facedetect", "stopface", "stop"} = {} => (Spec => []DetectionFollowsFlag)
  <1> SUFFICES ASSUME Faults \cap {"facedetect", "stopface", "stop"} = {}
               PROVE  Spec => []DetectionFollowsFlag
    OBVIOUS
  <1>1. Init => DetectionFollowsFlag
    BY DEF Init, DetectionFollowsFlag, NoCamera
  <1>2. TypeOK /\ DetectionInv /\ DetectionFollowsFlag /\ [Next]_vars => DetectionFollowsFlag'
    BY FollowsNext
  <1>3. TypeOK /\ DetectionInv /\ [Next]_vars => DetectionInv'
    BY DetectionNext
  <1> QED BY <1>1, <1>2, <1>3, TypesCorrect, DetectionInit, PTL DEF Spec

-------------------------------------------------------------------------------
(* Stickers.  While a frame is searched for landmarks the callback that    *)
(* does it stays registered.                                               *)

Searching == pc \in {"landmark", "bound", "mouth"}

SearchInv == Searching => cam.cb = "sticker"

LEMMA SearchNext ==
  TypeOK /\ SerialInv /\ SearchInv /\ [Next]_vars => SearchInv'
  <1> SUFFICES ASSUME TypeOK, SerialInv, SearchInv, [Next]_vars
               PROVE  SearchInv'
    OBVIOUS
  <1> USE DEF SearchInv, Searching
  <1>1. CASE AppCreate
    BY <1>1 DEF AppCreate, SerialInv, frameVars
  <1>2. CASE AppResume \/ AppPause \/ AppTerminate \/ EffectButton \/ StickerButton
    BY <1>2 DEF AppResume, AppPause, AppTerminate, EffectButton, StickerButton,
                MainLoopFree, Touchable, frameVars
  <1>3. CASE LoadModelFails
    BY <1>3 DEF LoadModelFails
  <1>4. CASE LoadModel \/ EnableSticker \/ ShutterButton \/ MotionButton \/ FaceDetected
    BY <1>4 DEF LoadModel, EnableSticker, ShutterButton, MotionButton, FaceDetected, frameVars
  <1>5. CASE StickerFrame
    BY <1>5 DEF StickerFrame, Delivers
  <1>6. CASE PlainStickerFrame \/ FilterFrame \/ ApplyFilter \/ TakeRequest \/ EndFrame
               \/ Encode \/ RestartPreview
    BY <1>6 DEF PlainStickerFrame, FilterFrame, ApplyFilter, TakeRequest, EndFrame, Encode,
                RestartPreview
  <1>7. CASE PlaceSticker \/ FollowFace \/ NoseGesture
    BY <1>7 DEF PlaceSticker, FollowFace, NoseGesture
  <1>8. CASE BoundSticker
    BY <1>8, BoundStickerOutcome DEF BoundSticker
  <1>9. CASE UNCHANGED vars
    BY <1>9 DEF vars, frameVars
  <1> QED
    BY <1>1, <1>2, <1>3, <1>4, <1>5, <1>6, <1>7, <1>8, <1>9 DEF Next, PreviewCallback

LEMMA ServedNext ==
  "setcb" \notin Faults /\ TypeOK /\ SearchInv /\ StickerServed /\ [Next]_vars
    => StickerServed'
  <1> SUFFICES ASSUME "setcb" \notin Faults, TypeOK, SearchInv, StickerServed, [Next]_vars,
                      cam'.state = "PREVIEW", flag_facerunning', sticker' # 0
               PROVE  cam'.cb = "sticker"
    BY DEF StickerServed
  <1>0. cam.state = "PREVIEW" /\ flag_facerunning /\ sticker # 0 => cam.cb = "sticker"
    BY DEF StickerServed
  <1>e. \A n : n # 0 => CallbackFor(n) = "sticker"
    BY DEF CallbackFor
  <1>1. CASE AppCreate
    BY <1>1, <1>e, CreateOutcome DEF AppCreate, buttonVars
  <1>2. CASE ViewResume /\ UNCHANGED <<sticker, flag_facerunning>>
    BY <1>0, <1>2, <1>e, ViewResumeOutcome
  <1>3. CASE ViewPause /\ UNCHANGED <<sticker, flag_facerunning>>
    BY <1>0, <1>3, PauseOutcome
  <1>4. CASE AppTerminate
    BY <1>4, TerminateStates DEF Usable
  <1>5. CASE LoadModelFails
    BY <1>5 DEF LoadModelFails, NoCamera
  <1>6. CASE EffectButton
    <2>1. (flag_facerunning' => flag_facerunning) /\ sticker' = sticker
      BY <1>6 DEF EffectButton
    <2> QED BY <1>0, <1>6, <2>1, EffectButtonOutcome DEF Usable
  <1>7. CASE StickerButton
    BY <1>7, StickerButtonOutcome DEF Usable
  <1>8. CASE BoundSticker
    BY <1>0, <1>8, BoundStickerOutcome
  <1>9. CASE NoseGesture
    BY <1>9 DEF NoseGesture, SearchInv, Searching
  <1>10. CASE ApplyFilter
    BY <1>0, <1>10, ApplyFilterOutcome DEF ApplyFilter, flagVars, buttonVars
  <1>11. CASE UNCHANGED <<cam, sticker, flag_facerunning>>
    BY <1>0, <1>11
  <1> QED
    BY <1>1, <1>2, <1>3, <1>4, <1>5, <1>6, <1>7, <1>8, <1>9, <1>10, <1>11
    DEF Next, PreviewCallback, AppResume, AppPause, LoadModel, EnableSticker, ShutterButton,
        MotionButton, FaceDetected, StickerFrame, PlainStickerFrame, FilterFrame,
        PlaceSticker, FollowFace, TakeRequest, EndFrame, Encode,
        RestartPreview, vars, flagVars, buttonVars

(* With the callbacks in the main loop, and as long as registering one     *)
(* does not fail, a sticker whose faces are detected has the callback that *)
(* draws it, for any number of stickers and filters.                       *)
THEOREM ServedSafe == "setcb" \notin Faults => (Spec => []StickerServed)
  <1> SUFFICES ASSUME "setcb" \notin Faults PROVE Spec => []StickerServed
    OBVIOUS
  <1>1. Init => SearchInv /\ StickerServed
    BY DEF Init, SearchInv, Searching, StickerServed, NoCamera
  <1>2. TypeOK /\ SerialInv /\ SearchInv /\ [Next]_vars => SearchInv'
    BY SearchNext
  <1>3. TypeOK /\ SearchInv /\ StickerServed /\ [Next]_vars => StickerServed'
    BY ServedNext
  <1> QED BY <1>1, <1>2, <1>3, SerialInvariant, PTL DEF Spec

-------------------------------------------------------------------------------
(* Effects.                                                                *)

EffectInv ==
  /\ EffectShown
  /\ lifecycle = "start" => filter = 0
  /\ pc = "filter" => filter \in SoftFilters

LEMMA HardwareNext ==
  "effect" \notin Faults /\ TypeOK /\ SerialInv /\ SearchInv /\ EffectInv /\ [Next]_vars
    => EffectInv'
  <1> SUFFICES ASSUME "effect" \notin Faults, TypeOK, SerialInv, SearchInv, EffectInv,
                      [Next]_vars
               PROVE  EffectInv'
    OBVIOUS
  <1> USE DEF EffectInv, EffectShown
  <1>s. SoftFilters = SoftFilters' /\ \A f : f \in SoftFilters => f \notin 0 .. 3
    BY ConstantsAssumption DEF SoftFilters
  <1> HIDE DEF SoftFilters
  <1>1. CASE AppCreate
    <2>1. cam'.effect = "NONE" /\ filter' = 0 /\ pc' = "idle" /\ lifecycle' = "created"
      BY <1>1, CreateOutcome DEF AppCreate, SerialInv, Alive, buttonVars, frameVars
    <2>2. EffectOf(0) = "NONE"
      BY DEF EffectOf
    <2> QED BY <2>1, <2>2
  <1>2. CASE AppResume
    <2>1. pc' = "idle" /\ filter' = filter /\ lifecycle' = "resumed"
      BY <1>2 DEF AppResume, MainLoopFree, buttonVars, frameVars
    <2>2. Usable(cam') => Usable(cam) /\ cam'.effect = cam.effect
      BY <1>2, ViewResumeOutcome DEF AppResume, Usable
    <2> QED BY <2>1, <2>2
  <1>3. CASE AppPause
    <2>1. pc' = "idle" /\ filter' = filter /\ lifecycle' = "paused"
      BY <1>3 DEF AppPause, MainLoopFree, buttonVars, frameVars
    <2> QED BY <1>3, <2>1, PauseOutcome DEF AppPause
  <1>4. CASE AppTerminate
    BY <1>4, TerminateStates DEF AppTerminate, MainLoopFree, frameVars
  <1>5. CASE LoadModelFails
    BY <1>5 DEF LoadModelFails, NoCamera, Usable
  <1>6. CASE EffectButton
    <2>1. pc' = "idle" /\ lifecycle' # "start"
      BY <1>6 DEF EffectButton, Touchable, Alive, MainLoopFree, startVars, frameVars
    <2> QED BY <1>6, <2>1, EffectButtonOutcome DEF Usable
  <1>7. CASE StickerButton
    <2>1. pc' = "idle" /\ lifecycle' # "start" /\ filter' = filter
      BY <1>7 DEF StickerButton, Touchable, Alive, MainLoopFree, startVars, frameVars
    <2> QED BY <1>7, <2>1, StickerButtonOutcome DEF Usable
  <1>8. CASE BoundSticker
    <2>1. pc' = "mouth" /\ UNCHANGED <<filter, lifecycle>>
      BY <1>8 DEF BoundSticker, startVars
    <2> QED BY <1>8, <2>1, BoundStickerOutcome DEF Usable
  <1>9. CASE ApplyFilter
    <2>1. pc' = "capture" /\ pc = "filter" /\ UNCHANGED <<filter, lifecycle>>
      BY <1>9 DEF ApplyFilter, startVars, buttonVars
    <2> QED BY <1>9, <1>s, <2>1, ApplyFilterOutcome DEF Usable
  <1>10. CASE TakeRequest
    <2>1. pc' = "encode" /\ UNCHANGED <<filter, lifecycle>>
      BY <1>10 DEF TakeRequest, startVars, buttonVars
    <2> QED BY <1>10, <2>1, PauseOutcome DEF TakeRequest
  <1>11. CASE RestartPreview
    <2>1. pc' = "idle" /\ UNCHANGED <<filter, lifecycle>>
      BY <1>11 DEF RestartPreview, startVars, buttonVars
    <2>2. Usable(cam') => Usable(cam) /\ cam'.effect = cam.effect
      BY <1>11, ViewResumeOutcome DEF RestartPreview, Usable
    <2> QED BY <2>1, <2>2
  <1>12. CASE FilterFrame
    BY <1>12, <1>s DEF FilterFrame, startVars, buttonVars
  <1>13. CASE PlainStickerFrame \/ StickerFrame
    BY <1>13 DEF PlainStickerFrame, StickerFrame, Delivers, startVars, buttonVars
  <1>14. CASE PlaceSticker \/ FollowFace \/ NoseGesture
    <2>1. cam.cb = "sticker" /\ pc' # "filter" /\ UNCHANGED <<cam, filter, lifecycle>>
      BY <1>14 DEF SearchInv, Searching, PlaceSticker, FollowFace, NoseGesture, NextFace,
                   startVars, buttonVars
    <2> QED BY <2>1
  <1>15. CASE EndFrame \/ Encode
    <2>1. pc' \in {"idle", "resume"} /\ UNCHANGED <<cam, filter, lifecycle>>
      BY <1>15 DEF EndFrame, Encode, startVars, buttonVars
    <2> QED BY <2>1
  <1>16. CASE UNCHANGED <<cam, filter, pc, lifecycle>>
    BY <1>16, <1>s
  <1> QED
    BY <1>1, <1>2, <1>3, <1>4, <1>5, <1>6, <1>7, <1>8, <1>9, <1>10, <1>11, <1>12, <1>13,
       <1>14, <1>15, <1>16
    DEF Next, PreviewCallback, LoadModel, EnableSticker, ShutterButton, MotionButton,
        FaceDetected, vars, startVars, buttonVars, frameVars

(* With the callbacks in the main loop, and as long as setting an effect   *)
(* does not fail, the device shows the hardware effect of the selected     *)
(* filter, for any number of filters and whatever other calls fail.        *)
THEOREM EffectSafe == "effect" \notin Faults => (Spec => []EffectShown)
  <1> SUFFICES ASSUME "effect" \notin Faults PROVE Spec => []EffectShown
    OBVIOUS
  <1>1. Init => SearchInv /\ EffectInv
    BY ConstantsAssumption
       DEF Init, SearchInv, Searching, EffectInv, EffectShown, NoCamera, Usable
  <1>2. TypeOK /\ SerialInv /\ SearchInv /\ [Next]_vars => SearchInv'
    BY SearchNext
  <1>3. TypeOK /\ SerialInv /\ SearchInv /\ EffectInv /\ [Next]_vars => EffectInv'
    BY HardwareNext
  <1>4. EffectInv => EffectShown
    BY DEF EffectInv
  <1> QED BY <1>1, <1>2, <1>3, <1>4, SerialInvariant, PTL DEF Spec

===============================================================================
