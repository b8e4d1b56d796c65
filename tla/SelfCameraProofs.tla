--------------------------- MODULE SelfCameraProofs ---------------------------
(***************************************************************************)
(* Theorems about SelfCamera, for every value of its constants: any number *)
(* of stickers, filters and faces, and any set of failing calls but those  *)
(* that a theorem names.                                                   *)
(***************************************************************************)
EXTENDS SelfCamera, TLAPS

-------------------------------------------------------------------------------
(* The operations of the camera.                                           *)

(* Every call leaves the device in a legal state.                          *)
LEMMA DeviceType ==
  ASSUME NEW c \in Camera, NEW ok, NEW cb \in PreviewCb, NEW e \in Effect
  PROVE  /\ StartPreview(c, ok) \in Camera
         /\ StopPreview(c, ok) \in Camera
         /\ SetPreviewCb(c, cb, ok) \in Camera
         /\ UnsetPreviewCb(c, ok) \in Camera
         /\ StartFaceDetection(c, ok) \in Camera
         /\ StopFaceDetection(c, ok) \in Camera
         /\ SetEffect(c, e, ok) \in Camera
         /\ Destroy(c) \in Camera
  BY DEF Camera, CameraState, PreviewCb, Effect, Usable, StartPreview, StopPreview,
         SetPreviewCb, UnsetPreviewCb, StartFaceDetection, StopFaceDetection,
         SetEffect, Destroy

LEMMA NewCameraType == NoCamera \in Camera /\ NewCamera \in Camera
  BY DEF NoCamera, NewCamera, Camera, CameraState, PreviewCb, Effect

LEMMA OksBoolean == \A call : Oks(call) \subseteq BOOLEAN
  BY DEF Oks

(* A call that cannot fail succeeds.                                       *)
LEMMA OutcomesType ==
  ASSUME NEW calls, NEW ok \in Outcomes(calls), NEW call \in calls
  PROVE  ok[call] \in BOOLEAN /\ (call \notin Faults => ok[call] = TRUE)
  BY DEF Outcomes

LEMMA CallbackForType == \A s : CallbackFor(s) \in PreviewCb
  BY DEF CallbackFor, PreviewCb

LEMMA SomeType == "filter" \in PreviewCb /\ "sticker" \in PreviewCb /\ "NONE" \in Effect
  BY DEF PreviewCb, Effect

LEMMA PausedType == ASSUME NEW c \in Camera, NEW ok PROVE Paused(c, ok) \in Camera
  <1>1. StopFaceDetection(c, ok["stopface"]) \in Camera
    BY DeviceType, SomeType
  <1>2. StopPreview(StopFaceDetection(c, ok["stopface"]), ok["stop"]) \in Camera
    BY <1>1, DeviceType, SomeType
  <1> QED BY <1>2 DEF Paused

LEMMA ResumedType == ASSUME NEW c \in Camera, NEW ok PROVE Resumed(c, ok) \in Camera
  <1> DEFINE silent  == UnsetPreviewCb(c, ok["unsetcb"])
             stopped == StopPreview(silent, ok["stop"])
             warm    == StartPreview(stopped, ok["start"])
             again   == StopPreview(warm, ok["stop"])
             started == StartPreview(again, ok["start"])
             watched == IF flag_facerunning
                        THEN StartFaceDetection(started, ok["facedetect"]) ELSE started
  <1>1. silent \in Camera
    BY DeviceType, SomeType
  <1>2. stopped \in Camera
    <2> HIDE DEF silent
    <2> QED BY DeviceType, <1>1, SomeType
  <1>3. warm \in Camera
    <2> HIDE DEF stopped
    <2> QED BY DeviceType, <1>2, SomeType
  <1>4. again \in Camera
    <2> HIDE DEF warm
    <2> QED BY DeviceType, <1>3, SomeType
  <1>5. started \in Camera
    <2> HIDE DEF again
    <2> QED BY DeviceType, <1>4, SomeType
  <1>6. watched \in Camera
    <2> HIDE DEF started
    <2> QED BY DeviceType, <1>5, SomeType
  <1>7. SetPreviewCb(watched, CallbackFor(sticker), ok["setcb"]) \in Camera
    <2> HIDE DEF watched
    <2> QED BY DeviceType, <1>6, SomeType, CallbackForType
  <1> QED BY <1>7 DEF Resumed

-------------------------------------------------------------------------------
(* Types.                                                                  *)

LEMMA InitType == Init => TypeOK
  <1> SUFFICES ASSUME Init PROVE TypeOK
    OBVIOUS
  <1>1. /\ camera_enabled \in BOOLEAN /\ nose \in BOOLEAN
        /\ flag_capturing \in BOOLEAN /\ flag_facerunning \in BOOLEAN
    BY DEF Init
  <1>2. /\ sticker \in Nat /\ filter \in 0 .. MAX_FILTER - 1
        /\ timer \in 0 .. TIMER /\ faces \in 0 .. MaxFaces
        /\ idx \in 1 .. MaxFaces + 1 /\ count \in 0 .. MaxFaces
    BY ConstantsAssumption DEF Init
  <1>3. cam \in Camera
    BY NewCameraType DEF Init
  <1> QED BY <1>1, <1>2, <1>3 DEF Init, TypeOK

(* What the buttons do to the device leaves it in a legal state.           *)
LEMMA EffectCameraType ==
  ASSUME cam \in Camera, NEW stop \in BOOLEAN, NEW f, NEW ok
  PROVE  EffectCamera(stop, f, ok) \in Camera
  <1> DEFINE off   == IF stop THEN StopFaceDetection(cam, ok["stopface"]) ELSE cam
             unset == UnsetPreviewCb(off, ok["unsetcb"])
             plain == IF stop /\ sticker # 0
                      THEN SetPreviewCb(unset, "filter", ok["setcb"]) ELSE off
  <1>1. off \in Camera
    BY DeviceType, SomeType
  <1>2. plain \in Camera
    <2> HIDE DEF off
    <2>1. unset \in Camera
      BY DeviceType, <1>1, SomeType
    <2> HIDE DEF unset
    <2> QED BY DeviceType, <1>1, <2>1, SomeType
  <1>3. f \in 0 .. 3 => EffectOf(f) \in Effect
    <2>1. HwEffect[1] \in Effect /\ HwEffect[2] \in Effect /\ HwEffect[3] \in Effect
      BY DEF HwEffect, Effect
    <2>2. f \in 0 .. 3 => f = 0 \/ f = 1 \/ f = 2 \/ f = 3
      OBVIOUS
    <2> QED BY <2>1, <2>2, SomeType DEF EffectOf
  <1>4. f \in 0 .. 3 => SetEffect(plain, EffectOf(f), ok["effect"]) \in Camera
    <2> HIDE DEF plain
    <2> QED BY DeviceType, <1>2, <1>3, SomeType
  <1> QED BY <1>2, <1>4 DEF EffectCamera

LEMMA StickerCameraType ==
  ASSUME cam \in Camera, NEW s, NEW ok
  PROVE  StickerCamera(s, ok) \in Camera
  <1>1. UnsetPreviewCb(cam, ok["unsetcb"]) \in Camera
    BY DeviceType, SomeType
  <1> QED BY DeviceType, <1>1, SomeType DEF StickerCamera

LEMMA ViewResumeType == cam \in Camera /\ ViewResume => cam' \in Camera
  BY ResumedType DEF ViewResume

LEMMA ViewPauseType ==
  cam \in Camera /\ faces \in 0 .. MaxFaces /\ ViewPause
    => cam' \in Camera /\ faces' \in 0 .. MaxFaces
  BY PausedType, ConstantsAssumption DEF ViewPause, FacesAfterPause

LEMMA NextFaceType ==
  TypeOK /\ NextFace
    => /\ pc' \in {"landmark", "capture"}
       /\ idx' \in 1 .. MaxFaces + 1
       /\ count' \in 0 .. MaxFaces
  BY ConstantsAssumption DEF TypeOK, NextFace

LEMMA NextType == TypeOK /\ [Next]_vars => TypeOK'
  <1> SUFFICES ASSUME TypeOK, [Next]_vars PROVE TypeOK'
    OBVIOUS
  <1> USE ConstantsAssumption
  <1>c. cam \in Camera
    BY DEF TypeOK
  <1>1. CASE AppCreate
    <2>1. cam' \in Camera
      BY <1>1, NewCameraType, ResumedType DEF AppCreate, InitCamera
    <2>3. \A ok \in Outcomes(ResumeCalls) : ok["state"] \in BOOLEAN
      BY OutcomesType DEF ResumeCalls
    <2>2. camera_enabled' \in BOOLEAN
      BY <1>1, <2>3 DEF AppCreate, InitCamera
    <2> QED BY <1>1, <2>1, <2>2 DEF AppCreate, TypeOK, buttonVars, gestureVars, flagVars, frameVars
  <1>2. CASE AppResume
    <2>1. cam' \in Camera
      BY <1>2, <1>c, ViewResumeType DEF AppResume
    <2> QED BY <1>2, <2>1 DEF AppResume, TypeOK, buttonVars, gestureVars, flagVars, frameVars
  <1>3. CASE AppPause
    <2>1. cam' \in Camera /\ faces' \in 0 .. MaxFaces
      BY <1>3, ViewPauseType DEF AppPause, TypeOK
    <2> QED BY <1>3, <2>1 DEF AppPause, TypeOK, buttonVars, gestureVars, flagVars, frameVars
  <1>4. CASE AppTerminate
    <2>1. PICK ok \in Outcomes(PauseCalls) :
                 cam' = Destroy(Paused(cam, ok)) /\ faces' = FacesAfterPause(cam, ok)
      BY <1>4 DEF AppTerminate
    <2>2. cam' \in Camera
      <3>1. Paused(cam, ok) \in Camera
        BY <1>c, PausedType
      <3> QED BY <2>1, <3>1, DeviceType, SomeType
    <2>3. faces' \in 0 .. MaxFaces
      BY <2>1 DEF FacesAfterPause, TypeOK
    <2> QED BY <1>4, <2>2, <2>3
        DEF AppTerminate, TypeOK, buttonVars, gestureVars, flagVars, frameVars
  <1>5. CASE LoadModel
    BY <1>5 DEF LoadModel, TypeOK, buttonVars, gestureVars, flagVars, frameVars
  <1>6. CASE LoadModelFails
    BY <1>6, NewCameraType DEF LoadModelFails, TypeOK, buttonVars, gestureVars, flagVars
  <1>7. CASE EnableSticker
    BY <1>7 DEF EnableSticker, TypeOK, buttonVars, gestureVars, flagVars, frameVars
  <1>8. CASE ShutterButton
    BY <1>8 DEF ShutterButton, TypeOK, startVars, buttonVars, gestureVars, frameVars
  <1>9. CASE EffectButton
    <2>1. PICK ok \in Outcomes(EffectCalls) : \E state \in StateRead(cam, ok["state"]) :
            LET stop == state = "PREVIEW" /\ flag_facerunning
            IN  /\ cam' = EffectCamera(stop, filter', ok)
                /\ flag_facerunning' = (flag_facerunning /\ ~stop)
      BY <1>9 DEF EffectButton
    <2>5. PICK state \in StateRead(cam, ok["state"]) :
            LET stop == state = "PREVIEW" /\ flag_facerunning
            IN  /\ cam' = EffectCamera(stop, filter', ok)
                /\ flag_facerunning' = (flag_facerunning /\ ~stop)
      BY <2>1
    <2> DEFINE stop == state = "PREVIEW" /\ flag_facerunning
    <2>2. stop \in BOOLEAN /\ flag_facerunning' \in BOOLEAN
      BY <2>5 DEF TypeOK
    <2>3. cam' \in Camera
      <3> HIDE DEF stop
      <3> QED BY <2>5, <2>2, <1>c, EffectCameraType DEF stop
    <2>4. filter' \in 0 .. MAX_FILTER - 1
      BY <1>9 DEF EffectButton, NextFilter, TypeOK
    <2> QED BY <1>9, <2>2, <2>3, <2>4
        DEF EffectButton, TypeOK, startVars, gestureVars, frameVars
  <1>10. CASE StickerButton
    <2>1. sticker' \in Nat
      BY <1>10 DEF StickerButton, TypeOK
    <2>2. cam' \in Camera /\ flag_facerunning' \in BOOLEAN
      <3>1. PICK ok \in Outcomes(StickerCalls) :
              LET c == StickerCamera(sticker', ok)
              IN  \/ /\ cam' = StopFaceDetection(c, ok["stopface"])
                     /\ flag_facerunning' = FALSE
                  \/ /\ cam' = c
                     /\ UNCHANGED flag_facerunning
                  \/ /\ cam' = StartFaceDetection(c, ok["facedetect"])
                     /\ flag_facerunning' = (c.state = "PREVIEW" /\ ok["facedetect"])
        BY <1>10 DEF StickerButton
      <3>3. StickerCamera(sticker', ok) \in Camera
        BY <1>c, StickerCameraType
      <3>4. /\ StopFaceDetection(StickerCamera(sticker', ok), ok["stopface"]) \in Camera
            /\ StartFaceDetection(StickerCamera(sticker', ok), ok["facedetect"]) \in Camera
        BY <3>3, SomeType, DeviceType
      <3> QED BY <3>1, <3>3, <3>4 DEF TypeOK
    <2> QED BY <1>10, <2>1, <2>2
        DEF StickerButton, TypeOK, startVars, gestureVars, frameVars
  <1>12. CASE MotionButton
    BY <1>12 DEF MotionButton, TypeOK, startVars, gestureVars, flagVars, frameVars
  <1>13. CASE FaceDetected
    BY <1>13 DEF FaceDetected, TypeOK, startVars, buttonVars, gestureVars, flagVars, frameVars
  <1>14. CASE PreviewCallback
    <2>1. CASE StickerFrame
      BY <2>1 DEF StickerFrame, Tick, TypeOK, startVars, buttonVars, flagVars
    <2>2. CASE PlainStickerFrame
      BY <2>2 DEF PlainStickerFrame, TypeOK, startVars, buttonVars, gestureVars, flagVars
    <2>3. CASE FilterFrame
      BY <2>3 DEF FilterFrame, TypeOK, startVars, buttonVars, gestureVars, flagVars
    <2>4. CASE ApplyFilter
      <3>1. cam' \in Camera
        BY <2>4, <1>c, SomeType, DeviceType DEF ApplyFilter
      <3> QED BY <2>4, <3>1 DEF ApplyFilter, TypeOK, startVars, buttonVars, gestureVars, flagVars
    <2>5. CASE PlaceSticker
      BY <2>5, NextFaceType DEF PlaceSticker, TypeOK, startVars, buttonVars, gestureVars, flagVars
    <2>6. CASE NoseGesture
      BY <2>6 DEF NoseGesture, TypeOK, startVars, gestureVars, flagVars
    <2>11. CASE BoundSticker
      <3>1. \A ok : StopFaceDetection(cam, ok) \in Camera
        BY <1>c, SomeType, DeviceType
      <3>2. sticker' \in Nat
        BY <2>11 DEF BoundSticker, TypeOK
      <3>3. cam' \in Camera
        BY <2>11, <3>1, <1>c DEF BoundSticker
      <3>4. flag_facerunning' \in BOOLEAN
        BY <2>11 DEF BoundSticker, TypeOK
      <3> QED BY <2>11, <3>2, <3>3, <3>4 DEF BoundSticker, TypeOK, startVars, gestureVars
    <2>12. CASE FollowFace
      <3>1. flag_capturing' \in BOOLEAN
        BY <2>12 DEF FollowFace, MouthGesture, TypeOK
      <3> QED BY <2>12, <3>1, NextFaceType DEF FollowFace, TypeOK, startVars, buttonVars
    <2>7. CASE TakeRequest
      BY <2>7, ViewPauseType DEF TakeRequest, TypeOK, startVars, buttonVars, gestureVars
    <2>8. CASE EndFrame
      BY <2>8 DEF EndFrame, TypeOK, startVars, buttonVars, gestureVars
    <2>9. CASE Encode
      BY <2>9 DEF Encode, TypeOK, startVars, buttonVars, gestureVars, flagVars
    <2>10. CASE RestartPreview
      BY <2>10, <1>c, ViewResumeType
         DEF RestartPreview, TypeOK, startVars, buttonVars, gestureVars, flagVars
    <2> QED BY <1>14, <2>1, <2>2, <2>3, <2>4, <2>5, <2>6, <2>7, <2>8, <2>9, <2>10,
               <2>11, <2>12 DEF PreviewCallback
  <1>15. CASE UNCHANGED vars
    BY <1>15 DEF vars, TypeOK, startVars, buttonVars, gestureVars, flagVars, frameVars
  <1> QED BY <1>1, <1>2, <1>3, <1>4, <1>5, <1>6, <1>7, <1>8, <1>9, <1>10, <1>12, <1>13,
             <1>14, <1>15 DEF Next

(* Every variable keeps its type, whatever the order of buttons, gestures, *)
(* frames and failing calls.                                               *)
THEOREM TypesCorrect == Spec => []TypeOK
  <1> QED BY InitType, NextType, PTL DEF Spec

-------------------------------------------------------------------------------
(* What the handlers do to the device.                                     *)

(* view_pause: a preview may survive it if a call fails, and detection     *)
(* only if the same calls, or the one that stops it, do.                   *)
LEMMA PausedState ==
  ASSUME NEW c \in Camera, NEW ok
  PROVE  /\ c.state # "PREVIEW" => Paused(c, ok) = c
         /\ c.state = "PREVIEW" => Paused(c, ok).state \in {"CREATED", "PREVIEW"}
         /\ ok["state"] /\ ok["stop"] => Paused(c, ok).state # "PREVIEW"
         /\ c.state = "PREVIEW" /\ ok["stopface"] /\ Paused(c, ok).state # "PREVIEW"
              => ~Paused(c, ok).fd
         /\ ok["stop"] /\ Paused(c, ok).state = "PREVIEW" => Paused(c, ok) = c
         /\ Paused(c, ok).fd => c.fd
  BY DEF Paused, StopPreview, StopFaceDetection, Camera, CameraState

LEMMA ResumedState ==
  ASSUME NEW c \in Camera, NEW ok
  PROVE  /\ c.state # "CREATED" => Resumed(c, ok) = c
         /\ c.state = "CREATED" =>
              /\ Resumed(c, ok).state \in {"CREATED", "PREVIEW"}
              /\ ok["state"] /\ ok["start"] => Resumed(c, ok).state = "PREVIEW"
              /\ ~c.fd /\ Resumed(c, ok).fd
                   => Resumed(c, ok).state = "PREVIEW" /\ flag_facerunning
  <1> DEFINE silent  == UnsetPreviewCb(c, ok["unsetcb"])
             warm    == StartPreview(StopPreview(silent, ok["stop"]), ok["start"])
             started == StartPreview(StopPreview(warm, ok["stop"]), ok["start"])
             watched == IF flag_facerunning
                        THEN StartFaceDetection(started, ok["facedetect"]) ELSE started
             last    == SetPreviewCb(watched, CallbackFor(sticker), ok["setcb"])
  <1> SUFFICES ASSUME c.state = "CREATED", ok["state"]
               PROVE  /\ Resumed(c, ok).state \in {"CREATED", "PREVIEW"}
                      /\ ok["start"] => Resumed(c, ok).state = "PREVIEW"
                      /\ ~c.fd /\ Resumed(c, ok).fd
                           => Resumed(c, ok).state = "PREVIEW" /\ flag_facerunning
    BY DEF Resumed
  <1>1. silent \in Camera /\ silent.state = "CREATED" /\ silent.fd = c.fd
    BY DEF UnsetPreviewCb, Usable, Camera, PreviewCb
  <1>2. /\ warm \in Camera /\ warm.fd = c.fd
        /\ warm.state = IF ok["start"] THEN "PREVIEW" ELSE "CREATED"
    <2> HIDE DEF silent
    <2> QED BY <1>1 DEF StopPreview, StartPreview, Camera, CameraState
  <1>3. /\ started \in Camera /\ started.fd = c.fd
        /\ started.state \in {"CREATED", "PREVIEW"}
        /\ ok["start"] => started.state = "PREVIEW"
    <2> HIDE DEF warm
    <2> QED BY <1>2 DEF StopPreview, StartPreview, Camera, CameraState
  <1>4. /\ watched \in Camera /\ watched.state = started.state
        /\ ~c.fd /\ watched.fd => started.state = "PREVIEW" /\ flag_facerunning
    <2> HIDE DEF started
    <2> QED BY <1>3 DEF StartFaceDetection, Camera
  <1>5. last.state = watched.state /\ last.fd = watched.fd
    <2> HIDE DEF watched
    <2> QED BY <1>4 DEF SetPreviewCb, Camera
  <1>6. Resumed(c, ok) = last
    BY DEF Resumed
  <1> HIDE DEF last, watched, started
  <1> QED BY <1>3, <1>4, <1>5, <1>6

LEMMA EffectCameraState ==
  ASSUME cam \in Camera, NEW stop \in BOOLEAN, NEW f, NEW ok
  PROVE  /\ EffectCamera(stop, f, ok).state = cam.state
         /\ EffectCamera(stop, f, ok).fd => cam.fd
         /\ stop /\ cam.state = "PREVIEW" /\ ok["stopface"] => ~EffectCamera(stop, f, ok).fd
         /\ ~stop => EffectCamera(stop, f, ok).fd = cam.fd
  <1> DEFINE off   == IF stop THEN StopFaceDetection(cam, ok["stopface"]) ELSE cam
             unset == UnsetPreviewCb(off, ok["unsetcb"])
             plain == IF stop /\ sticker # 0
                      THEN SetPreviewCb(unset, "filter", ok["setcb"]) ELSE off
  <1>1. /\ off \in Camera /\ off.state = cam.state
        /\ off.fd => cam.fd
        /\ stop /\ cam.state = "PREVIEW" /\ ok["stopface"] => ~off.fd
        /\ ~stop => off.fd = cam.fd
    BY DEF StopFaceDetection, Camera
  <1>2. plain \in Camera /\ plain.state = off.state /\ plain.fd = off.fd
    <2> HIDE DEF off
    <2>1. unset \in Camera /\ unset.state = off.state /\ unset.fd = off.fd
      BY <1>1 DEF UnsetPreviewCb, Camera, PreviewCb
    <2> HIDE DEF unset
    <2> QED BY <1>1, <2>1 DEF SetPreviewCb, Camera, PreviewCb
  <1>3. /\ SetEffect(plain, EffectOf(f), ok["effect"]).state = plain.state
        /\ SetEffect(plain, EffectOf(f), ok["effect"]).fd = plain.fd
    <2> HIDE DEF plain
    <2> QED BY <1>2 DEF SetEffect, Camera
  <1>4. EffectCamera(stop, f, ok)
          = IF f \in 0 .. 3 THEN SetEffect(plain, EffectOf(f), ok["effect"]) ELSE plain
    BY DEF EffectCamera
  <1> HIDE DEF plain, off
  <1> QED BY <1>1, <1>2, <1>3, <1>4

LEMMA StickerCameraState ==
  ASSUME cam \in Camera, NEW s, NEW ok
  PROVE  /\ StickerCamera(s, ok) \in Camera
         /\ StickerCamera(s, ok).state = cam.state
         /\ StickerCamera(s, ok).fd = cam.fd
  BY StickerCameraType DEF StickerCamera, SetPreviewCb, UnsetPreviewCb, Camera, PreviewCb

LEMMA DetectionState ==
  ASSUME NEW c \in Camera, NEW ok \in BOOLEAN
  PROVE  /\ StopFaceDetection(c, ok).state = c.state
         /\ StopFaceDetection(c, ok).fd = (c.fd /\ ~(c.state = "PREVIEW" /\ ok))
         /\ StartFaceDetection(c, ok).state = c.state
         /\ StartFaceDetection(c, ok).fd = (c.fd \/ (c.state = "PREVIEW" /\ ok))
         /\ StopFaceDetection(c, ok).cb = c.cb
  BY DEF StopFaceDetection, StartFaceDetection, Camera

-------------------------------------------------------------------------------
(* The shape predictor is never used before it is loaded.                  *)

(* What keeps PredictorLoaded: detection can be on, and landmarks computed, *)
(* only after enable_sticker, which runs after the deserialisation.        *)
LoadedInv ==
  /\ lifecycle = "start" => fin = 0
  /\ fin = 1 => loader = "done"
  /\ flag_facerunning => fin = 1
  /\ pc \in {"landmark", "bound", "mouth"} => fin = 1

LEMMA LoadedInit == Init => LoadedInv
  BY DEF Init, LoadedInv

LEMMA LoadedNext == TypeOK /\ LoadedInv /\ [Next]_vars => LoadedInv'
  <1> SUFFICES ASSUME TypeOK, LoadedInv, [Next]_vars PROVE LoadedInv'
    OBVIOUS
  <1> USE DEF LoadedInv
  <1>1. CASE AppCreate
    BY <1>1 DEF AppCreate, flagVars, frameVars
  <1>2. CASE AppResume
    BY <1>2 DEF AppResume, flagVars, frameVars
  <1>3. CASE AppPause
    BY <1>3 DEF AppPause, flagVars, frameVars
  <1>4. CASE AppTerminate
    BY <1>4 DEF AppTerminate, flagVars, frameVars
  <1>5. CASE LoadModel
    BY <1>5 DEF LoadModel, flagVars, frameVars
  <1>6. CASE LoadModelFails
    BY <1>6 DEF LoadModelFails, flagVars
  <1>7. CASE EnableSticker
    BY <1>7 DEF EnableSticker, flagVars, frameVars, Alive
  <1>8. CASE ShutterButton
    BY <1>8 DEF ShutterButton, startVars, frameVars
  <1>9. CASE EffectButton
    <2>1. flag_facerunning' => flag_facerunning
      BY <1>9 DEF EffectButton
    <2> QED BY <1>9, <2>1 DEF EffectButton, startVars, frameVars
  <1>10. CASE StickerButton
    BY <1>10 DEF StickerButton, PredictorReady, startVars, frameVars
  <1>11. CASE MotionButton \/ FaceDetected
    BY <1>11 DEF MotionButton, FaceDetected, startVars, flagVars, frameVars
  <1>12. CASE PreviewCallback
    <2>1. CASE StickerFrame
      BY <2>1 DEF StickerFrame, startVars, flagVars
    <2>2. CASE PlainStickerFrame \/ FilterFrame \/ ApplyFilter
      BY <2>2 DEF PlainStickerFrame, FilterFrame, ApplyFilter, startVars, flagVars
    <2>3. CASE PlaceSticker
      BY <2>3 DEF PlaceSticker, NextFace, startVars, flagVars
    <2>4. CASE NoseGesture \/ BoundSticker
      BY <2>4 DEF NoseGesture, BoundSticker, startVars, flagVars
    <2>7. CASE FollowFace
      BY <2>7 DEF FollowFace, NextFace, startVars
    <2>5. CASE TakeRequest \/ EndFrame
      BY <2>5 DEF TakeRequest, EndFrame, startVars
    <2>6. CASE Encode \/ RestartPreview
      BY <2>6 DEF Encode, RestartPreview, startVars, flagVars
    <2> QED BY <1>12, <2>1, <2>2, <2>3, <2>4, <2>5, <2>6, <2>7
        DEF PreviewCallback
  <1>13. CASE UNCHANGED vars
    BY <1>13 DEF vars, startVars, flagVars, frameVars
  <1> QED BY <1>1, <1>2, <1>3, <1>4, <1>5, <1>6, <1>7, <1>8, <1>9, <1>10, <1>11, <1>12,
             <1>13 DEF Next

(* No preview callback evaluates the shape predictor while the loader      *)
(* still writes it, however the calls around it fail.                      *)
THEOREM PredictorSafe == Spec => []PredictorLoaded
  <1>1. LoadedInv => PredictorLoaded
    BY DEF LoadedInv, PredictorLoaded
  <1> QED BY <1>1, InitType, NextType, LoadedInit, LoadedNext, PTL DEF Spec

-------------------------------------------------------------------------------
(* The sticker number.                                                     *)

(* The sticker stays up to MAX_STICKER, but for the two lines of a gesture *)
(* that add to it and test the bound.                                      *)
RangeInv == sticker <= IF pc = "bound" THEN MAX_STICKER + 2 ELSE MAX_STICKER

LEMMA RangeNext ==
  TypeOK /\ LoadedInv /\ RangeInv /\ [Next]_vars => RangeInv'
  <1> SUFFICES ASSUME TypeOK, LoadedInv, RangeInv, [Next]_vars
               PROVE  RangeInv'
    OBVIOUS
  <1> USE ConstantsAssumption DEF RangeInv
  <1>1. CASE LoadModelFails
    BY <1>1 DEF LoadModelFails, LoadedInv, buttonVars, TypeOK
  <1>2. CASE StickerButton
    <2>1. sticker' = (sticker + 1) % MAX_STICKER
      BY <1>2 DEF StickerButton
    <2> QED BY <2>1 DEF TypeOK
  <1>3. CASE NoseGesture
    BY <1>3 DEF NoseGesture, TypeOK
  <1>4. CASE BoundSticker
    BY <1>4 DEF BoundSticker, PastLast, TypeOK
  <1>5. CASE \/ AppCreate \/ AppResume \/ AppPause \/ AppTerminate \/ LoadModel
             \/ EnableSticker \/ ShutterButton \/ EffectButton \/ MotionButton
             \/ FaceDetected
    BY <1>5 DEF AppCreate, AppResume, AppPause, AppTerminate, LoadModel, EnableSticker,
                ShutterButton, EffectButton, MotionButton, FaceDetected, buttonVars,
                frameVars
  <1>6. CASE \/ StickerFrame \/ PlainStickerFrame \/ FilterFrame \/ ApplyFilter
             \/ PlaceSticker \/ FollowFace \/ TakeRequest \/ EndFrame \/ Encode
             \/ RestartPreview
    BY <1>6 DEF StickerFrame, PlainStickerFrame, FilterFrame, ApplyFilter, PlaceSticker,
                FollowFace, TakeRequest, EndFrame, Encode, RestartPreview, Delivers,
                NextFace, buttonVars
  <1>7. CASE UNCHANGED vars
    BY <1>7 DEF vars, buttonVars, frameVars
  <1> QED BY <1>1, <1>2, <1>3, <1>4, <1>5, <1>6, <1>7 DEF Next, PreviewCallback

LEMMA RangeInit == Init => RangeInv
  BY ConstantsAssumption DEF Init, RangeInv

-------------------------------------------------------------------------------
(* Face detection is never left running behind the flag's back.            *)

(* Detection ends with the preview or survives it in a device that will    *)
(* not be used again: a handler that clears the flag may find the preview  *)
(* already stopped, but then nothing is left to stop.                      *)
DetectionInv ==
  /\ cam.fd => cam.state \in {"PREVIEW", "DESTROYED"} /\ flag_facerunning
  /\ cam.state = "DESTROYED" => lifecycle = "terminated" /\ pc = "idle"

LEMMA DetectionInit == Init => DetectionInv
  BY DEF Init, DetectionInv, NoCamera

LEMMA DetectionResume ==
  TypeOK /\ DetectionInv /\ ViewResume /\ UNCHANGED flag_facerunning
    => /\ cam'.fd => cam'.state \in {"PREVIEW", "DESTROYED"} /\ flag_facerunning'
       /\ cam'.state = "DESTROYED" <=> cam.state = "DESTROYED"
  <1> SUFFICES ASSUME TypeOK, DetectionInv, ViewResume, UNCHANGED flag_facerunning
               PROVE  /\ cam'.fd => cam'.state \in {"PREVIEW", "DESTROYED"} /\ flag_facerunning'
                      /\ cam'.state = "DESTROYED" <=> cam.state = "DESTROYED"
    OBVIOUS
  <1>1. PICK ok : cam' = Resumed(cam, ok)
    BY DEF ViewResume
  <1>2. cam \in Camera
    BY DEF TypeOK
  <1>3. CASE cam.state = "CREATED"
    BY <1>1, <1>2, <1>3, ResumedState DEF DetectionInv
  <1>4. CASE cam.state # "CREATED"
    BY <1>1, <1>2, <1>4, ResumedState DEF DetectionInv
  <1> QED BY <1>3, <1>4

LEMMA DetectionPause ==
  ASSUME "stopface" \notin Faults, TypeOK, DetectionInv, NEW ok \in Outcomes(PauseCalls)
  PROVE  /\ Paused(cam, ok) \in Camera
         /\ Paused(cam, ok).fd => cam.fd /\ Paused(cam, ok).state = cam.state
         /\ Paused(cam, ok).state = "DESTROYED" <=> cam.state = "DESTROYED"
  <1>1. ok["stopface"]
    BY OutcomesType DEF PauseCalls
  <1>2. cam \in Camera
    BY DEF TypeOK
  <1> QED BY <1>1, <1>2, PausedState, PausedType DEF DetectionInv, Camera, CameraState

LEMMA DetectionNext ==
  "stopface" \notin Faults /\ TypeOK /\ DetectionInv /\ [Next]_vars => DetectionInv'
  <1> SUFFICES ASSUME "stopface" \notin Faults, TypeOK, DetectionInv, [Next]_vars
               PROVE  DetectionInv'
    OBVIOUS
  <1>c. cam \in Camera
    BY DEF TypeOK
  <1>1. CASE AppCreate
    <2>1. CASE cam' = NoCamera \/ cam' = NewCamera
      BY <2>1 DEF DetectionInv, NoCamera, NewCamera
    <2>2. CASE \E ok : cam' = Resumed(NewCamera, ok)
      <3>1. PICK ok : cam' = Resumed(NewCamera, ok)
        BY <2>2
      <3>2. NewCamera \in Camera /\ NewCamera.state = "CREATED" /\ ~NewCamera.fd
        BY NewCameraType DEF NewCamera, NoCamera
      <3>3. UNCHANGED flag_facerunning
        BY <1>1 DEF AppCreate, flagVars
      <3>4. /\ cam'.state \in {"CREATED", "PREVIEW"}
            /\ cam'.fd => cam'.state = "PREVIEW" /\ flag_facerunning
        BY <3>1, <3>2, ResumedState
      <3> QED BY <3>3, <3>4 DEF DetectionInv
    <2> QED BY <1>1, <2>1, <2>2 DEF AppCreate, InitCamera
  <1>2. CASE AppResume
    BY <1>2, DetectionResume DEF AppResume, DetectionInv, flagVars, frameVars
  <1>3. CASE AppPause
    <2>1. PICK ok \in Outcomes(PauseCalls) : cam' = Paused(cam, ok)
      BY <1>3 DEF AppPause, ViewPause
    <2> QED BY <1>3, <2>1, DetectionPause DEF AppPause, DetectionInv, flagVars, frameVars
  <1>4. CASE AppTerminate
    <2>1. PICK ok \in Outcomes(PauseCalls) : cam' = Destroy(Paused(cam, ok))
      BY <1>4 DEF AppTerminate
    <2>2. /\ Destroy(Paused(cam, ok)).fd = Paused(cam, ok).fd
          /\ Usable(Paused(cam, ok)) => Destroy(Paused(cam, ok)).state = "DESTROYED"
          /\ ~Usable(Paused(cam, ok)) => Destroy(Paused(cam, ok)) = Paused(cam, ok)
      BY DetectionPause DEF Destroy, Camera
    <2>3. lifecycle' = "terminated" /\ pc' = "idle" /\ UNCHANGED flag_facerunning
      BY <1>4 DEF AppTerminate, MainLoopFree, flagVars, frameVars
    <2> QED BY <2>1, <2>2, <2>3, DetectionPause DEF Usable, DetectionInv
  <1>5. CASE LoadModelFails
    BY <1>5 DEF LoadModelFails, NoCamera, DetectionInv
  <1>6. CASE EffectButton
    <2>1. PICK ok \in Outcomes(EffectCalls) : \E state \in StateRead(cam, ok["state"]) :
            LET stop == state = "PREVIEW" /\ flag_facerunning
            IN  /\ cam' = EffectCamera(stop, filter', ok)
                /\ flag_facerunning' = (flag_facerunning /\ ~stop)
      BY <1>6 DEF EffectButton
    <2>2. PICK state \in StateRead(cam, ok["state"]) :
            LET stop == state = "PREVIEW" /\ flag_facerunning
            IN  /\ cam' = EffectCamera(stop, filter', ok)
                /\ flag_facerunning' = (flag_facerunning /\ ~stop)
      BY <2>1
    <2> DEFINE stop == state = "PREVIEW" /\ flag_facerunning
    <2>3. ok["stopface"]
      BY OutcomesType DEF EffectCalls
    <2>4. /\ cam'.state = cam.state
          /\ cam'.fd => cam.fd
          /\ stop /\ cam.state = "PREVIEW" => ~cam'.fd
      <3>1. stop \in BOOLEAN /\ cam' = EffectCamera(stop, filter', ok)
        BY <2>2
      <3> HIDE DEF stop
      <3> QED BY <3>1, <2>3, <1>c, EffectCameraState
    <2>5. flag_facerunning' = (flag_facerunning /\ ~stop)
      BY <2>2
    <2>6. lifecycle # "terminated" /\ UNCHANGED <<lifecycle, pc>>
      BY <1>6 DEF EffectButton, Touchable, Alive, startVars, frameVars
    <2> HIDE DEF stop
    <2> QED BY <2>4, <2>5, <2>6 DEF DetectionInv, TypeOK
  <1>7. CASE StickerButton
    <2>1. PICK ok \in Outcomes(StickerCalls) :
            LET c == StickerCamera(sticker', ok)
            IN  \/ cam' = StopFaceDetection(c, ok["stopface"]) /\ flag_facerunning' = FALSE
                \/ cam' = c /\ UNCHANGED flag_facerunning
                \/ /\ ~flag_facerunning
                   /\ cam' = StartFaceDetection(c, ok["facedetect"])
                   /\ flag_facerunning' = (c.state = "PREVIEW" /\ ok["facedetect"])
      BY <1>7 DEF StickerButton
    <2> DEFINE c == StickerCamera(sticker', ok)
    <2>2. c \in Camera /\ c.state = cam.state /\ c.fd = cam.fd
      BY <1>c, StickerCameraState
    <2> HIDE DEF c
    <2>0. ok["stopface"] = TRUE /\ ok["facedetect"] \in BOOLEAN
      BY OutcomesType DEF StickerCalls
    <2>3. /\ StopFaceDetection(c, ok["stopface"]).fd = (c.fd /\ c.state # "PREVIEW")
          /\ StopFaceDetection(c, ok["stopface"]).state = c.state
          /\ StartFaceDetection(c, ok["facedetect"]).state = c.state
          /\ StartFaceDetection(c, ok["facedetect"]).fd
               = (c.fd \/ (c.state = "PREVIEW" /\ ok["facedetect"]))
      <3>2. /\ StopFaceDetection(c, TRUE).fd = (c.fd /\ c.state # "PREVIEW")
            /\ StopFaceDetection(c, TRUE).state = c.state
        BY <2>2, DetectionState
      <3>1. /\ StopFaceDetection(c, ok["stopface"]) = StopFaceDetection(c, TRUE)
            /\ c.fd \in BOOLEAN
        BY <2>0, <2>2 DEF Camera
      <3>3. /\ StartFaceDetection(c, ok["facedetect"]).state = c.state
            /\ StartFaceDetection(c, ok["facedetect"]).fd
                 = (c.fd \/ (c.state = "PREVIEW" /\ ok["facedetect"]))
        BY <2>0, <2>2, DetectionState
      <3> QED BY <3>1, <3>2, <3>3
    <2>7. lifecycle # "terminated" /\ UNCHANGED <<lifecycle, pc>>
      BY <1>7 DEF StickerButton, Touchable, Alive, startVars, frameVars
    <2>4. CASE cam' = StopFaceDetection(c, ok["stopface"])
      BY <2>2, <2>3, <2>4, <2>7 DEF DetectionInv
    <2>5. CASE cam' = c /\ UNCHANGED flag_facerunning
      BY <2>2, <2>5, <2>7 DEF DetectionInv
    <2>6. CASE /\ ~flag_facerunning
               /\ cam' = StartFaceDetection(c, ok["facedetect"])
               /\ flag_facerunning' = (c.state = "PREVIEW" /\ ok["facedetect"])
      BY <2>2, <2>3, <2>6, <2>7 DEF DetectionInv
    <2> QED BY <2>1, <2>4, <2>5, <2>6 DEF c
  <1>8. CASE LoadModel \/ EnableSticker \/ ShutterButton \/ MotionButton \/ FaceDetected
    BY <1>8 DEF LoadModel, EnableSticker, ShutterButton, MotionButton, startVars, frameVars,
                FaceDetected, flagVars, DetectionInv
  <1>9. CASE PreviewCallback
    <2>1. CASE StickerFrame \/ PlainStickerFrame \/ FilterFrame \/ PlaceSticker
               \/ NoseGesture \/ FollowFace \/ EndFrame \/ Encode
      BY <2>1 DEF StickerFrame, PlainStickerFrame, FilterFrame, PlaceSticker, NoseGesture,
                  FollowFace, EndFrame, Encode, Delivers, NextFace, startVars, flagVars,
                  DetectionInv
    <2>2. CASE ApplyFilter
      <3>1. cam'.state = cam.state /\ cam'.fd = cam.fd
        BY <2>2, <1>c DEF ApplyFilter, SetEffect, Camera
      <3> QED BY <2>2, <3>1 DEF ApplyFilter, startVars, flagVars, DetectionInv
    <2>3. CASE BoundSticker
      <3>1. \/ UNCHANGED <<cam, flag_facerunning>>
            \/ cam' = StopFaceDetection(cam, TRUE)
        BY <2>3 DEF BoundSticker, Oks
      <3>4. pc = "bound" /\ UNCHANGED lifecycle
        BY <2>3 DEF BoundSticker, startVars
      <3>2. CASE UNCHANGED <<cam, flag_facerunning>>
        BY <3>2, <3>4 DEF DetectionInv
      <3>3. CASE cam' = StopFaceDetection(cam, TRUE)
        <4>1. /\ StopFaceDetection(cam, TRUE).fd = (cam.fd /\ cam.state # "PREVIEW")
              /\ StopFaceDetection(cam, TRUE).state = cam.state
          BY <1>c, DetectionState
        <4> QED BY <3>3, <3>4, <4>1 DEF DetectionInv
      <3> QED BY <3>1, <3>2, <3>3
    <2>4. CASE TakeRequest
      <3>1. PICK ok \in Outcomes(PauseCalls) : cam' = Paused(cam, ok)
        BY <2>4 DEF TakeRequest, ViewPause
      <3>2. pc = "capture" /\ UNCHANGED <<lifecycle, flag_facerunning>>
        BY <2>4 DEF TakeRequest, startVars
      <3> QED BY <3>1, <3>2, DetectionPause DEF DetectionInv
    <2>5. CASE RestartPreview
      BY <2>5, DetectionResume DEF RestartPreview, DetectionInv, startVars, flagVars
    <2> QED BY <1>9, <2>1, <2>2, <2>3, <2>4, <2>5 DEF PreviewCallback
  <1>10. CASE UNCHANGED vars
    BY <1>10 DEF vars, startVars, frameVars, flagVars, DetectionInv
  <1> QED BY <1>1, <1>2, <1>3, <1>4, <1>5, <1>6, <1>7, <1>8, <1>9, <1>10 DEF Next

(* As long as stopping detection does not fail, no order of buttons,       *)
(* gestures, pauses, captures and other failing calls leaves the device    *)
(* detecting faces while flag_facerunning says it does not: the sticker    *)
(* button can always switch it off.  A preview that fails to stop, a state *)
(* that cannot be read and a restart that fails are among those calls.     *)
THEOREM DetectionSafe == "stopface" \notin Faults => (Spec => []DetectionNeverForgotten)
  <1> SUFFICES ASSUME "stopface" \notin Faults PROVE Spec => []DetectionNeverForgotten
    OBVIOUS
  <1>1. DetectionInv => DetectionNeverForgotten
    BY DEF DetectionInv, DetectionNeverForgotten
  <1>2. TypeOK /\ DetectionInv /\ [Next]_vars => DetectionInv'
    BY DetectionNext
  <1> QED BY <1>1, <1>2, InitType, NextType, DetectionInit, PTL DEF Spec

===============================================================================
