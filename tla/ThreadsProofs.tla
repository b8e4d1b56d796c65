----------------------------- MODULE ThreadsProofs -----------------------------
(***************************************************************************)
(* Theorems about CameraThreads: what holds although the main loop, the    *)
(* camera's thread and the loader interleave call by call.                 *)
(***************************************************************************)
EXTENDS CameraThreads, TLAPS

-------------------------------------------------------------------------------
(* The steps a thread is made of, one lemma for each form.                 *)

Labels(t) == IF t = "main" THEN MainLabel ELSE CameraLabel

LEMMA Moves ==
  ASSUME ThreadsTypeOK, NEW t \in Thread, NEW label \in Labels(t), Goto(t, label)
  PROVE  /\ at' \in [Thread -> MainLabel \cup CameraLabel]
         /\ at'["main"] \in MainLabel /\ at'["camera"] \in CameraLabel
         /\ at'[t] = label
         /\ \A u \in Thread \ {t} : at'[u] = at[u]
  BY DEF ThreadsTypeOK, Goto, Labels, Thread

LEMMA TestType ==
  ASSUME ThreadsTypeOK, NEW t \in Thread, NEW from,
         NEW yes \in Labels(t), NEW no \in Labels(t), NEW condition,
         Test(t, from, yes, no, condition)
  PROVE  ThreadsTypeOK'
  <1>1. CASE condition
    <2>1. Goto(t, yes)
      BY <1>1 DEF Test, Goto
    <2> QED BY <2>1, Moves DEF Test, ThreadsTypeOK, lifeVars, infoVars, loopVars
  <1>2. CASE ~condition
    <2>1. Goto(t, no)
      BY <1>2 DEF Test, Goto
    <2> QED BY <2>1, Moves DEF Test, ThreadsTypeOK, lifeVars, infoVars, loopVars
  <1> QED BY <1>1, <1>2

LEMMA CallType ==
  ASSUME ThreadsTypeOK, NEW t \in Thread, NEW from, NEW to \in Labels(t),
         NEW camera \in Camera, Call(t, from, to, camera)
  PROVE  ThreadsTypeOK'
  BY Moves DEF Call, ThreadsTypeOK, lifeVars, infoVars, loopVars

LEMMA StoreType ==
  ASSUME ThreadsTypeOK, NEW t \in Thread, NEW from, NEW to \in Labels(t),
         NEW value \in BOOLEAN,
         SetSticker(t, from, to, value) \/ SetRunning(t, from, to, value)
  PROVE  ThreadsTypeOK'
  BY Moves DEF SetSticker, SetRunning, ThreadsTypeOK, lifeVars, loopVars

LEMMA DeviceTypes ==
  ASSUME NEW c \in Camera, NEW ok \in BOOLEAN, NEW cb \in PreviewCb
  PROVE  /\ StartPreview(c, ok) \in Camera /\ StopPreview(c, ok) \in Camera
         /\ SetPreviewCb(c, cb, ok) \in Camera /\ UnsetPreviewCb(c, ok) \in Camera
         /\ StartFaceDetection(c, ok) \in Camera /\ StopFaceDetection(c, ok) \in Camera
         /\ Destroy(c) \in Camera /\ NoCamera \in Camera /\ NewCamera \in Camera
  BY DEF StartPreview, StopPreview, SetPreviewCb, UnsetPreviewCb, StartFaceDetection,
         StopFaceDetection, Destroy, NoCamera, NewCamera, Camera, CameraState, PreviewCb,
         Effect

LEMMA OksType == \A call : Oks(call) \subseteq BOOLEAN /\ (call \notin Faults => Oks(call) = {TRUE})
  BY DEF Oks

LEMMA CommonLabels ==
  /\ \A t \in Thread : PauseLabel \cup ResumeLabel \cup {"idle"} \subseteq Labels(t)
  /\ EffectLabel \cup StickerLabel \cup {"destroy"} \subseteq Labels("main")
  /\ LoopLabel \cup {"frame", "copy", "request", "take", "encode"} \subseteq Labels("camera")
  /\ "main" \in Thread /\ "camera" \in Thread
  BY DEF Labels, MainLabel, CameraLabel, Thread

LEMMA NoFaces == 0 \in 0 .. MaxFaces
  BY ThreadsAssumption

-------------------------------------------------------------------------------
(* Types.                                                                  *)

LEMMA PauseType ==
  ASSUME ThreadsTypeOK, NEW t \in Thread, ViewPause(t)
  PROVE  ThreadsTypeOK'
  <1>1. AfterPause(t) \in Labels(t)
    BY CommonLabels DEF AfterPause, Labels, Thread, MainLabel, CameraLabel
  <1>2. /\ "pause detection" \in Labels(t) /\ "pause preview" \in Labels(t)
        /\ "forget faces" \in Labels(t) /\ cam \in Camera
    BY CommonLabels DEF PauseLabel, ThreadsTypeOK
  <1>3. CASE Test(t, "pause", "pause detection", AfterPause(t), cam.state = "PREVIEW")
    BY <1>1, <1>2, <1>3, TestType
  <1>4. ASSUME NEW ok \in Oks("stopface"),
               Call(t, "pause detection", "pause preview", StopFaceDetection(cam, ok))
        PROVE  ThreadsTypeOK'
    BY <1>2, <1>4, DeviceTypes, OksType, CallType DEF PreviewCb
  <1>5. ASSUME NEW ok \in Oks("stop"),
               Call(t, "pause preview", "forget faces", StopPreview(cam, ok))
        PROVE  ThreadsTypeOK'
    BY <1>2, <1>5, DeviceTypes, OksType, CallType DEF PreviewCb
  <1>6. CASE ForgetFaces(t)
    <2>1. faces' = 0
      BY <1>6 DEF ForgetFaces
    <2>2. Goto(t, AfterPause(t))
      BY <1>6 DEF ForgetFaces
    <2>3. /\ at' \in [Thread -> MainLabel \cup CameraLabel]
          /\ at'["main"] \in MainLabel /\ at'["camera"] \in CameraLabel
      BY <1>1, <2>2, Moves
    <2> QED BY <1>6, <2>1, <2>3, NoFaces DEF ForgetFaces, ThreadsTypeOK, lifeVars, loopVars
  <1> QED BY <1>3, <1>4, <1>5, <1>6 DEF ViewPause

LEMMA ResumeType ==
  ASSUME ThreadsTypeOK, NEW t \in Thread, ViewResume(t)
  PROVE  ThreadsTypeOK'
  <1>1. /\ ResumeLabel \subseteq Labels(t) /\ "idle" \in Labels(t) /\ cam \in Camera
        /\ RestartLabel \subseteq ResumeLabel
    BY CommonLabels DEF ThreadsTypeOK, ResumeLabel
  <1>2. CASE RestartPreview(t)
    <2>1. PICK from, to \in ResumeLabel, ok \in BOOLEAN :
            Call(t, from, to, UnsetPreviewCb(cam, ok)) \/ Call(t, from, to, StopPreview(cam, ok))
              \/ Call(t, from, to, StartPreview(cam, ok))
      BY <1>2, OksType DEF RestartPreview, ResumeLabel, RestartLabel
    <2> QED BY <1>1, <2>1, DeviceTypes, CallType DEF PreviewCb
  <1>3. CASE RegisterCallback(t)
    <2>1. CASE Test(t, "choose", "set sticker", "set filter", selected)
      BY <1>1, <2>1, TestType DEF ResumeLabel
    <2>2. CASE ~Test(t, "choose", "set sticker", "set filter", selected)
      <3>1. PICK from \in ResumeLabel, cb \in PreviewCb, ok \in BOOLEAN :
              Call(t, from, "idle", SetPreviewCb(cam, cb, ok))
        BY <1>3, <2>2, OksType DEF RegisterCallback, PreviewCb, ResumeLabel
      <3> QED BY <1>1, <3>1, DeviceTypes, CallType
    <2> QED BY <2>1, <2>2
  <1>4. ASSUME NEW ok \in Oks("facedetect"),
               Call(t, "detect", "choose", StartFaceDetection(cam, ok))
        PROVE  ThreadsTypeOK'
    BY <1>1, <1>4, DeviceTypes, OksType, CallType DEF PreviewCb, ResumeLabel
  <1>5. CASE \/ Test(t, "resume", "unset", "idle", cam.state = "CREATED")
             \/ Test(t, "detecting", "detect", "choose", flag_facerunning)
    BY <1>1, <1>5, TestType DEF ResumeLabel, RestartLabel
  <1> QED BY <1>2, <1>3, <1>4, <1>5 DEF ViewResume

LEMMA EffectType ==
  ASSUME ThreadsTypeOK, EffectButton
  PROVE  ThreadsTypeOK'
  <1>1. /\ EffectLabel \cup {"idle"} \subseteq Labels("main") /\ cam \in Camera
        /\ "main" \in Thread
    BY CommonLabels DEF ThreadsTypeOK
  <1>2. CASE \E ok \in Oks("stopface") :
               Call("main", "effect off", "effect flag", StopFaceDetection(cam, ok))
    BY <1>1, <1>2, DeviceTypes, OksType, CallType DEF PreviewCb, EffectLabel
  <1>3. CASE \E ok \in Oks("unsetcb") :
               Call("main", "effect unset", "effect set", UnsetPreviewCb(cam, ok))
    BY <1>1, <1>3, DeviceTypes, OksType, CallType DEF PreviewCb, EffectLabel
  <1>4. CASE \E ok \in Oks("setcb") :
               Call("main", "effect set", "idle", SetPreviewCb(cam, "filter", ok))
    BY <1>1, <1>4, DeviceTypes, OksType, CallType DEF PreviewCb
  <1>5. CASE SetRunning("main", "effect flag", "effect sticker", FALSE)
    BY <1>1, <1>5, StoreType DEF EffectLabel
  <1>6. CASE \/ Test("main", "idle", "effect", "idle", cam.state = "PREVIEW")
             \/ Test("main", "effect", "effect off", "idle", flag_facerunning)
             \/ Test("main", "effect sticker", "effect unset", "idle", selected)
    BY <1>1, <1>6, TestType DEF EffectLabel
  <1> QED BY <1>2, <1>3, <1>4, <1>5, <1>6 DEF EffectButton

LEMMA StickerType ==
  ASSUME ThreadsTypeOK, StickerButton
  PROVE  ThreadsTypeOK'
  <1>1. /\ StickerLabel \cup {"idle"} \subseteq Labels("main") /\ cam \in Camera
        /\ "main" \in Thread
    BY CommonLabels DEF ThreadsTypeOK
  <1>2. ASSUME NEW from, NEW to \in StickerLabel \cup {"idle"}, NEW some \in BOOLEAN,
               SetSticker("main", from, to, some) \/ SetRunning("main", from, to, some)
        PROVE  ThreadsTypeOK'
    BY <1>1, <1>2, StoreType
  <1>3. ASSUME NEW from, NEW yes \in StickerLabel \cup {"idle"},
               NEW no \in StickerLabel \cup {"idle"}, NEW condition,
               Test("main", from, yes, no, condition)
        PROVE  ThreadsTypeOK'
    BY <1>1, <1>3, TestType
  <1>4. ASSUME NEW from, NEW to \in StickerLabel \cup {"idle"}, NEW ok \in BOOLEAN,
               \/ Call("main", from, to, UnsetPreviewCb(cam, ok))
               \/ Call("main", from, to, SetPreviewCb(cam, "sticker", ok))
               \/ Call("main", from, to, StopFaceDetection(cam, ok))
               \/ Call("main", from, to, StartFaceDetection(cam, ok))
        PROVE  ThreadsTypeOK'
    BY <1>1, <1>4, DeviceTypes, CallType DEF PreviewCb
  <1> QED BY <1>2, <1>3, <1>4, OksType DEF StickerButton, StickerLabel

LEMMA CallbackType ==
  ASSUME ThreadsTypeOK, PreviewCallback
  PROVE  ThreadsTypeOK'
  <1>1. /\ LoopLabel \cup {"idle", "frame", "copy", "request", "take", "encode"}
             \cup PauseLabel \cup ResumeLabel \subseteq Labels("camera")
        /\ cam \in Camera /\ "camera" \in Thread
    BY CommonLabels DEF ThreadsTypeOK
  <1>2. CASE Frame
    <2>1. "frame" \in Labels("camera") /\ "request" \in Labels("camera") /\ "idle" \in Labels("camera")
      BY <1>1
    <2>2. Test("camera", "idle", "frame", "idle", TRUE)
            \/ Test("camera", "idle", "request", "idle", TRUE)
      BY <1>2 DEF Frame, Test, Goto
    <2> QED BY <1>1, <2>1, <2>2, TestType
  <1>3. CASE CopyFaces
    <2>1. Goto("camera", "face") \/ Goto("camera", "request")
      BY <1>3 DEF CopyFaces
    <2> QED BY <1>1, <1>3, <2>1, Moves DEF CopyFaces, ThreadsTypeOK, lifeVars, infoVars, LoopLabel
  <1>4. CASE Round
    <2>1. Goto("camera", "face") \/ Goto("camera", "request")
      BY <1>4 DEF Round, NextFace
    <2>2. idx' \in {1} \cup 1 .. MaxFaces /\ count' \in 0 .. MaxFaces
      BY <1>4, ThreadsAssumption DEF Round, NextFace, ThreadsTypeOK
    <2>3. flag_capturing' \in BOOLEAN
      BY <1>4 DEF Round, ThreadsTypeOK
    <2> QED BY <1>1, <1>4, <2>1, <2>2, <2>3, Moves DEF Round, ThreadsTypeOK, lifeVars, LoopLabel
  <1>5. CASE NoseGesture
    <2>1. CASE \/ SetSticker("camera", "face", "bound", TRUE)
               \/ SetSticker("camera", "nose end", "nose off", FALSE)
               \/ SetRunning("camera", "nose flag", "mouth", FALSE)
      BY <1>1, <2>1, StoreType DEF LoopLabel
    <2>2. CASE \E past \in BOOLEAN : Test("camera", "bound", "nose end", "mouth", past)
      BY <1>1, <2>2, TestType DEF LoopLabel
    <2>3. CASE \E ok \in Oks("stopface") :
                 Call("camera", "nose off", "nose flag", StopFaceDetection(cam, ok))
      BY <1>1, <2>3, DeviceTypes, OksType, CallType DEF PreviewCb, LoopLabel
    <2> QED BY <1>5, <2>1, <2>2, <2>3 DEF NoseGesture
  <1>6. CASE TakeRequest
    BY <1>1, <1>6, Moves DEF TakeRequest, ThreadsTypeOK, lifeVars, loopVars, PauseLabel
  <1>7. CASE Encode
    BY <1>1, <1>7, TestType DEF Encode, ResumeLabel
  <1>8. CASE \/ Test("camera", "frame", "copy", "request", flag_facerunning)
             \/ Test("camera", "request", "take", "idle", flag_capturing)
    BY <1>1, <1>8, TestType
  <1> QED BY <1>1, <1>2, <1>3, <1>4, <1>5, <1>6, <1>7, <1>8, PauseType, ResumeType
          DEF PreviewCallback

LEMMA ThreadsTypeInit == Init => ThreadsTypeOK
  <1> SUFFICES ASSUME Init PROVE ThreadsTypeOK
    OBVIOUS
  <1>1. cam \in Camera
    BY DEF Init, NewCamera, NoCamera, Camera, CameraState, PreviewCb, Effect
  <1>2. /\ at \in [Thread -> MainLabel \cup CameraLabel]
        /\ at["main"] \in MainLabel /\ at["camera"] \in CameraLabel
    BY DEF Init, Thread, MainLabel, CameraLabel, ResumeLabel
  <1>3. faces = 0 /\ count = 0
    BY DEF Init
  <1> QED BY <1>1, <1>2, <1>3, NoFaces DEF Init, ThreadsTypeOK

LEMMA ThreadsTypeNext == ThreadsTypeOK /\ [Next]_vars => ThreadsTypeOK'
  <1> SUFFICES ASSUME ThreadsTypeOK, [Next]_vars PROVE ThreadsTypeOK'
    OBVIOUS
  <1>1. /\ {"idle", "resume", "pause", "destroy"} \subseteq Labels("main")
        /\ cam \in Camera /\ "main" \in Thread
    BY CommonLabels DEF ThreadsTypeOK, PauseLabel, ResumeLabel
  <1>2. CASE Created \/ ShutterButton \/ LoadModel \/ EnableSticker \/ FaceDetected
    BY <1>2 DEF Created, ShutterButton, LoadModel, EnableSticker, FaceDetected, ThreadsTypeOK,
                lifeVars, infoVars, loopVars
  <1>3. CASE AppResume \/ AppPause \/ AppTerminate
    <2>1. PICK to \in {"resumed", "paused", "terminated"}, handler \in {"resume", "pause"} :
            /\ lifecycle' = to /\ Goto("main", handler)
            /\ UNCHANGED <<loader, fin, infoVars, cam, loopVars>>
      BY <1>3 DEF AppResume, AppPause, AppTerminate, FrameworkCalls
    <2> QED BY <1>1, <2>1, Moves DEF ThreadsTypeOK, infoVars, loopVars
  <1>4. CASE DestroyCamera
    BY <1>1, <1>4, DeviceTypes, CallType DEF DestroyCamera, PreviewCb
  <1>5. CASE LoadModelFails
    BY <1>5, DeviceTypes
    DEF LoadModelFails, ThreadsTypeOK, infoVars, loopVars, Thread, MainLabel, CameraLabel,
        PreviewCb
  <1>6. CASE UNCHANGED vars
    BY <1>6 DEF vars, lifeVars, infoVars, loopVars, ThreadsTypeOK
  <1> QED BY <1>1, <1>2, <1>3, <1>4, <1>5, <1>6, CallbackType, EffectType, StickerType,
             PauseType, ResumeType DEF Next, MainLoop

(* Both threads stay where their handlers lead, whatever fails.            *)
THEOREM ThreadsTypesCorrect == Spec => []ThreadsTypeOK
  BY ThreadsTypeInit, ThreadsTypeNext, PTL DEF Spec

-------------------------------------------------------------------------------
(* What the handlers that run in both threads leave alone.                 *)

Untouched == UNCHANGED <<lifecycle, loader, fin, selected, flag_capturing, flag_facerunning>>

LEMMA HandlerMoves ==
  ASSUME ThreadsTypeOK, NEW t \in Thread, ViewPause(t) \/ ViewResume(t)
  PROVE  /\ Untouched
         /\ at'[t] \in PauseLabel \cup ResumeLabel \cup {"idle", "encode", "destroy"}
         /\ \A u \in Thread \ {t} : at'[u] = at[u]
  <1>1. ASSUME NEW label \in PauseLabel \cup ResumeLabel \cup {"idle", "encode", "destroy"},
               Goto(t, label)
        PROVE  /\ at'[t] \in PauseLabel \cup ResumeLabel \cup {"idle", "encode", "destroy"}
               /\ \A u \in Thread \ {t} : at'[u] = at[u]
    BY <1>1 DEF Goto, ThreadsTypeOK
  <1>2. CASE ViewPause(t)
    <2>1. PICK label \in PauseLabel \cup {"idle", "encode", "destroy"} : Goto(t, label)
      BY <1>2 DEF ViewPause, Test, Call, ForgetFaces, AfterPause, PauseLabel
    <2>2. Untouched
      BY <1>2 DEF ViewPause, Test, Call, ForgetFaces, Untouched, lifeVars, infoVars
    <2> QED BY <1>1, <2>1, <2>2
  <1>3. CASE ViewResume(t)
    <2>1. PICK label \in ResumeLabel \cup {"idle"} : Goto(t, label)
      BY <1>3 DEF ViewResume, RestartPreview, RegisterCallback, Test, Call, ResumeLabel,
                  RestartLabel
    <2>2. Untouched
      BY <1>3 DEF ViewResume, RestartPreview, RegisterCallback, Test, Call, Untouched,
                  lifeVars, infoVars
    <2> QED BY <1>1, <2>1, <2>2
  <1> QED BY <1>2, <1>3

-------------------------------------------------------------------------------
(* The predictor.                                                          *)

(* Why a frame in the loop means that the model is loaded: the loop runs   *)
(* after a test of the flag, which the sticker button sets after a test of *)
(* fin, which the loader sets when it is done.                             *)
LoadedInv ==
  /\ lifecycle = "start" => fin = 0
  /\ fin = 1 => loader = "done"
  /\ flag_facerunning => fin = 1
  /\ at["main"] \in StickerLabel => fin = 1
  /\ at["camera"] \in LoopLabel \cup {"copy"} => fin = 1

LEMMA LoadedNext ==
  ASSUME ThreadsTypeOK, LoadedInv, [Next]_vars
  PROVE  LoadedInv'
  <1> USE DEF LoadedInv
  <1>0. "main" \in Thread /\ "camera" \in Thread /\ "main" # "camera" /\ DOMAIN at = Thread
    BY DEF Thread, ThreadsTypeOK
  <1>1. ASSUME NEW t \in Thread, ViewPause(t) \/ ViewResume(t) PROVE LoadedInv'
    <2>1. /\ at'[t] \notin StickerLabel /\ at'[t] \notin LoopLabel \cup {"copy"}
      BY <1>1, HandlerMoves DEF PauseLabel, ResumeLabel, RestartLabel, StickerLabel, LoopLabel
    <2>2. at'["main"] \in {at["main"], at'[t]} /\ at'["camera"] \in {at["camera"], at'[t]}
      BY <1>0, <1>1, HandlerMoves
    <2> QED BY <1>1, <2>1, <2>2, HandlerMoves DEF Untouched
  <1>2. CASE Created \/ ShutterButton \/ LoadModel \/ EnableSticker \/ FaceDetected
    <2>1. (flag_facerunning' => flag_facerunning) /\ at' = at
      BY <1>2 DEF Created, ShutterButton, LoadModel, EnableSticker, FaceDetected, infoVars
    <2> QED BY <1>2, <2>1 DEF Created, ShutterButton, LoadModel, EnableSticker, FaceDetected,
                              Alive, lifeVars
  <1>3. CASE AppResume \/ AppPause \/ AppTerminate
    <2>1. /\ flag_facerunning' => flag_facerunning
          /\ lifecycle' # "start" /\ UNCHANGED <<loader, fin>>
      BY <1>3 DEF AppResume, AppPause, AppTerminate, FrameworkCalls, infoVars
    <2>2. at'["main"] \notin StickerLabel /\ at'["camera"] = at["camera"]
      BY <1>0, <1>3 DEF AppResume, AppPause, AppTerminate, FrameworkCalls, Goto, StickerLabel
    <2> QED BY <2>1, <2>2
  <1>4. CASE DestroyCamera
    BY <1>0, <1>4 DEF DestroyCamera, Call, Goto, lifeVars, infoVars, StickerLabel, ThreadsTypeOK
  <1>5. CASE LoadModelFails
    BY <1>0, <1>5 DEF LoadModelFails, infoVars, StickerLabel, LoopLabel
  <1>6. CASE EffectButton
    <2>1. at'["main"] \notin StickerLabel /\ at'["camera"] = at["camera"]
      BY <1>0, <1>6 DEF EffectButton, Test, Call, SetRunning, Goto, StickerLabel, ThreadsTypeOK
    <2>2. UNCHANGED lifeVars /\ (flag_facerunning' => flag_facerunning)
      <3>1. CASE SetRunning("main", "effect flag", "effect sticker", FALSE)
        BY <3>1 DEF SetRunning
      <3>2. CASE ~SetRunning("main", "effect flag", "effect sticker", FALSE)
        <4>1. UNCHANGED lifeVars /\ UNCHANGED infoVars
          BY <1>6, <3>2, Zenon DEF EffectButton, Test, Call
        <4> QED BY <4>1 DEF infoVars
      <3> QED BY <3>1, <3>2
    <2> QED BY <2>1, <2>2 DEF lifeVars
  <1>7. CASE StickerButton
    <2>1. UNCHANGED lifeVars /\ at'["camera"] = at["camera"]
      BY <1>0, <1>7 DEF StickerButton, Test, Call, SetSticker, SetRunning, Goto
    <2>2. fin = 1
      BY <1>0, <1>7 DEF StickerButton, PredictorReady, Test, Call, SetSticker, SetRunning,
                        StickerLabel
    <2> QED BY <2>1, <2>2 DEF lifeVars
  <1>8. CASE PreviewCallback
    <2>1. CASE ViewPause("camera") \/ ViewResume("camera")
      BY <1>0, <1>1, <2>1
    <2>2. CASE \/ Frame \/ CopyFaces \/ Round \/ NoseGesture \/ TakeRequest \/ Encode
               \/ Test("camera", "frame", "copy", "request", flag_facerunning)
               \/ Test("camera", "request", "take", "idle", flag_capturing)
      <3>1. at'["main"] = at["main"] /\ UNCHANGED lifeVars
        BY <1>0, <2>2
        DEF Frame, CopyFaces, Round, NextFace, NoseGesture, TakeRequest, Encode, Test, Call,
            SetSticker, SetRunning, Goto
      <3>2. flag_facerunning' => flag_facerunning
        BY <2>2
        DEF Frame, CopyFaces, Round, NoseGesture, TakeRequest, Encode, Test, Call,
            SetSticker, SetRunning, infoVars
      <3>3. at'["camera"] \in LoopLabel \cup {"copy"} => fin = 1
        <4>1. CASE CopyFaces \/ Round \/ NoseGesture
          BY <4>1 DEF CopyFaces, Round, NoseGesture, Test, Call, SetSticker, SetRunning,
                      LoopLabel
        <4>2. CASE \/ Frame \/ TakeRequest \/ Encode
                   \/ Test("camera", "request", "take", "idle", flag_capturing)
          BY <1>0, <4>2 DEF Frame, TakeRequest, Encode, Test, Goto, LoopLabel
        <4>3. CASE Test("camera", "frame", "copy", "request", flag_facerunning)
          BY <1>0, <4>3 DEF Test, Goto, LoopLabel
        <4> QED BY <2>2, <4>1, <4>2, <4>3
      <3> QED BY <3>1, <3>2, <3>3 DEF lifeVars
    <2> QED BY <1>8, <2>1, <2>2 DEF PreviewCallback
  <1>9. CASE UNCHANGED vars
    BY <1>9 DEF vars, lifeVars, infoVars
  <1> QED BY <1>0, <1>1, <1>2, <1>3, <1>4, <1>5, <1>6, <1>7, <1>8, <1>9 DEF Next, MainLoop

(* No frame meets a half-loaded shape predictor, although loader, button   *)
(* and frame run in three threads.                                         *)
THEOREM ThreadsPredictorSafe == Spec => []PredictorLoaded
  <1>1. Init => LoadedInv
    BY DEF Init, LoadedInv, Thread, StickerLabel, LoopLabel
  <1>2. ThreadsTypeOK /\ LoadedInv /\ [Next]_vars => LoadedInv'
    BY LoadedNext
  <1>3. LoadedInv => PredictorLoaded
    BY DEF LoadedInv, PredictorLoaded
  <1> QED BY <1>1, <1>2, <1>3, ThreadsTypesCorrect, PTL DEF Spec

-------------------------------------------------------------------------------
(* The callback of a running preview.                                      *)

Bare(c) == c.state = "PREVIEW" /\ c.cb = "none"

LEMMA BareCalls ==
  ASSUME NEW c \in Camera, NEW ok \in BOOLEAN
  PROVE  /\ Bare(StopPreview(c, ok)) => Bare(c)
         /\ Bare(StopFaceDetection(c, ok)) => Bare(c)
         /\ Bare(StartFaceDetection(c, ok)) => Bare(c)
         /\ ~Bare(SetPreviewCb(c, "sticker", TRUE)) /\ ~Bare(SetPreviewCb(c, "filter", TRUE))
         /\ ~Bare(Destroy(c)) /\ ~Bare(NoCamera) /\ ~Bare(NewCamera)
  BY DEF Bare, StopPreview, StopFaceDetection, StartFaceDetection, SetPreviewCb, Destroy,
         NoCamera, NewCamera, Usable, Camera

(* A step of one thread leaves a callback if it is about to set one, or    *)
(* was not about to and takes none away.                                   *)
LEMMA CallbackStep ==
  ASSUME PreviewHasCallback, NEW t \in Thread,
         \A u \in Thread \ {t} : at'[u] = at[u],
         \/ at'[t] \in Rewiring
         \/ ~Bare(cam')
         \/ at[t] \notin Rewiring /\ (Bare(cam') => Bare(cam))
  PROVE  PreviewHasCallback'
  BY DEF PreviewHasCallback, Bare

LEMMA GoesTo ==
  ASSUME ThreadsTypeOK, NEW t \in Thread, NEW label, Goto(t, label)
  PROVE  at'[t] = label /\ \A u \in Thread \ {t} : at'[u] = at[u]
  BY DEF Goto, ThreadsTypeOK

LEMMA TestCallback ==
  ASSUME ThreadsTypeOK, PreviewHasCallback, NEW t \in Thread, NEW from, NEW yes, NEW no,
         NEW condition, Test(t, from, yes, no, condition),
         from \in Rewiring => yes \in Rewiring /\ no \in Rewiring
  PROVE  PreviewHasCallback'
  <1>1. /\ at'[t] \in {yes, no} /\ at[t] = from /\ cam' = cam
        /\ \A u \in Thread \ {t} : at'[u] = at[u]
    BY GoesTo DEF Test
  <1> QED BY <1>1, CallbackStep

LEMMA CallCallback ==
  ASSUME ThreadsTypeOK, PreviewHasCallback, NEW t \in Thread, NEW from, NEW to,
         NEW camera, Call(t, from, to, camera),
         \/ to \in Rewiring
         \/ ~Bare(camera)
         \/ from \notin Rewiring /\ (Bare(camera) => Bare(cam))
  PROVE  PreviewHasCallback'
  <1>1. /\ at'[t] = to /\ at[t] = from /\ cam' = camera
        /\ \A u \in Thread \ {t} : at'[u] = at[u]
    BY GoesTo DEF Call
  <1> QED BY <1>1, CallbackStep

LEMMA StoreCallback ==
  ASSUME ThreadsTypeOK, PreviewHasCallback, NEW t \in Thread, NEW from, NEW to,
         NEW value, SetSticker(t, from, to, value) \/ SetRunning(t, from, to, value),
         from \notin Rewiring
  PROVE  PreviewHasCallback'
  <1>1. /\ at'[t] = to /\ at[t] = from /\ cam' = cam
        /\ \A u \in Thread \ {t} : at'[u] = at[u]
    BY GoesTo DEF SetSticker, SetRunning
  <1> QED BY <1>1, CallbackStep

LEMMA RewiringLabels ==
  /\ Rewiring = {"stop", "start", "stop again", "start again", "detecting", "detect",
                 "choose", "set sticker", "set filter", "effect set", "sticker set"}
  /\ \A t \in Thread : AfterPause(t) \notin Rewiring
  BY DEF Rewiring, ResumeLabel, RestartLabel, AfterPause

LEMMA PauseCallback ==
  ASSUME ThreadsTypeOK, PreviewHasCallback, NEW t \in Thread, ViewPause(t)
  PROVE  PreviewHasCallback'
  <1>0. cam \in Camera
    BY DEF ThreadsTypeOK
  <1>1. CASE Test(t, "pause", "pause detection", AfterPause(t), cam.state = "PREVIEW")
    BY <1>1, RewiringLabels, TestCallback
  <1>2. CASE \E ok \in Oks("stopface") :
               Call(t, "pause detection", "pause preview", StopFaceDetection(cam, ok))
    <2>1. PICK ok \in BOOLEAN :
            Call(t, "pause detection", "pause preview", StopFaceDetection(cam, ok))
      BY <1>2, OksType
    <2>2. "pause detection" \notin Rewiring /\ (Bare(StopFaceDetection(cam, ok)) => Bare(cam))
      BY <1>0, BareCalls, RewiringLabels
    <2> QED BY <2>1, <2>2, CallCallback
  <1>3. CASE \E ok \in Oks("stop") :
               Call(t, "pause preview", "forget faces", StopPreview(cam, ok))
    <2>1. PICK ok \in BOOLEAN : Call(t, "pause preview", "forget faces", StopPreview(cam, ok))
      BY <1>3, OksType
    <2>2. "pause preview" \notin Rewiring /\ (Bare(StopPreview(cam, ok)) => Bare(cam))
      BY <1>0, BareCalls, RewiringLabels
    <2> QED BY <2>1, <2>2, CallCallback
  <1>4. CASE ForgetFaces(t)
    <2>1. Goto(t, AfterPause(t)) /\ at[t] \notin Rewiring /\ cam' = cam
      BY <1>4, RewiringLabels DEF ForgetFaces
    <2> QED BY <2>1, GoesTo, CallbackStep
  <1> QED BY <1>1, <1>2, <1>3, <1>4 DEF ViewPause

LEMMA ResumeCallback ==
  ASSUME ThreadsTypeOK, PreviewHasCallback, "setcb" \notin Faults, NEW t \in Thread,
         ViewResume(t)
  PROVE  PreviewHasCallback'
  <1>0. cam \in Camera /\ Oks("setcb") = {TRUE}
    BY OksType DEF ThreadsTypeOK
  <1>1. CASE Test(t, "resume", "unset", "idle", cam.state = "CREATED")
    BY <1>1, RewiringLabels, TestCallback
  <1>2. CASE RestartPreview(t)
    <2>1. PICK from, to, camera : /\ to \in Rewiring
                                  /\ Call(t, from, to, camera)
      BY <1>2, RewiringLabels DEF RestartPreview
    <2> QED BY <2>1, CallCallback
  <1>3. CASE Test(t, "detecting", "detect", "choose", flag_facerunning)
    BY <1>3, RewiringLabels, TestCallback
  <1>4. CASE \E ok \in Oks("facedetect") :
               Call(t, "detect", "choose", StartFaceDetection(cam, ok))
    BY <1>4, RewiringLabels, CallCallback
  <1>5. CASE RegisterCallback(t)
    <2>1. CASE Test(t, "choose", "set sticker", "set filter", selected)
      BY <2>1, RewiringLabels, TestCallback
    <2>2. CASE \/ Call(t, "set sticker", "idle", SetPreviewCb(cam, "sticker", TRUE))
               \/ Call(t, "set filter", "idle", SetPreviewCb(cam, "filter", TRUE))
      BY <1>0, <2>2, BareCalls, CallCallback
    <2> QED BY <1>0, <1>5, <2>1, <2>2 DEF RegisterCallback
  <1> QED BY <1>1, <1>2, <1>3, <1>4, <1>5 DEF ViewResume

LEMMA ButtonCallback ==
  ASSUME ThreadsTypeOK, PreviewHasCallback, "setcb" \notin Faults,
         EffectButton \/ StickerButton
  PROVE  PreviewHasCallback'
  <1>0. cam \in Camera /\ "main" \in Thread /\ Oks("setcb") = {TRUE}
    BY OksType DEF ThreadsTypeOK, Thread
  <1>1. ASSUME NEW from, from \notin Rewiring, NEW yes, NEW no, NEW condition,
               Test("main", from, yes, no, condition)
        PROVE  PreviewHasCallback'
    BY <1>0, <1>1, TestCallback
  <1>2. ASSUME NEW from, from \notin Rewiring, NEW to, NEW value,
               SetSticker("main", from, to, value) \/ SetRunning("main", from, to, value)
        PROVE  PreviewHasCallback'
    BY <1>0, <1>2, StoreCallback
  <1>3. ASSUME NEW from, from \notin Rewiring, NEW to, NEW ok \in BOOLEAN,
               Call("main", from, to, StopFaceDetection(cam, ok))
                 \/ Call("main", from, to, StartFaceDetection(cam, ok))
        PROVE  PreviewHasCallback'
    BY <1>0, <1>3, BareCalls, CallCallback
  <1>4. CASE \/ Call("main", "effect set", "idle", SetPreviewCb(cam, "filter", TRUE))
             \/ Call("main", "sticker set", "sticker none", SetPreviewCb(cam, "sticker", TRUE))
    BY <1>0, <1>4, BareCalls, CallCallback
  <1>5. ASSUME NEW from, NEW to \in {"effect set", "sticker set"}, NEW camera,
               Call("main", from, to, camera)
        PROVE  PreviewHasCallback'
    BY <1>0, <1>5, RewiringLabels, CallCallback
  <1>6. CASE EffectButton
    BY <1>0, <1>1, <1>2, <1>3, <1>4, <1>5, <1>6, OksType, RewiringLabels DEF EffectButton
  <1>7. CASE StickerButton
    BY <1>0, <1>1, <1>2, <1>3, <1>4, <1>5, <1>7, OksType, RewiringLabels DEF StickerButton
  <1> QED BY <1>6, <1>7

LEMMA FrameCallback ==
  ASSUME ThreadsTypeOK, PreviewHasCallback, "setcb" \notin Faults, PreviewCallback
  PROVE  PreviewHasCallback'
  <1>0. cam \in Camera /\ "camera" \in Thread
    BY DEF ThreadsTypeOK, Thread
  <1>1. ASSUME NEW from, from \notin Rewiring, NEW yes, NEW no, NEW condition,
               Test("camera", from, yes, no, condition)
        PROVE  PreviewHasCallback'
    BY <1>0, <1>1, TestCallback
  <1>2. CASE NoseGesture
    <2>1. CASE \/ SetSticker("camera", "face", "bound", TRUE)
               \/ SetSticker("camera", "nose end", "nose off", FALSE)
               \/ SetRunning("camera", "nose flag", "mouth", FALSE)
      <3>1. "face" \notin Rewiring /\ "nose end" \notin Rewiring /\ "nose flag" \notin Rewiring
        BY RewiringLabels
      <3>2. PICK from, to, value : /\ from \notin Rewiring
                                   /\ \/ SetSticker("camera", from, to, value)
                                      \/ SetRunning("camera", from, to, value)
        BY <2>1, <3>1, Zenon
      <3> QED BY <1>0, <3>2, StoreCallback
    <2>2. CASE \E ok \in Oks("stopface") :
                 Call("camera", "nose off", "nose flag", StopFaceDetection(cam, ok))
      <3>1. PICK ok \in BOOLEAN :
              Call("camera", "nose off", "nose flag", StopFaceDetection(cam, ok))
        BY <2>2, OksType
      <3>2. Bare(StopFaceDetection(cam, ok)) => Bare(cam)
        BY <1>0, BareCalls
      <3>3. "nose off" \notin Rewiring
        BY RewiringLabels
      <3> QED BY <1>0, <3>1, <3>2, <3>3, CallCallback
    <2> QED BY <1>1, <1>2, <2>1, <2>2, RewiringLabels DEF NoseGesture
  <1>3. CASE CopyFaces \/ Round \/ TakeRequest
    <2>1. PICK label : Goto("camera", label)
      BY <1>3 DEF CopyFaces, Round, NextFace, TakeRequest
    <2>2. cam' = cam /\ at["camera"] \notin Rewiring
      BY <1>3, RewiringLabels DEF CopyFaces, Round, TakeRequest
    <2> QED BY <1>0, <2>1, <2>2, GoesTo, CallbackStep
  <1> QED BY <1>0, <1>1, <1>2, <1>3, PauseCallback, ResumeCallback, RewiringLabels
          DEF PreviewCallback, Frame, Encode

LEMMA CallbackNext ==
  ASSUME ThreadsTypeOK, PreviewHasCallback, "setcb" \notin Faults, [Next]_vars
  PROVE  PreviewHasCallback'
  <1>0. cam \in Camera /\ "main" \in Thread
    BY DEF ThreadsTypeOK, Thread
  <1>1. CASE \/ Created \/ ShutterButton \/ LoadModel \/ EnableSticker \/ FaceDetected
             \/ UNCHANGED vars
    <2>1. cam' = cam /\ at' = at
      BY <1>1 DEF Created, ShutterButton, LoadModel, EnableSticker, FaceDetected, vars
    <2> QED BY <2>1 DEF PreviewHasCallback
  <1>2. CASE AppResume \/ AppPause \/ AppTerminate
    <2>1. PICK handler : Goto("main", handler)
      BY <1>2 DEF AppResume, AppPause, AppTerminate, FrameworkCalls
    <2>2. cam' = cam /\ at["main"] \notin Rewiring
      BY <1>2, RewiringLabels DEF AppResume, AppPause, AppTerminate, FrameworkCalls
    <2> QED BY <1>0, <2>1, <2>2, GoesTo, CallbackStep
  <1>3. CASE DestroyCamera
    BY <1>0, <1>3, BareCalls, CallCallback DEF DestroyCamera
  <1>4. CASE LoadModelFails
    BY <1>4 DEF LoadModelFails, PreviewHasCallback, NoCamera
  <1> QED BY <1>0, <1>1, <1>2, <1>3, <1>4, PauseCallback, ResumeCallback, ButtonCallback,
             FrameCallback DEF Next, MainLoop

(* If registering a callback does not fail, a preview without one is about *)
(* to get one, however the four places that take it away interleave.       *)
THEOREM ThreadsCallbackSafe == "setcb" \notin Faults => (Spec => []PreviewHasCallback)
  <1> SUFFICES ASSUME "setcb" \notin Faults PROVE Spec => []PreviewHasCallback
    OBVIOUS
  <1>1. Init => PreviewHasCallback
    BY DEF Init, PreviewHasCallback, NewCamera, NoCamera
  <1>2. ThreadsTypeOK /\ PreviewHasCallback /\ [Next]_vars => PreviewHasCallback'
    BY CallbackNext
  <1> QED BY <1>1, <1>2, ThreadsTypesCorrect, PTL DEF Spec

-------------------------------------------------------------------------------
(* The preview of an application in front.                                 *)

(* Where a thread stands that will start the preview.                      *)
Restarting == RestartLabel \cup {"resume", "forget faces", "encode"}

(* An application in front that does not preview has a thread that is      *)
(* about to change that.  The main loop pauses only what has been told to  *)
(* pause, so that its own "forget faces" does not count.                   *)
RestoredInv ==
  /\ lifecycle \in {"start", "created", "resumed", "paused"} => Usable(cam)
  /\ at["main"] \in PauseLabel => lifecycle \in {"paused", "terminated"}
  /\ at["main"] = "destroy" => lifecycle = "terminated"
  /\ lifecycle \in {"start", "created", "resumed"} /\ cam.state # "PREVIEW"
       => \E t \in Thread : at[t] \in Restarting

LEMMA RestoreLabels ==
  /\ Restarting = {"unset", "stop", "start", "stop again", "start again", "resume",
                   "forget faces", "encode"}
  /\ PauseLabel = {"pause", "pause detection", "pause preview", "forget faces"}
  /\ AfterPause("camera") = "encode"
  /\ AfterPause("main") \in {"idle", "destroy"}
  /\ AfterPause("main") = "destroy" => lifecycle = "terminated"
  BY DEF Restarting, RestartLabel, PauseLabel, AfterPause

LEMMA StateCalls ==
  ASSUME NEW c \in Camera, NEW ok \in BOOLEAN
  PROVE  /\ Usable(StopPreview(c, ok)) = Usable(c)
         /\ Usable(StartPreview(c, ok)) = Usable(c)
         /\ Usable(c) => StartPreview(c, TRUE).state = "PREVIEW"
         /\ StopFaceDetection(c, ok).state = c.state
         /\ StartFaceDetection(c, ok).state = c.state
         /\ UnsetPreviewCb(c, ok).state = c.state
         /\ SetPreviewCb(c, "sticker", ok).state = c.state
         /\ SetPreviewCb(c, "filter", ok).state = c.state
  BY DEF Usable, StartPreview, StopPreview, StopFaceDetection, StartFaceDetection,
         SetPreviewCb, UnsetPreviewCb, Camera

LEMMA StateKept ==
  ThreadsTypeOK =>
    \A call : \A ok \in Oks(call) :
      /\ StopFaceDetection(cam, ok).state = cam.state
      /\ StartFaceDetection(cam, ok).state = cam.state
      /\ UnsetPreviewCb(cam, ok).state = cam.state
      /\ SetPreviewCb(cam, "sticker", ok).state = cam.state
      /\ SetPreviewCb(cam, "filter", ok).state = cam.state
  <1> SUFFICES ASSUME ThreadsTypeOK, NEW call, NEW ok \in Oks(call)
               PROVE  /\ StopFaceDetection(cam, ok).state = cam.state
                      /\ StartFaceDetection(cam, ok).state = cam.state
                      /\ UnsetPreviewCb(cam, ok).state = cam.state
                      /\ SetPreviewCb(cam, "sticker", ok).state = cam.state
                      /\ SetPreviewCb(cam, "filter", ok).state = cam.state
    OBVIOUS
  <1>1. cam \in Camera /\ ok \in BOOLEAN
    BY OksType DEF ThreadsTypeOK
  <1> QED BY <1>1, StateCalls

(* A step of one thread while the life cycle stands still.                 *)
LEMMA RestoreStep ==
  ASSUME ThreadsTypeOK, RestoredInv, NEW t \in Thread,
         \A u \in Thread \ {t} : at'[u] = at[u],
         lifecycle' = lifecycle,
         lifecycle \in {"start", "created", "resumed", "paused"} => (Usable(cam) => Usable(cam')),
         t = "main" /\ at'[t] \in PauseLabel => at[t] \in PauseLabel,
         t = "main" /\ at'[t] = "destroy" => lifecycle = "terminated",
         lifecycle \in {"start", "created", "resumed"} /\ Usable(cam) =>
           \/ cam'.state = "PREVIEW"
           \/ at'[t] \in Restarting
           \/ at[t] \notin Restarting /\ cam'.state = cam.state
  PROVE  RestoredInv'
  <1>1. "main" \in Thread
    BY DEF Thread
  <1>2. lifecycle \in {"start", "created", "resumed"} /\ cam'.state # "PREVIEW"
          => \E u \in Thread : at'[u] \in Restarting
    BY DEF RestoredInv
  <1> QED BY <1>1, <1>2 DEF RestoredInv, Usable

LEMMA MoveStep ==
  ASSUME ThreadsTypeOK, RestoredInv, NEW t \in Thread, NEW label, Goto(t, label),
         lifecycle' = lifecycle, Usable(cam) => Usable(cam'),
         t = "main" => label \notin PauseLabel \/ at[t] \in PauseLabel,
         t = "main" => label # "destroy" \/ lifecycle = "terminated",
         lifecycle \in {"start", "created", "resumed"} /\ Usable(cam) =>
           \/ cam'.state = "PREVIEW"
           \/ label \in Restarting
           \/ at[t] \notin Restarting /\ cam'.state = cam.state
  PROVE  RestoredInv'
  <1>1. at'[t] = label /\ \A u \in Thread \ {t} : at'[u] = at[u]
    BY GoesTo
  <1> QED BY <1>1, RestoreStep

(* A step that neither stops nor starts anything nor ends a restart.       *)
LEMMA QuietStep ==
  ASSUME ThreadsTypeOK, RestoredInv, NEW t \in Thread, NEW label, Goto(t, label),
         lifecycle' = lifecycle, cam'.state = cam.state, at[t] \notin Restarting,
         label \notin PauseLabel \cup {"destroy"} \/ t = "camera"
  PROVE  RestoredInv'
  <1>1. Usable(cam) => Usable(cam')
    BY DEF Usable
  <1> QED BY <1>1, MoveStep

LEMMA PauseRestored ==
  ASSUME ThreadsTypeOK, RestoredInv, NEW t \in Thread, ViewPause(t)
  PROVE  RestoredInv'
  <1>0. cam \in Camera /\ t \in {"main", "camera"}
    BY DEF ThreadsTypeOK, Thread
  <1>1. CASE Test(t, "pause", "pause detection", AfterPause(t), cam.state = "PREVIEW")
    <2>1. PICK label \in {"pause detection", AfterPause(t)} : Goto(t, label)
      BY <1>1 DEF Test
    <2>2. at[t] = "pause" /\ cam' = cam /\ lifecycle' = lifecycle
      BY <1>1 DEF Test, lifeVars
    <2>3. /\ at[t] \in PauseLabel /\ at[t] \notin Restarting
          /\ t = "main" => label # "destroy" \/ lifecycle = "terminated"
      BY <2>1, <2>2, RestoreLabels
    <2> QED BY <2>1, <2>2, <2>3, MoveStep
  <1>2. CASE \E ok \in Oks("stopface") :
               Call(t, "pause detection", "pause preview", StopFaceDetection(cam, ok))
    <2>1. cam'.state = cam.state
      BY <1>2, StateKept DEF Call
    <2>2. Goto(t, "pause preview") /\ at[t] = "pause detection" /\ lifecycle' = lifecycle
      BY <1>2 DEF Call, lifeVars
    <2>3. at[t] \in PauseLabel /\ at[t] \notin Restarting /\ (Usable(cam) => Usable(cam'))
      BY <2>1, <2>2, RestoreLabels DEF Usable
    <2> QED BY <2>1, <2>2, <2>3, MoveStep
  <1>3. CASE \E ok \in Oks("stop") :
               Call(t, "pause preview", "forget faces", StopPreview(cam, ok))
    <2>1. Usable(cam) => Usable(cam')
      BY <1>0, <1>3, OksType, StateCalls DEF Call
    <2>2. Goto(t, "forget faces") /\ at[t] = "pause preview" /\ lifecycle' = lifecycle
      BY <1>3 DEF Call, lifeVars
    <2>3. at[t] \in PauseLabel /\ "forget faces" \in Restarting
      BY <2>2, RestoreLabels
    <2> QED BY <2>1, <2>2, <2>3, MoveStep
  <1>4. CASE ForgetFaces(t)
    <2>1. /\ Goto(t, AfterPause(t)) /\ at[t] = "forget faces"
          /\ lifecycle' = lifecycle /\ cam' = cam
      BY <1>4 DEF ForgetFaces, lifeVars
    <2>2. at[t] \in PauseLabel
      BY <2>1, RestoreLabels
    <2>3. t = "main" => /\ lifecycle \in {"paused", "terminated"}
                        /\ AfterPause(t) # "destroy" \/ lifecycle = "terminated"
      BY <2>2, RestoreLabels DEF RestoredInv
    <2>4. t = "camera" => AfterPause(t) \in Restarting
      BY RestoreLabels
    <2> QED BY <1>0, <2>1, <2>2, <2>3, <2>4, MoveStep
  <1> QED BY <1>1, <1>2, <1>3, <1>4 DEF ViewPause

LEMMA ResumeRestored ==
  ASSUME ThreadsTypeOK, RestoredInv, "start" \notin Faults, NEW t \in Thread, ViewResume(t)
  PROVE  RestoredInv'
  <1>0. cam \in Camera /\ t \in {"main", "camera"} /\ Oks("start") = {TRUE}
    BY OksType DEF ThreadsTypeOK, Thread
  <1>1. CASE Test(t, "resume", "unset", "idle", cam.state = "CREATED")
    <2>1. /\ Goto(t, IF cam.state = "CREATED" THEN "unset" ELSE "idle")
          /\ cam' = cam /\ lifecycle' = lifecycle
      BY <1>1 DEF Test, lifeVars
    <2>2. CASE cam.state = "CREATED"
      <3>1. "unset" \in Restarting /\ "unset" \notin PauseLabel
        BY RestoreLabels
      <3> QED BY <2>1, <2>2, <3>1, MoveStep
    <2>3. CASE cam.state # "CREATED"
      <3>1. "idle" \notin PauseLabel /\ (Usable(cam) => cam.state = "PREVIEW")
        BY <2>3, RestoreLabels DEF Usable
      <3> QED BY <2>1, <2>3, <3>1, MoveStep
    <2> QED BY <2>2, <2>3
  <1>2. CASE RestartPreview(t)
    <2>1. CASE Call(t, "start again", "detecting", StartPreview(cam, TRUE))
      <3>1. Usable(cam) => cam'.state = "PREVIEW" /\ Usable(cam')
        BY <1>0, <2>1, StateCalls DEF Call, Usable
      <3>2. Goto(t, "detecting") /\ lifecycle' = lifecycle
        BY <2>1 DEF Call, lifeVars
      <3>3. "detecting" \notin PauseLabel
        BY RestoreLabels
      <3> QED BY <3>1, <3>2, <3>3, MoveStep
    <2>2. CASE ~Call(t, "start again", "detecting", StartPreview(cam, TRUE))
      <3>1. PICK from, to \in RestartLabel, ok \in BOOLEAN :
              Call(t, from, to, UnsetPreviewCb(cam, ok)) \/ Call(t, from, to, StopPreview(cam, ok))
                \/ Call(t, from, to, StartPreview(cam, ok))
        BY <1>0, <1>2, <2>2, OksType DEF RestartPreview, RestartLabel
      <3>2. Usable(cam) => Usable(cam')
        <4>1. /\ Usable(UnsetPreviewCb(cam, ok)) = Usable(cam)
              /\ Usable(StopPreview(cam, ok)) = Usable(cam)
              /\ Usable(StartPreview(cam, ok)) = Usable(cam)
          BY <1>0, StateCalls DEF Usable
        <4> QED BY <3>1, <4>1 DEF Call
      <3>3. Goto(t, to) /\ lifecycle' = lifecycle
        BY <3>1 DEF Call, lifeVars
      <3>4. to \in Restarting /\ to \notin PauseLabel \cup {"destroy"}
        BY RestoreLabels DEF Restarting, RestartLabel
      <3> QED BY <3>2, <3>3, <3>4, MoveStep
    <2> QED BY <2>1, <2>2
  <1>3. CASE \/ Test(t, "detecting", "detect", "choose", flag_facerunning)
             \/ \E ok \in Oks("facedetect") :
                  Call(t, "detect", "choose", StartFaceDetection(cam, ok))
             \/ RegisterCallback(t)
    <2>1. PICK label \in {"detect", "choose", "set sticker", "set filter", "idle"} :
            Goto(t, label)
      BY <1>3 DEF Test, Call, RegisterCallback
    <2>2. at[t] \notin Restarting /\ lifecycle' = lifecycle
      BY <1>3, RestoreLabels DEF Test, Call, RegisterCallback, lifeVars
    <2>3. cam'.state = cam.state
      BY <1>3, StateKept DEF Test, Call, RegisterCallback
    <2>4. label \notin PauseLabel \cup {"destroy"}
      BY RestoreLabels
    <2> QED BY <2>1, <2>2, <2>3, <2>4, QuietStep
  <1> QED BY <1>1, <1>2, <1>3 DEF ViewResume

LEMMA ButtonRestored ==
  ASSUME ThreadsTypeOK, RestoredInv, EffectButton \/ StickerButton
  PROVE  RestoredInv'
  <1>0. cam \in Camera /\ "main" \in Thread
    BY DEF ThreadsTypeOK, Thread
  <1>1. PICK label \in EffectLabel \cup StickerLabel \cup {"idle"} : Goto("main", label)
    BY DEF EffectButton, StickerButton, Test, Call, SetSticker, SetRunning, EffectLabel,
           StickerLabel
  <1>2. at["main"] \notin Restarting /\ lifecycle' = lifecycle
    BY RestoreLabels DEF EffectButton, StickerButton, Test, Call, SetSticker, SetRunning, lifeVars
  <1>3. cam'.state = cam.state
    BY StateKept
    DEF EffectButton, StickerButton, Test, Call, SetSticker, SetRunning
  <1>4. label \notin PauseLabel \cup {"destroy"}
    BY RestoreLabels DEF EffectLabel, StickerLabel
  <1> QED BY <1>0, <1>1, <1>2, <1>3, <1>4, QuietStep

LEMMA FrameRestored ==
  ASSUME ThreadsTypeOK, RestoredInv, "start" \notin Faults, "encode" \notin Faults,
         PreviewCallback
  PROVE  RestoredInv'
  <1>0. cam \in Camera /\ "camera" \in Thread /\ "camera" # "main" /\ Oks("encode") = {TRUE}
    BY OksType DEF ThreadsTypeOK, Thread
  <1>1. CASE ViewPause("camera") \/ ViewResume("camera")
    BY <1>0, <1>1, PauseRestored, ResumeRestored
  <1>2. CASE Encode
    <2>1. Goto("camera", "resume") /\ lifecycle' = lifecycle /\ cam' = cam
      BY <1>0, <1>2 DEF Encode, Test, lifeVars
    <2>2. "resume" \in Restarting
      BY RestoreLabels
    <2> QED BY <1>0, <2>1, <2>2, MoveStep
  <1>3. CASE \/ Frame \/ CopyFaces \/ Round \/ NoseGesture \/ TakeRequest
             \/ Test("camera", "frame", "copy", "request", flag_facerunning)
             \/ Test("camera", "request", "take", "idle", flag_capturing)
    <2>1. PICK label : Goto("camera", label)
      BY <1>3 DEF Frame, CopyFaces, Round, NextFace, NoseGesture, TakeRequest, Test, Call,
                  SetSticker, SetRunning
    <2>2. at["camera"] \notin Restarting /\ lifecycle' = lifecycle
      BY <1>3, RestoreLabels
      DEF Frame, CopyFaces, Round, NoseGesture, TakeRequest, Test, Call, SetSticker,
          SetRunning, lifeVars
    <2>3. cam'.state = cam.state
      BY <1>3, StateKept
      DEF Frame, CopyFaces, Round, NoseGesture, TakeRequest, Test, Call, SetSticker,
          SetRunning
    <2> QED BY <1>0, <2>1, <2>2, <2>3, QuietStep
  <1> QED BY <1>1, <1>2, <1>3 DEF PreviewCallback

LEMMA RestoredNext ==
  ASSUME ThreadsTypeOK, RestoredInv, "start" \notin Faults, "encode" \notin Faults, [Next]_vars
  PROVE  RestoredInv'
  <1>0. cam \in Camera /\ "main" \in Thread
    BY DEF ThreadsTypeOK, Thread
  <1>1. CASE Created
    BY <1>1 DEF Created, RestoredInv, PauseLabel
  <1>2. CASE \/ ShutterButton \/ LoadModel \/ EnableSticker \/ FaceDetected
             \/ UNCHANGED vars
    <2>1. cam' = cam /\ at' = at /\ lifecycle' = lifecycle
      BY <1>2 DEF ShutterButton, LoadModel, EnableSticker, FaceDetected, vars, lifeVars
    <2> QED BY <2>1 DEF RestoredInv, Usable
  <1>3. CASE AppResume
    <2>1. Goto("main", "resume") /\ cam' = cam /\ lifecycle' = "resumed"
          /\ lifecycle \in {"created", "paused"}
      BY <1>3 DEF AppResume, FrameworkCalls
    <2>2. at'["main"] = "resume"
      BY <1>0, <2>1, GoesTo
    <2> QED BY <1>0, <2>1, <2>2, RestoreLabels DEF RestoredInv, Usable
  <1>4. CASE AppPause \/ AppTerminate
    <2>1. /\ Goto("main", "pause") /\ cam' = cam
          /\ lifecycle' \in {"paused", "terminated"}
          /\ lifecycle \in {"created", "resumed", "paused"}
      BY <1>4 DEF AppPause, AppTerminate, FrameworkCalls
    <2>2. at'["main"] = "pause"
      BY <1>0, <2>1, GoesTo
    <2> QED BY <2>1, <2>2 DEF RestoredInv, Usable
  <1>5. CASE DestroyCamera
    <2>1. Goto("main", "idle") /\ lifecycle' = lifecycle /\ lifecycle = "terminated"
      BY <1>5 DEF DestroyCamera, Call, lifeVars, RestoredInv
    <2>2. at'["main"] = "idle" /\ \A u \in Thread \ {"main"} : at'[u] = at[u]
      BY <1>0, <2>1, GoesTo
    <2>3. "idle" \notin PauseLabel
      BY RestoreLabels
    <2> QED BY <1>0, <2>1, <2>2, <2>3, RestoreStep
  <1>6. CASE LoadModelFails
    BY <1>6 DEF LoadModelFails, RestoredInv, Thread, PauseLabel
  <1> QED BY <1>0, <1>1, <1>2, <1>3, <1>4, <1>5, <1>6, PauseRestored, ResumeRestored,
             ButtonRestored, FrameRestored DEF Next, MainLoop

(* If starting the preview and encoding a photo do not fail, an            *)
(* application in front previews whenever both threads are done, however   *)
(* captures and the framework's calls interleave.                          *)
THEOREM ThreadsPreviewSafe ==
  "start" \notin Faults /\ "encode" \notin Faults => (Spec => []PreviewRestored)
  <1> SUFFICES ASSUME "start" \notin Faults, "encode" \notin Faults
               PROVE  Spec => []PreviewRestored
    OBVIOUS
  <1>1. Init => RestoredInv
    <2> SUFFICES ASSUME Init PROVE RestoredInv
      OBVIOUS
    <2>1. Usable(cam)
      BY DEF Init, NewCamera, NoCamera, Usable
    <2>2. at["main"] = "resume" /\ "main" \in Thread
      BY DEF Init, Thread
    <2> QED BY <2>1, <2>2, RestoreLabels DEF RestoredInv
  <1>2. ThreadsTypeOK /\ RestoredInv /\ [Next]_vars => RestoredInv'
    BY RestoredNext
  <1>3. RestoredInv => PreviewRestored
    BY RestoreLabels DEF RestoredInv, PreviewRestored
  <1> QED BY <1>1, <1>2, <1>3, ThreadsTypesCorrect, PTL DEF Spec

===============================================================================
