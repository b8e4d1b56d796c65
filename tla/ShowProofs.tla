------------------------------ MODULE ShowProofs ------------------------------
(***************************************************************************)
(* CameraApp implements StickerShow, and what the two sides of the         *)
(* application promise together.                                           *)
(***************************************************************************)
EXTENDS TapProofs, DeviceProofs

-------------------------------------------------------------------------------
(* The sticker in effect.                                                  *)

(* ChosenSticker as a function of the number.                              *)
Chosen(s) ==
  CASE s > MAX_STICKER -> 0
    [] s <= MAX_STICKER /\ s % 2 = 0 -> s
    [] s <= MAX_STICKER /\ s % 2 = 1 -> (s + 1) % MAX_STICKER

LEMMA ChosenIs == ChosenSticker = Chosen(sticker) /\ ChosenSticker' = Chosen(sticker')
  BY DEF ChosenSticker, Chosen

(* Up to one pair past it, the modulus is subtracted at most once, or else *)
(* twice and nothing is left.                                              *)
LEMMA Wrapped ==
  ASSUME NEW n \in 0 .. MAX_STICKER + 2
  PROVE  (n % MAX_STICKER) = IF n < MAX_STICKER THEN n
                             ELSE IF n < 2 * MAX_STICKER THEN n - MAX_STICKER ELSE 0
  <1> DEFINE M == MAX_STICKER
  <1>1. M \in Nat /\ M >= 2
    BY ConstantsAssumption
  <1>2. \A d \in Nat \ {0} :
          /\ n \div d \in Nat /\ (n % d) \in 0 .. d - 1
          /\ n = d * (n \div d) + (n % d)
    OBVIOUS
  <1> HIDE DEF M
  <1>3. PICK q \in Nat, r \in 0 .. M - 1 : n = M * q + r /\ (n % M) = r
    <2>1. /\ n \div M \in Nat /\ (n % M) \in 0 .. M - 1
          /\ n = M * (n \div M) + (n % M)
      <3>1. M \in Nat \ {0}
        BY <1>1
      <3> QED BY <1>2, <3>1, Zenon
    <2> QED BY <2>1
  <1>4. CASE q = 0
    BY <1>1, <1>3, <1>4 DEF M
  <1>5. CASE q = 1
    BY <1>1, <1>3, <1>5 DEF M
  <1>6. CASE q >= 2
    <2>1. M * q >= M * 2
      BY <1>1, <1>3, <1>6
    <2>2. n >= 2 * M /\ n <= M + 2
      BY <1>1, <1>3, <2>1 DEF M
    <2>3. M = 2 /\ n = 4
      BY <1>1, <2>2
    <2>4. (n % M) = 0
      BY <2>3
    <2> QED BY <2>2, <2>3, <2>4 DEF M
  <1> QED BY <1>3, <1>4, <1>5, <1>6

LEMMA EvenLast == \E m \in Nat : MAX_STICKER = 2 * m /\ m >= 1
  <1>1. MAX_STICKER \in Nat /\ MAX_STICKER >= 2 /\ MAX_STICKER % 2 = 0
    BY ConstantsAssumption, StickerAssumption
  <1>2. MAX_STICKER \div 2 \in Nat /\ MAX_STICKER = 2 * (MAX_STICKER \div 2)
    BY <1>1
  <1> QED BY <1>1, <1>2

(* What an even number becomes.                                            *)
LEMMA Rounds ==
  ASSUME NEW e \in 0 .. MAX_STICKER, e % 2 = 0
  PROVE  LET o == (e + 1) % MAX_STICKER
         IN  /\ Chosen(e) = e
             /\ o \in 1 .. MAX_STICKER /\ o % 2 = 1
             /\ Chosen(o) = (e + 2) % MAX_STICKER
             /\ (e + 2) % MAX_STICKER \in Show!Numbers
             /\ e < MAX_STICKER => /\ e + 2 <= MAX_STICKER
                                   /\ Chosen(e + 2) = e + 2
             /\ e = MAX_STICKER => Chosen(e + 2) = 0
  <1>1. PICK m \in Nat : MAX_STICKER = 2 * m /\ m >= 1
    BY EvenLast
  <1>2. PICK k \in 0 .. m : e = 2 * k
    <2>1. e \div 2 \in Nat /\ e = 2 * (e \div 2)
      OBVIOUS
    <2> QED BY <1>1, <2>1
  <1>3. CASE k < m
    <2>1. e + 1 < MAX_STICKER /\ e + 2 <= MAX_STICKER
      BY <1>1, <1>2, <1>3
    <2>2. (e + 1) % MAX_STICKER = e + 1
      BY <1>1, <2>1, Wrapped
    <2>3. (e + 1) % 2 = 1 /\ (e + 2) % 2 = 0
      OBVIOUS
    <2>4. Chosen(e) = e /\ Chosen(e + 2) = e + 2 /\ Chosen(e + 1) = (e + 2) % MAX_STICKER
      <3>1. (e + 1) + 1 = e + 2
        OBVIOUS
      <3> QED BY <1>1, <2>1, <2>3, <3>1 DEF Chosen
    <2>5. (e + 2) % MAX_STICKER = IF e + 2 < MAX_STICKER THEN e + 2 ELSE 0
      BY <1>1, <2>1, Wrapped
    <2>6. (e + 2) % MAX_STICKER \in Show!Numbers
      BY <1>1, <2>1, <2>3, <2>5 DEF Show!Numbers, Show!Pictures
    <2> QED BY <1>1, <2>1, <2>2, <2>3, <2>4, <2>6
  <1>4. CASE k = m
    <2>1. e = MAX_STICKER /\ MAX_STICKER >= 2
      BY <1>1, <1>2, <1>4
    <2>2. (e + 1) % MAX_STICKER = 1
      BY <1>1, <2>1, Wrapped
    <2>3. (e + 2) % MAX_STICKER = IF 2 < MAX_STICKER THEN 2 ELSE 0
      BY <1>1, <2>1, Wrapped
    <2>4. 2 % MAX_STICKER = IF 2 < MAX_STICKER THEN 2 ELSE 0
      BY <1>1, Wrapped
    <2>5. Chosen(e) = e /\ Chosen(e + 2) = 0 /\ Chosen(1) = 2 % MAX_STICKER
      BY <1>1, <2>1 DEF Chosen
    <2>6. (e + 2) % MAX_STICKER \in Show!Numbers
      BY <1>1, <2>3 DEF Show!Numbers, Show!Pictures
    <2> QED BY <1>1, <2>1, <2>2, <2>3, <2>4, <2>5, <2>6
  <1> QED BY <1>2, <1>3, <1>4

LEMMA NumbersEven == Show!Numbers = {n \in 0 .. MAX_STICKER : n % 2 = 0}
  BY ConstantsAssumption, StickerAssumption DEF Show!Numbers, Show!Pictures

(* Whatever the number, the sticker in effect is an even one.              *)
LEMMA ChosenEven == ASSUME NEW s \in Nat PROVE Chosen(s) \in Show!Numbers
  <1>1. PICK m \in Nat : MAX_STICKER = 2 * m /\ m >= 1
    BY EvenLast
  <1>2. CASE s > MAX_STICKER
    BY <1>1, <1>2 DEF Chosen, Show!Numbers, Show!Pictures
  <1>3. CASE s <= MAX_STICKER /\ s % 2 = 0
    BY <1>1, <1>3 DEF Chosen, Show!Numbers, Show!Pictures
  <1>4. CASE s <= MAX_STICKER /\ s % 2 = 1
    <2>1. s + 1 <= MAX_STICKER /\ (s + 1) % 2 = 0
      BY <1>1, <1>4
    <2>2. (s + 1) % MAX_STICKER = IF s + 1 < MAX_STICKER THEN s + 1 ELSE 0
      BY <1>1, <2>1, Wrapped
    <2>3. Chosen(s) = (s + 1) % MAX_STICKER
      BY <1>1, <1>4 DEF Chosen
    <2> QED BY <1>1, <2>1, <2>2, <2>3 DEF Show!Numbers, Show!Pictures
  <1>5. s % 2 = 0 \/ s % 2 = 1
    OBVIOUS
  <1> QED BY <1>1, <1>2, <1>3, <1>4, <1>5

-------------------------------------------------------------------------------
(* What the gestures and the flag rely on.                                 *)

(* The first face of a frame is searched only for a sticker that is being  *)
(* detected: with the callbacks in the main loop nothing ends the          *)
(* detection in between.                                                   *)
GestureInv == pc = "landmark" /\ idx = 1 => flag_facerunning

(* Detection is on only over a camera that can be asked for its state.     *)
UsableInv == Alive /\ flag_facerunning => Usable(cam)

LEMMA GestureNext ==
  TypeOK /\ GestureInv /\ [Next]_vars => GestureInv'
  <1> SUFFICES ASSUME TypeOK, GestureInv, [Next]_vars PROVE GestureInv'
    OBVIOUS
  <1> USE DEF GestureInv
  <1>1. CASE AppCreate \/ LoadModel \/ ShutterButton
    BY <1>1 DEF AppCreate, LoadModel, ShutterButton, flagVars, frameVars
  <1>2. CASE AppResume \/ AppPause \/ AppTerminate \/ EnableSticker \/ EffectButton
               \/ StickerButton \/ MotionButton \/ FaceDetected
    <2>1. pc' = "idle"
      BY <1>2 DEF AppResume, AppPause, AppTerminate, EnableSticker, EffectButton,
                  StickerButton, MotionButton, FaceDetected, Touchable, MainLoopFree, frameVars
    <2> QED BY <2>1
  <1>3. CASE LoadModelFails
    BY <1>3 DEF LoadModelFails
  <1>4. CASE StickerFrame
    BY <1>4 DEF StickerFrame, flagVars
  <1>5. CASE PlaceSticker \/ FollowFace
    BY <1>5 DEF PlaceSticker, FollowFace, NextFace, TypeOK
  <1>6. CASE PlainStickerFrame \/ FilterFrame \/ ApplyFilter \/ NoseGesture \/ BoundSticker
               \/ TakeRequest \/ EndFrame \/ Encode \/ RestartPreview
    BY <1>6 DEF PlainStickerFrame, FilterFrame, ApplyFilter, NoseGesture, BoundSticker,
                TakeRequest, EndFrame, Encode, RestartPreview
  <1>7. CASE UNCHANGED vars
    BY <1>7 DEF vars, flagVars, frameVars
  <1> QED BY <1>1, <1>2, <1>3, <1>4, <1>5, <1>6, <1>7 DEF Next, PreviewCallback

LEMMA UsableNext ==
  TypeOK /\ LoadedInv /\ UsableInv /\ [Next]_vars => UsableInv'
  <1> SUFFICES ASSUME TypeOK, LoadedInv, UsableInv, [Next]_vars PROVE UsableInv'
    OBVIOUS
  <1> USE DEF UsableInv, Usable
  <1>1. CASE AppCreate
    BY <1>1 DEF AppCreate, LoadedInv, flagVars
  <1>2. CASE AppResume \/ RestartPreview
    BY <1>2, ResumeStates DEF AppResume, RestartPreview, Alive, startVars, flagVars
  <1>3. CASE AppPause \/ TakeRequest
    BY <1>3, PauseStates DEF AppPause, TakeRequest, Alive, startVars, flagVars
  <1>4. CASE AppTerminate \/ LoadModelFails
    BY <1>4 DEF AppTerminate, LoadModelFails, Alive
  <1>5. CASE EffectButton
    <2>1. flag_facerunning' => flag_facerunning
      BY <1>5 DEF EffectButton
    <2> QED BY <1>5, <2>1, EffectButtonStates DEF EffectButton, Alive, startVars
  <1>6. CASE StickerButton
    <2>1. flag_facerunning' => flag_facerunning \/ cam.state = "PREVIEW"
      <3>1. PICK ok :
              flag_facerunning' =>
                flag_facerunning \/ StickerCamera(sticker', ok).state = "PREVIEW"
        BY <1>6 DEF StickerButton
      <3> QED BY <3>1, StickerCameraState DEF TypeOK
    <2> QED BY <1>6, <2>1, StickerButtonStates DEF StickerButton, Touchable, Alive, startVars
  <1>7. CASE BoundSticker
    <2>1. flag_facerunning' => flag_facerunning
      BY <1>7 DEF BoundSticker
    <2> QED BY <1>7, <2>1, BoundStickerStates DEF BoundSticker, Alive, startVars
  <1>8. CASE ApplyFilter
    BY <1>8, ApplyFilterStates DEF ApplyFilter, Alive, startVars, flagVars
  <1>9. CASE LoadModel \/ EnableSticker \/ ShutterButton \/ MotionButton \/ FaceDetected
    BY <1>9 DEF LoadModel, EnableSticker, ShutterButton, MotionButton, FaceDetected, Alive,
                startVars, flagVars
  <1>10. CASE StickerFrame \/ PlainStickerFrame \/ FilterFrame \/ PlaceSticker \/ NoseGesture
                \/ FollowFace \/ EndFrame \/ Encode
    BY <1>10 DEF StickerFrame, PlainStickerFrame, FilterFrame, PlaceSticker, NoseGesture,
                 FollowFace, EndFrame, Encode, Alive, startVars, flagVars
  <1>11. CASE UNCHANGED vars
    BY <1>11 DEF vars, Alive, startVars, flagVars
  <1> QED BY <1>1, <1>2, <1>3, <1>4, <1>5, <1>6, <1>7, <1>8, <1>9, <1>10, <1>11
          DEF Next, PreviewCallback

-------------------------------------------------------------------------------
(* The steps of the application as steps of StickerShow.                   *)

(* Whatever leaves the sticker and the detection alone at most switches    *)
(* the preview.                                                            *)
LEMMA ShowKept ==
  ASSUME UNCHANGED <<sticker, flag_facerunning, fin, strayed>>
  PROVE  Show!SwitchPreview
  <1>1. ChosenSticker' = ChosenSticker
    BY ChosenIs
  <1> QED BY <1>1 DEF Show!SwitchPreview

(* Nothing is promised any more once a press was released off the button.  *)
LEMMA StrayedSteps ==
  ASSUME TypeOK', LayoutTypeOK, LayoutTypeOK', [AppNext]_appVars, strayed \/ strayed'
  PROVE  Show!Next
  <1>0. strayed \in BOOLEAN /\ strayed' \in BOOLEAN
    BY DEF LayoutTypeOK
  <1>1. CASE strayed
    <2>1. strayed'
      <3>1. CASE UNCHANGED layoutVars
        BY <1>1, <3>1 DEF layoutVars
      <3>2. CASE LayoutNext
        BY <1>1, <3>2, Zenon DEF LayoutNext, Press, Release, RunPrograms, Notify, Close
      <3> QED BY <3>1, <3>2, LayoutStep
    <2>2. ChosenSticker' \in Show!Numbers
      <3>1. sticker' \in Nat
        BY DEF TypeOK
      <3> QED BY <3>1, ChosenEven, ChosenIs
    <2>3. UNCHANGED ~strayed
      BY <1>1, <2>1
    <2>4. Show!Disorder
      BY <1>1, <2>2, <2>3 DEF Show!Disorder
    <2> QED BY <2>4 DEF Show!Next
  <1>2. CASE ~strayed
    <2>1. ReleasePart
      <3>1. strayed' # strayed
        BY <1>2
      <3>2. ~UNCHANGED layoutVars
        BY <3>1 DEF layoutVars
      <3>3. ~(PressPart \/ HandleMouse \/ HandleEffect \/ HandleMotion \/ HandleSticker
                \/ HandleShutter \/ CloseWindow)
        BY <3>1 DEF PressPart, HandleMouse, HandleEffect, HandleMotion, HandleSticker,
                    HandleShutter, CloseWindow, Press, RunPrograms, Notify, Close
      <3> QED BY <3>2, <3>3 DEF AppNext, LifeCycle, CameraCallback, LoaderThread, appVars
    <2>2. UNCHANGED <<sticker, flag_facerunning, fin, cam>>
      BY <2>1 DEF ReleasePart, vars, startVars, buttonVars, flagVars
    <2>3. ChosenSticker' = ChosenSticker
      BY <2>2, ChosenIs
    <2>4. Show!Stray
      BY <1>2, <2>2, <2>3 DEF Show!Stray
    <2> QED BY <2>4 DEF Show!Next
  <1> QED BY <1>1, <1>2

(* The effect button ends the detection only over a preview: the state it  *)
(* reads is that of the camera, unless camera_get_state fails.             *)
LEMMA EffectShow ==
  ASSUME TypeOK, UsableInv, EffectButton, UNCHANGED strayed
  PROVE  Show!Next
  <1>0. PICK ok \in Outcomes(EffectCalls) : \E state \in StateRead(cam, ok["state"]) :
          flag_facerunning' = (flag_facerunning /\ ~(state = "PREVIEW" /\ flag_facerunning))
    BY DEF EffectButton
  <1>1. PICK state \in StateRead(cam, ok["state"]) :
          flag_facerunning' = (flag_facerunning /\ ~(state = "PREVIEW" /\ flag_facerunning))
    BY <1>0
  <1>2. UNCHANGED <<sticker, fin>> /\ cam'.state = cam.state /\ Alive
    BY EffectButtonStates DEF EffectButton, Touchable, startVars
  <1>3. CASE UNCHANGED flag_facerunning
    BY <1>2, <1>3, ShowKept DEF Show!Next
  <1>4. CASE flag_facerunning /\ state = "PREVIEW"
    <2>1. "state" \notin Faults => cam.state = "PREVIEW"
      <3>1. "state" \notin Faults => ok["state"] = TRUE
        BY OutcomesType DEF EffectCalls
      <3> QED BY <1>1, <1>2, <1>4, <3>1 DEF UsableInv, StateRead
    <2>2. ChosenSticker' = ChosenSticker /\ flag_facerunning' = FALSE
      BY <1>1, <1>2, <1>4, ChosenIs
    <2>3. Show!Recolour
      BY <1>2, <2>1, <2>2 DEF Show!Recolour
    <2> QED BY <2>3 DEF Show!Next
  <1>5. CASE ~(flag_facerunning /\ state = "PREVIEW")
    BY <1>1, <1>3, <1>5 DEF TypeOK
  <1> QED BY <1>4, <1>5

(* What the handler of the sticker button makes of the flag.               *)
LEMMA StickerFlag ==
  ASSUME TypeOK, StickerButton
  PROVE  /\ flag_facerunning => flag_facerunning' = (sticker' # 0)
         /\ ~flag_facerunning =>
              /\ flag_facerunning' => cam.state = "PREVIEW"
              /\ "facedetect" \notin Faults /\ cam.state = "PREVIEW" => flag_facerunning'
  <1>1. PICK ok \in Outcomes(StickerCalls) :
          LET c == StickerCamera(sticker', ok)
          IN  \/ sticker' = 0 /\ flag_facerunning /\ flag_facerunning' = FALSE
              \/ sticker' # 0 /\ flag_facerunning /\ UNCHANGED flag_facerunning
              \/ /\ ~flag_facerunning
                 /\ flag_facerunning' = (c.state = "PREVIEW" /\ ok["facedetect"])
    BY DEF StickerButton
  <1>2. "facedetect" \notin Faults => ok["facedetect"]
    BY OutcomesType DEF StickerCalls
  <1>3. StickerCamera(sticker', ok).state = cam.state
    BY StickerCameraState DEF TypeOK
  <1> QED BY <1>1, <1>2, <1>3 DEF TypeOK

(* The first signal of a pair is the tap.                                  *)
LEMMA FirstSignal ==
  ASSUME TypeOK, TypeOK', RangeInv, StickerButton, ~strayed, UNCHANGED strayed,
         NEW F, 0 \notin F, SteadyParity(F), SteadyFlag(F)
  PROVE  Show!Tap
  <1>1. fin = 1 /\ UNCHANGED fin /\ sticker' = (sticker + 1) % MAX_STICKER /\ pc = "idle"
    BY DEF StickerButton, PredictorReady, Touchable, MainLoopFree, startVars
  <1>2. sticker \in 0 .. MAX_STICKER /\ sticker % 2 = 0
    BY <1>1, ConstantsAssumption DEF RangeInv, SteadyParity, Mid, TypeOK
  <1>3. /\ ChosenSticker = sticker
        /\ ChosenSticker' = (ChosenSticker + 2) % MAX_STICKER
        /\ sticker' # 0
    BY <1>1, <1>2, Rounds, ChosenIs
  <1>4. /\ cam'.state = cam.state
        /\ flag_facerunning \in BOOLEAN /\ flag_facerunning' \in BOOLEAN
    BY StickerButtonStates DEF TypeOK
  <1>5. "facedetect" \notin Faults =>
          (flag_facerunning'
             <=> (flag_facerunning /\ ChosenSticker # 0) \/ cam.state = "PREVIEW")
    BY <1>3, <1>4, StickerFlag DEF SteadyFlag, Mid
  <1> QED BY <1>1, <1>3, <1>4, <1>5 DEF Show!Tap

(* The second completes it: at most it retries the detection.              *)
LEMMA SecondSignal ==
  ASSUME TypeOK, TypeOK', RangeInv, StickerButton, UNCHANGED strayed,
         NEW F, 0 \in F, SteadyParity(F), SteadyFlag(F)
  PROVE  [Show!Next]_(Show!vars)
  <1>1. fin = 1 /\ UNCHANGED fin /\ sticker' = (sticker + 1) % MAX_STICKER /\ pc = "idle"
    BY DEF StickerButton, PredictorReady, Touchable, MainLoopFree, startVars
  <1>2. sticker \in 0 .. MAX_STICKER /\ sticker % 2 = 1
    BY <1>1, ConstantsAssumption DEF RangeInv, SteadyParity, Mid, TypeOK
  <1>3. ChosenSticker = sticker'
    BY <1>1, <1>2, ChosenIs DEF Chosen
  <1>4. sticker' \in Nat /\ sticker' < MAX_STICKER /\ sticker' % 2 = 0
    BY <1>1, <1>2, Parity, ConstantsAssumption DEF TypeOK
  <1>5. ChosenSticker' = ChosenSticker
    <2>1. Chosen(sticker') = sticker'
      BY <1>4, ConstantsAssumption DEF Chosen
    <2> QED BY <1>3, <2>1, ChosenIs
  <1>6. /\ cam'.state = cam.state
        /\ flag_facerunning \in BOOLEAN /\ flag_facerunning' \in BOOLEAN
    BY StickerButtonStates DEF TypeOK
  <1>7. CASE flag_facerunning' = flag_facerunning \/ ChosenSticker = 0
    <2>1. (flag_facerunning' /\ ChosenSticker' # 0) <=> (flag_facerunning /\ ChosenSticker # 0)
      BY <1>5, <1>7
    <2> QED BY <1>1, <1>5, <1>6, <2>1 DEF Show!vars
  <1>8. CASE flag_facerunning' # flag_facerunning /\ ChosenSticker # 0
    <2>1. ~flag_facerunning /\ flag_facerunning' /\ cam.state = "PREVIEW"
      BY <1>3, <1>6, <1>8, StickerFlag
    <2>2. ~("facedetect" \notin Faults)
      BY <1>1, <2>1 DEF SteadyFlag, Mid
    <2>3. Show!Retry
      BY <1>1, <1>5, <1>6, <1>8, <2>1, <2>2 DEF Show!Retry
    <2> QED BY <2>3 DEF Show!Next
  <1> QED BY <1>7, <1>8

(* A nose moves on, on a face that was found in a preview.                 *)
LEMMA NoseShow ==
  ASSUME TypeOK, TypeOK', LoadedInv, SerialInv, RangeInv, GestureInv,
         NoseGesture, ~strayed, UNCHANGED strayed,
         SteadyParity({}), SteadyFlag({})
  PROVE  Show!Gesture
  <1>1. /\ pc = "landmark" /\ idx = 1 /\ sticker' = sticker + 2
        /\ UNCHANGED <<fin, cam, flag_facerunning>>
    BY DEF NoseGesture, startVars, flagVars
  <1>2. fin = 1 /\ cam.state = "PREVIEW" /\ flag_facerunning
    BY <1>1 DEF LoadedInv, SerialInv, GestureInv
  <1>3. sticker \in 0 .. MAX_STICKER /\ sticker % 2 = 0
    BY <1>1, ConstantsAssumption DEF RangeInv, SteadyParity, Mid, TypeOK
  <1>4. "facedetect" \notin Faults => sticker # 0
    BY <1>2 DEF SteadyFlag, Mid
  <1>5. /\ ChosenSticker = sticker
        /\ sticker < MAX_STICKER => ChosenSticker' = sticker + 2 /\ ChosenSticker' # 0
        /\ sticker = MAX_STICKER => ChosenSticker' = 0
    BY <1>1, <1>3, Rounds, ChosenIs
  <1>6. sticker < MAX_STICKER \/ sticker = MAX_STICKER
    BY <1>3, ConstantsAssumption
  <1> QED BY <1>1, <1>2, <1>4, <1>5, <1>6 DEF Show!Gesture

(* The test of the bound only makes up the number's mind.                  *)
LEMMA BoundShow ==
  ASSUME TypeOK, TypeOK', BoundSticker, UNCHANGED strayed
  PROVE  UNCHANGED Show!vars
  <1>1. UNCHANGED fin /\ cam'.state = cam.state
    BY BoundStickerStates DEF BoundSticker, startVars
  <1>2. CASE UNCHANGED <<sticker, flag_facerunning>>
    BY <1>1, <1>2, ChosenIs DEF Show!vars
  <1>3. CASE PastLast(sticker) /\ sticker' = 0
    <2>1. Chosen(sticker) = 0 /\ Chosen(0) = 0
      BY <1>3, ConstantsAssumption DEF PastLast, Chosen, TypeOK
    <2>2. ChosenSticker = 0 /\ ChosenSticker' = 0
      BY <1>3, <2>1, ChosenIs
    <2> QED BY <1>1, <2>2 DEF Show!vars
  <1> QED BY <1>2, <1>3 DEF BoundSticker

LEMMA ShowInit == AppInit => Show!Init
  <1> SUFFICES ASSUME AppInit PROVE Show!Init
    OBVIOUS
  <1>1. /\ sticker = 0 /\ flag_facerunning = FALSE /\ cam.state = "NONE" /\ fin = 0
        /\ strayed = FALSE
    BY DEF AppInit, Init, LayoutInit, NoCamera
  <1>2. ChosenSticker = 0
    BY <1>1, Rounds, ChosenIs, ConstantsAssumption
  <1> QED BY <1>1, <1>2 DEF Show!Init

LEMMA ShowNext ==
  ASSUME TypeOK, TypeOK', LayoutTypeOK, LayoutTypeOK', OrderInv, PairInv, LoadedInv,
         SerialInv, RangeInv, GestureInv, UsableInv, [AppNext]_appVars
  PROVE  [Show!Next]_(Show!vars)
  <1>0. CASE strayed \/ strayed'
    BY <1>0, StrayedSteps
  <1> SUFFICES ASSUME ~strayed, ~strayed' PROVE [Show!Next]_(Show!vars)
    BY <1>0
  <1>a. UNCHANGED strayed
    BY DEF LayoutTypeOK
  <1>b. PICK F : Pairs(F) /\ SteadyParity(F) /\ SteadyFlag(F)
    BY DEF PairInv
  <1>1. CASE UNCHANGED <<sticker, flag_facerunning, fin>>
    BY <1>1, <1>a, ShowKept DEF Show!Next
  <1>2. CASE PressPart \/ ReleasePart \/ HandleMouse \/ HandleMotion \/ HandleShutter
    BY <1>1, <1>2 DEF PressPart, ReleasePart, HandleMouse, HandleMotion, HandleShutter,
                      MotionButton, ShutterButton, vars, startVars, buttonVars, flagVars
  <1>3. CASE HandleEffect
    BY <1>a, <1>3, EffectShow DEF HandleEffect
  <1>4. CASE HandleSticker
    <2>1. CASE StickerButton /\ 0 \notin F
      BY <1>a, <1>b, <2>1, FirstSignal DEF Show!Next
    <2>2. CASE StickerButton /\ 0 \in F
      BY <1>a, <1>b, <2>2, SecondSignal
    <2>3. CASE UNCHANGED vars
      BY <1>1, <2>3 DEF vars, startVars, buttonVars, flagVars
    <2> QED BY <1>4, <2>1, <2>2, <2>3 DEF HandleSticker
  <1>5. CASE LifeCycle
    <2>1. CASE EnableSticker
      <3>1. UNCHANGED <<sticker, flag_facerunning, cam>> /\ fin' = 1
        BY <2>1 DEF EnableSticker, buttonVars, flagVars
      <3>2. Show!Load
        BY <1>a, <3>1, ChosenIs DEF Show!Load
      <3> QED BY <3>2 DEF Show!Next
    <2>2. CASE AppCreate \/ AppResume \/ AppPause
      BY <1>1, <2>2 DEF AppCreate, AppResume, AppPause, buttonVars, flagVars
    <2> QED BY <1>5, <2>1, <2>2 DEF LifeCycle
  <1>6. CASE CloseWindow \/ LoaderThread
    BY <1>1, <1>6 DEF CloseWindow, LoaderThread, AppTerminate, LoadModel, LoadModelFails,
                      buttonVars, flagVars
  <1>7. CASE CameraCallback
    <2>1. SteadyParity({}) /\ SteadyFlag({})
      <3>1. F = {}
        BY <1>b, <1>7, PairsQuiet DEF CameraCallback
      <3> QED BY <1>b, <3>1
    <2>2. CASE NoseGesture
      BY <1>a, <2>1, <2>2, NoseShow DEF Show!Next
    <2>3. CASE BoundSticker
      BY <1>a, <2>3, BoundShow
    <2>4. CASE ~NoseGesture /\ ~BoundSticker
      <3>1. UNCHANGED <<sticker, flag_facerunning, fin>>
        BY <1>7, <2>4 DEF CameraCallback, FaceDetected, PreviewCallback, StickerFrame,
                          PlainStickerFrame, FilterFrame, ApplyFilter, PlaceSticker,
                          FollowFace, TakeRequest, EndFrame, Encode, RestartPreview,
                          startVars, buttonVars, flagVars
      <3> QED BY <1>1, <3>1
    <2> QED BY <2>2, <2>3, <2>4
  <1>8. CASE UNCHANGED appVars
    BY <1>1, <1>8 DEF appVars, vars, startVars, buttonVars, flagVars
  <1> QED BY <1>2, <1>3, <1>4, <1>5, <1>6, <1>7, <1>8 DEF AppNext

(* Behind the queue of signals, the frames and the loader the stickers     *)
(* work as StickerShow says, for any number of stickers, touches and faces *)
(* and with any calls failing: a tap is one step, of which nothing that    *)
(* runs between its two signals sees a half, and so is a gesture.          *)
THEOREM ShowImplemented == AppSpec => ShowSafe
  <1> DEFINE Core == TypeOK /\ LoadedInv /\ SerialInv /\ ReliableInv /\ RangeInv
                       /\ GestureInv /\ UsableInv
  <1>1. Init => Core
    <2>1. Init => GestureInv /\ UsableInv
      BY DEF Init, GestureInv, UsableInv
    <2> QED BY <2>1, InitType, LoadedInit, SerialInit, RangeInit
  <1>2. Core /\ [Next]_vars => Core'
    BY NextType, LoadedNext, SerialNext, RangeNext, GestureNext, UsableNext
  <1>3. AppSpec => []Core
    BY <1>1, <1>2, AppImplementsCamera, PTL DEF Spec
  <1>4. Core /\ Core' /\ (LayoutTypeOK /\ OrderInv /\ PairInv)
          /\ (LayoutTypeOK /\ OrderInv /\ PairInv)' /\ [AppNext]_appVars
            => [Show!Next]_(Show!vars)
    BY ShowNext
  <1> HIDE DEF Core
  <1>5. AppSpec => [](LayoutTypeOK /\ OrderInv /\ PairInv)
    BY PairAlways
  <1> QED BY <1>3, <1>4, <1>5, ShowInit, PTL DEF AppSpec, ShowSafe, Show!Spec

-------------------------------------------------------------------------------
(* What StickerShow promises by itself, and the application with it.       *)

LEMMA ShowSoundNext ==
  ASSUME Show!ShowSound, [Show!Next]_(Show!vars)
  PROVE  Show!ShowSound'
  <1> USE DEF Show!ShowSound
  <1>e. \A e \in Show!Numbers :
          /\ e \in 0 .. MAX_STICKER
          /\ (e + 2) % MAX_STICKER \in Show!Numbers
          /\ e < MAX_STICKER => e + 2 \in Show!Numbers /\ e + 2 # 0
    <2> TAKE e \in Show!Numbers
    <2>1. e \in 0 .. MAX_STICKER /\ e % 2 = 0
      BY NumbersEven
    <2>2. /\ (e + 2) % MAX_STICKER \in Show!Numbers
          /\ e < MAX_STICKER => e + 2 <= MAX_STICKER
      BY <2>1, Rounds
    <2>3. (e + 2) % 2 = 0 /\ e + 2 # 0
      BY <2>1
    <2> QED BY <2>1, <2>2, <2>3, NumbersEven, ConstantsAssumption
  <1>z. 0 \in Show!Numbers
    BY ConstantsAssumption DEF Show!Numbers, Show!Pictures
  <1>1. CASE Show!Tap
    BY <1>1, <1>e DEF Show!Tap
  <1>2. CASE Show!Gesture
    BY <1>2, <1>e, <1>z DEF Show!Gesture
  <1>3. CASE Show!Recolour \/ Show!Retry \/ Show!SwitchPreview \/ Show!Load
    BY <1>3 DEF Show!Recolour, Show!Retry, Show!SwitchPreview, Show!Load
  <1>4. CASE Show!Stray \/ Show!Disorder
    BY <1>4 DEF Show!Stray, Show!Disorder
  <1>5. CASE UNCHANGED Show!vars
    BY <1>5 DEF Show!vars
  <1> QED BY <1>1, <1>2, <1>3, <1>4, <1>5 DEF Show!Next

LEMMA LastNext ==
  ASSUME Show!ShowSound, [Show!Next]_(Show!vars)
  PROVE  [~strayed /\ ChosenSticker # MAX_STICKER /\ ChosenSticker' = MAX_STICKER
            => /\ cam.state = "PREVIEW" /\ fin = 1
               /\ (flag_facerunning /\ ChosenSticker # 0)']_(Show!vars)
  <1> SUFFICES ASSUME Show!Next, ~strayed, ChosenSticker # MAX_STICKER,
                      ChosenSticker' = MAX_STICKER
               PROVE  /\ cam.state = "PREVIEW" /\ fin = 1
                      /\ (flag_facerunning /\ ChosenSticker # 0)'
    OBVIOUS
  <1>1. ~Show!Tap
    <2>1. ChosenSticker \in 0 .. MAX_STICKER
      BY NumbersEven DEF Show!ShowSound
    <2>2. (ChosenSticker + 2) % MAX_STICKER < MAX_STICKER
      BY <2>1, ConstantsAssumption
    <2>3. (ChosenSticker + 2) % MAX_STICKER # MAX_STICKER
      BY <2>2, ConstantsAssumption
    <2> QED BY <2>3 DEF Show!Tap
  <1>2. Show!Gesture
    BY <1>1 DEF Show!Next, Show!Recolour, Show!Retry, Show!SwitchPreview, Show!Load, Show!Stray,
                Show!Disorder
  <1>3. ChosenSticker' # 0
    BY ConstantsAssumption
  <1> QED BY <1>2, <1>3 DEF Show!Gesture

(* The sticker in effect, in between signals as well as when the layout is *)
(* quiet, is none, one that has a picture, or the number MAX_STICKER, that *)
(* has none; it is none before the predictor is loaded; and nobody gets to *)
(* MAX_STICKER but by a gesture over a preview whose faces are looked for. *)
THEOREM StickersSound ==
  AppSpec =>
    /\ [](ChosenSticker \in {0} \cup Pictures \cup {MAX_STICKER})
    /\ [](~strayed /\ ChosenSticker # 0 => fin = 1)
    /\ Show!BlankByGesture
  <1>1. Show!Init => Show!ShowSound
    BY ConstantsAssumption DEF Show!Init, Show!ShowSound, Show!Numbers, Show!Pictures
  <1>2. Show!ShowSound /\ [Show!Next]_(Show!vars)
          => [~strayed /\ ChosenSticker # MAX_STICKER /\ ChosenSticker' = MAX_STICKER
                => /\ cam.state = "PREVIEW" /\ fin = 1
                   /\ (flag_facerunning /\ ChosenSticker # 0)']_(Show!vars)
    BY LastNext
  <1>3. Show!Spec => []Show!ShowSound /\ Show!BlankByGesture
    BY <1>1, <1>2, ShowSoundNext, PTL DEF Show!Spec, Show!BlankByGesture
  <1>4. Show!ShowSound => /\ ChosenSticker \in {0} \cup Pictures \cup {MAX_STICKER}
                          /\ ~strayed /\ ChosenSticker # 0 => fin = 1
    BY DEF Show!ShowSound, Show!Numbers, Show!Pictures, Pictures
  <1> QED BY <1>3, <1>4, ShowImplemented, PTL DEF ShowSafe

(* What is proved of SelfCamera with its buttons pressed at any time holds *)
(* of the application under touches, however long signals wait: photos are *)
(* taken as CaptureSession says and the shape predictor and the faces are  *)
(* used only when they are there, whatever calls fail; and each promise    *)
(* about the device holds as long as the calls that it rests on succeed.   *)
THEOREM TouchedSafe ==
  AppSpec =>
    /\ SessionSafe
    /\ [](FacesInBounds /\ PredictorLoaded)
    /\ Faults \cap {"state", "stop"} = {} => []PauseStopsPreview
    /\ "stopface" \notin Faults => []DetectionNeverForgotten
    /\ "setcb" \notin Faults => [](PreviewHasCallback /\ StickerServed)
    /\ "effect" \notin Faults => []EffectShown
  BY AppImplementsCamera, SessionImplemented, PauseSafe, FacesSafe, PredictorSafe,
     DetectionSafe, CallbackSafe, ServedSafe, EffectSafe, PTL

===============================================================================
