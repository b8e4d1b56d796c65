------------------------------ MODULE CameraApp ------------------------------
(***************************************************************************)
(* The application under the user's finger: SelfCamera with its buttons    *)
(* reached only through the layout.  A touch hits what is shown while the  *)
(* application is in front; its signals are handled when the main loop     *)
(* gets to them, perhaps after frames, a whole capture or a pause.  While  *)
(* the queue is emptied nothing else of the main loop runs.                *)
(***************************************************************************)
EXTENDS SelfCamera, Layout

appVars == <<vars, layoutVars>>

(* A tap makes two steps modulo MAX_STICKER, which is even in the source.  *)
ASSUME StickerAssumption == MAX_STICKER % 2 = 0

-------------------------------------------------------------------------------

AppInit == Init /\ LayoutInit

PressPart ==
  /\ lifecycle = "resumed" /\ MainLoopFree
  /\ \E p \in Buttons : Press(p)
  /\ UNCHANGED vars

ReleasePart ==
  /\ lifecycle = "resumed" /\ MainLoopFree
  /\ \E clicked \in BOOLEAN : Release(clicked)
  /\ UNCHANGED vars

HandleMouse ==
  /\ Touchable
  /\ RunPrograms
  /\ UNCHANGED vars

(* _main_view_register_cbs: each signal with its handler; those of the     *)
(* sticker and of the shutter may return early.                            *)
HandleEffect == Notify(EffectClicked) /\ EffectButton

HandleMotion == Notify(MotionClicked) /\ MotionButton

HandleSticker ==
  /\ Notify(StickerClicked)
  /\ \/ StickerButton
     \/ Touchable /\ ~PredictorReady /\ UNCHANGED vars

HandleShutter ==
  /\ Notify(ShutterClicked)
  /\ \/ ShutterButton
     \/ Touchable /\ ~camera_enabled /\ UNCHANGED vars

(* Nothing else of the main loop runs before the queue is empty.           *)
LifeCycle ==
  /\ ~flushing
  /\ AppCreate \/ AppResume \/ AppPause \/ EnableSticker
  /\ UNCHANGED layoutVars

(* The window takes its layout along.                                      *)
CloseWindow == ~flushing /\ AppTerminate /\ Close

CameraCallback ==
  /\ ~flushing
  /\ FaceDetected \/ PreviewCallback
  /\ UNCHANGED layoutVars

LoaderThread == (LoadModel \/ LoadModelFails) /\ UNCHANGED layoutVars

AppNext ==
  \/ PressPart \/ ReleasePart \/ HandleMouse
  \/ HandleEffect \/ HandleMotion \/ HandleSticker \/ HandleShutter
  \/ LifeCycle \/ CloseWindow \/ CameraCallback \/ LoaderThread

AppSpec == AppInit /\ [][AppNext]_appVars

-------------------------------------------------------------------------------
(* Properties.                                                             *)

(* Between touches the sticker is none, one that face_landmark's switch    *)
(* draws, or MAX_STICKER, which has no picture and which the test of the   *)
(* gestures lets through; never one of the odd numbers in between.  A tap  *)
(* signals twice and the handler steps by one modulo MAX_STICKER, gestures *)
(* step by two up to the modulus itself, the handler ignores signals until *)
(* the predictor is loaded and the two signals of a tap may wait through   *)
(* all of that.  Excepted are a press released off the button, which       *)
(* signals once, and the moment between the two lines of a gesture that    *)
(* add to the sticker and test the bound.                                  *)
StickerDrawn ==
  Quiet /\ ~strayed /\ pc # "bound" => sticker \in Pictures \cup {0, MAX_STICKER}

(* No faces are detected for no sticker: between touches the sticker 0     *)
(* means that detection is off, although the handler starts detection      *)
(* whenever it finds it off, also on the step to 0, and the effect button  *)
(* and the gestures switch it off behind the sticker button's back.        *)
NoIdleDetection == Quiet /\ ~strayed /\ sticker = 0 => ~flag_facerunning

(* The sticker in effect: the second signal of a tap completes what the    *)
(* first has begun, and a gesture past the last sticker means none.        *)
ChosenSticker ==
  CASE sticker > MAX_STICKER -> 0
    [] sticker <= MAX_STICKER /\ sticker % 2 = 0 -> sticker
    [] sticker <= MAX_STICKER /\ sticker % 2 = 1 -> (sticker + 1) % MAX_STICKER

(* The abstract view of the stickers, see StickerShow.                     *)
Show == INSTANCE StickerShow WITH
  Reliable <- Faults \cap {"facedetect", "state"} = {},
  chosen   <- ChosenSticker,
  watching <- flag_facerunning /\ ChosenSticker # 0,
  preview  <- cam.state = "PREVIEW",
  loaded   <- fin = 1,
  orderly  <- ~strayed

(* A tap is one step among the stickers and a gesture another, although a  *)
(* tap is two signals, handled when the main loop gets to them, each of    *)
(* which changes the sticker and perhaps the detection; nothing that runs  *)
(* in between sees, or disturbs, half a tap.                               *)
ShowSafe == Show!Spec

===============================================================================
