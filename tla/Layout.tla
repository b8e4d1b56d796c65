-------------------------------- MODULE Layout --------------------------------
(***************************************************************************)
(* The buttons of res/edc/main.edc.  A touch becomes mouse signals of the  *)
(* part it hits; the programs of the layout that match a signal change the *)
(* states of parts and emit signals of the application, which join the     *)
(* same queue and reach the handlers of view.cpp when their turn comes.    *)
(*                                                                         *)
(* Edje is not part of the repository.  Taken from how main.edc uses it:   *)
(* a press emits "mouse,down", a release "mouse,up" and, if it is still on *)
(* the part, "mouse,clicked"; signals wait in a queue that the main loop   *)
(* empties at one go; the filters of all programs for a signal are looked  *)
(* up when its turn comes, before any of them runs, or else the two of the *)
(* mode button would undo each other.                                      *)
(*                                                                         *)
(* Left out: signals that nobody handles, the programs on them (those of   *)
(* "mouse_clicked,1", which Edje does not emit, among them) and the        *)
(* programs that do nothing.                                               *)
(***************************************************************************)
EXTENDS Integers, Sequences

CONSTANT MaxQueue       \* bound: signals waiting when a press is added

VARIABLES
  parts,                \* the state of each part
  touch,                \* the part under the finger, or "none"
  queue,                \* signals waiting
  flushing,             \* the main loop is emptying the queue
  owed,                 \* history: changes owed for the touches of each
                        \* part, less those signalled, since a quiet layout
  batched,              \* history: some press came while signals waited
  strayed               \* history: some press on face was released off it

layoutVars == <<parts, touch, queue, flushing, owed, batched, strayed>>

Buttons == {"btn_mode", "effect", "face", "motion", "shutter_button"}

(* The parts that the mode button shows and hides.                         *)
Menu == {"effect", "face", "motion"}

PartState == {"default", "visible", "pressed", "selected"}

(* Their state "default" has visible: 0.                                   *)
Shown(p) == p \in Menu => parts[p] # "default"

-------------------------------------------------------------------------------
(* A program: the mouse signal of its own part it is for, the states of    *)
(* the part its filter admits, the states it sets, the signals it emits.   *)

Program(on, when, sets, emits) ==
  [on |-> on, when |-> when, sets |-> sets, emits |-> emits]

Sets(ps, s) == [p \in ps |-> s]

Signal(kind, part) == [kind |-> kind, part |-> part]

MotionClicked  == Signal("camera_motion_clicked", "motion")
EffectClicked  == Signal("camera_effect_clicked", "effect")
StickerClicked == Signal("camera_sticker_clicked", "face")
ShutterClicked == Signal("shutter_button_clicked", "shutter_button")

(* The signals that reach view.cpp.                                        *)
AppSignals == {MotionClicked, EffectClicked, StickerClicked, ShutterClicked}

MouseSignals == [kind : {"down", "up", "clicked"}, part : Buttons]

(* Mutant of MotionPrograms: a state that the part does not have.          *)
MotionProgramsTypo ==
  {Program("up", {"visible"}, Sets({"motion"}, "press"), <<MotionClicked>>),
   Program("up", {"pressed"}, Sets({"motion"}, "visible"), <<MotionClicked>>)}

(* up_motion and up_motion2: the part itself shows whether motion is on.   *)
MotionPrograms ==
  {Program("up", {"visible"}, Sets({"motion"}, "pressed"), <<MotionClicked>>),
   Program("up", {"pressed"}, Sets({"motion"}, "visible"), <<MotionClicked>>)}

(* Mutant of EffectPrograms: clicked_effect for every state but pressed.   *)
EffectProgramsTwice ==
  {Program("down", PartState, Sets({"effect"}, "pressed"), <<>>),
   Program("up", {"pressed"}, Sets({"effect"}, "visible"), <<EffectClicked>>),
   Program("clicked", {"default", "visible"}, Sets({"effect"}, "visible"), <<EffectClicked>>)}

(* down_effect, up_effect and clicked_effect.                              *)
EffectPrograms ==
  {Program("down", PartState, Sets({"effect"}, "pressed"), <<>>),
   Program("up", {"pressed"}, Sets({"effect"}, "visible"), <<EffectClicked>>),
   Program("clicked", {"default"}, Sets({"effect"}, "visible"), <<EffectClicked>>)}

(* Mutant of FacePrograms: the sticker changes on the click only.          *)
FaceProgramsOnce ==
  {Program("down", PartState, Sets({"face"}, "pressed"), <<>>),
   Program("up", PartState, Sets({"face"}, "visible"), <<>>),
   Program("clicked", PartState, Sets({"face"}, "visible"), <<StickerClicked>>)}

(* down_sticker, up_sticker and clicked_sticker, all without a filter.     *)
FacePrograms ==
  {Program("down", PartState, Sets({"face"}, "pressed"), <<>>),
   Program("up", PartState, Sets({"face"}, "visible"), <<StickerClicked>>),
   Program("clicked", PartState, Sets({"face"}, "visible"), <<StickerClicked>>)}

(* The mode button and the menu at once.                                   *)
SetsMode(mode, menu) ==
  [p \in Menu \cup {"btn_mode"} |-> IF p = "btn_mode" THEN mode ELSE menu]

(* Mutant of ModePrograms: closing the menu forgets one part.              *)
ModeProgramsForgetMotion ==
  {Program("clicked", {"default"}, SetsMode("selected", "visible"), <<>>),
   Program("clicked", {"selected"},
     [p \in {"btn_mode", "face", "effect"} |-> "default"], <<>>)}

(* clicked_mode and clicked_mode2 open and close the menu.                 *)
ModePrograms ==
  {Program("clicked", {"default"}, SetsMode("selected", "visible"), <<>>),
   Program("clicked", {"selected"}, SetsMode("default", "default"), <<>>)}

(* Mutant of ShutterPrograms: the release is left to the click.            *)
ShutterProgramsNoUp ==
  {Program("down", PartState, Sets({"shutter_button"}, "pressed"), <<>>),
   Program("clicked", PartState, Sets({"shutter_button"}, "default"), <<ShutterClicked>>)}

(* down_shutter, up_shutter and clicked_shutter.                           *)
ShutterPrograms ==
  {Program("down", PartState, Sets({"shutter_button"}, "pressed"), <<>>),
   Program("up", PartState, Sets({"shutter_button"}, "default"), <<>>),
   Program("clicked", PartState, Sets({"shutter_button"}, "default"), <<ShutterClicked>>)}

Programs(p) ==
  CASE p = "btn_mode" -> ModePrograms
    [] p = "effect"   -> EffectPrograms
    [] p = "face"     -> FacePrograms
    [] p = "motion"   -> MotionPrograms
    [] p = "shutter_button" -> ShutterPrograms

(* Of the programs of one part at most one matches a signal.               *)
Matching(signal) ==
  {g \in Programs(signal.part) :
     g.on = signal.kind /\ parts[signal.part] \in g.when}

-------------------------------------------------------------------------------

LayoutInit ==
  /\ parts = [p \in Buttons |-> "default"]
  /\ touch = "none"
  /\ queue = <<>>
  /\ flushing = FALSE
  /\ owed = [p \in Buttons |-> 0]
  /\ batched = FALSE
  /\ strayed = FALSE

(* The menu is open or closed as a whole.                                  *)
MenuWhole == \A p \in Menu : Shown(p) <=> parts["btn_mode"] = "selected"

Press(p) ==
  /\ touch = "none"
  /\ Shown(p)
  /\ ~flushing
  /\ queue # <<>> => ~batched /\ Len(queue) <= MaxQueue
  /\ touch' = p
  /\ queue' = Append(queue, Signal("down", p))
  /\ batched' = (queue # <<>> \/ (batched /\ ~MenuWhole))
  /\ owed' = IF queue = <<>> THEN [b \in Buttons |-> 0] ELSE owed
  /\ UNCHANGED <<parts, flushing, strayed>>

(* What a press that ends on or off its part should change: the effect and *)
(* motion buttons act on the release, the shutter on the click.            *)
Due(p, clicked) ==
  CASE p \in {"effect", "motion"} -> 1
    [] p = "shutter_button" /\ clicked -> 1
    [] OTHER -> 0

Release(clicked) ==
  /\ touch # "none"
  /\ ~flushing
  /\ touch' = "none"
  /\ queue' = queue \o (IF clicked
                        THEN <<Signal("up", touch), Signal("clicked", touch)>>
                        ELSE <<Signal("up", touch)>>)
  /\ strayed' = (strayed \/ (touch = "face" /\ ~clicked))
  /\ owed' = [owed EXCEPT ![touch] = @ + Due(touch, clicked)]
  /\ UNCHANGED <<parts, flushing, batched>>

(* The programs of a mouse signal run.                                     *)
RunPrograms ==
  /\ queue # <<>>
  /\ Head(queue) \in MouseSignals
  /\ LET run == Matching(Head(queue))
     IN  \/ /\ run = {}
            /\ queue' = Tail(queue)
            /\ UNCHANGED parts
         \/ \E g \in run :
              /\ parts' = [p \in Buttons |-> IF p \in DOMAIN g.sets THEN g.sets[p]
                                                                ELSE parts[p]]
              /\ queue' = Tail(queue) \o g.emits
  /\ flushing' = (queue' # <<>>)
  /\ UNCHANGED <<touch, owed, batched, strayed>>

(* The layout is deleted with its window.                                  *)
Close ==
  /\ parts' = [p \in Buttons |-> "default"]
  /\ touch' = "none"
  /\ queue' = <<>>
  /\ flushing' = FALSE
  /\ owed' = [p \in Buttons |-> 0]
  /\ batched' = FALSE
  /\ UNCHANGED strayed

(* A signal of the application leaves the layout for its handler.          *)
Notify(signal) ==
  /\ queue # <<>>
  /\ Head(queue) = signal
  /\ queue' = Tail(queue)
  /\ flushing' = (queue' # <<>>)
  /\ owed' = IF signal.part = "face" THEN owed ELSE [owed EXCEPT ![signal.part] = @ - 1]
  /\ UNCHANGED <<parts, touch, batched, strayed>>

-------------------------------------------------------------------------------
(* Properties.                                                             *)

Quiet == queue = <<>>

(* The layout's variables have their types: only known parts in known      *)
(* states, only signals of known parts.                                    *)
LayoutTypeOK ==
  /\ parts \in [Buttons -> PartState]
  /\ touch \in Buttons \cup {"none"}
  /\ queue \in Seq(MouseSignals \cup AppSignals)
  /\ flushing \in BOOLEAN
  /\ owed \in [Buttons -> Int]
  /\ batched \in BOOLEAN
  /\ strayed \in BOOLEAN

(* The menu is shown or hidden as a whole and agrees with the mode button: *)
(* no touch of a menu button that is still being handled when the menu     *)
(* closes shows that button again.  Presses that come while other touches  *)
(* wait are excepted: they hit what the waiting signals are about to hide. *)
MenuConsistent == ~batched => MenuWhole

(* With no finger down and nothing waiting no momentary button looks       *)
(* pressed, wherever its touch ended.                                      *)
NoButtonStuck ==
  Quiet /\ touch = "none" =>
    \A p \in {"effect", "face", "shutter_button"} : parts[p] # "pressed"

(* Each touch of the effect button and each click of the shutter reaches   *)
(* its handler exactly once although several programs answer to it, even   *)
(* when touches pile up; so does each touch of the motion button, unless   *)
(* it came while the closing of the menu was waiting.                      *)
OneChangePerTouch ==
  Quiet => /\ owed["effect"] = 0
           /\ owed["shutter_button"] = 0
           /\ batched \/ owed["motion"] = 0

===============================================================================
