---------------------------- MODULE CameraAppProofs ----------------------------
(***************************************************************************)
(* Theorems about CameraApp, for every value of its constants: any number  *)
(* of waiting signals and any failing calls.                               *)
(***************************************************************************)
EXTENDS CameraApp, SelfCameraProofs

-------------------------------------------------------------------------------
(* The buttons behind the layout do what they do in SelfCamera.            *)

LEMMA AppStep == [AppNext]_appVars => [Next]_vars
  <1> SUFFICES ASSUME [AppNext]_appVars PROVE [Next]_vars
    OBVIOUS
  <1>1. CASE PressPart \/ ReleasePart \/ HandleMouse
    BY <1>1 DEF PressPart, ReleasePart, HandleMouse
  <1>2. CASE HandleEffect \/ HandleMotion \/ HandleSticker \/ HandleShutter
    BY <1>2 DEF HandleEffect, HandleMotion, HandleSticker, HandleShutter, Next
  <1>3. CASE LifeCycle \/ CloseWindow \/ CameraCallback \/ LoaderThread
    BY <1>3 DEF LifeCycle, CloseWindow, CameraCallback, LoaderThread, Next
  <1>4. CASE UNCHANGED appVars
    BY <1>4 DEF appVars
  <1> QED BY <1>1, <1>2, <1>3, <1>4 DEF AppNext

(* The application under touches implements the one whose buttons are      *)
(* pressed at any time: what holds of SelfCamera holds of it.              *)
THEOREM AppImplementsCamera == AppSpec => Spec
  <1>1. AppInit => Init
    BY DEF AppInit
  <1> QED BY <1>1, AppStep, PTL DEF AppSpec, Spec

-------------------------------------------------------------------------------
(* The steps of the layout.                                                *)

LayoutNext ==
  \/ \E p \in Buttons : Press(p)
  \/ \E clicked \in BOOLEAN : Release(clicked)
  \/ RunPrograms
  \/ \E signal \in AppSignals : Notify(signal)
  \/ Close

LEMMA LayoutStep == [AppNext]_appVars => [LayoutNext]_layoutVars
  <1> SUFFICES ASSUME [AppNext]_appVars PROVE [LayoutNext]_layoutVars
    OBVIOUS
  <1>1. CASE PressPart \/ ReleasePart \/ HandleMouse
    BY <1>1 DEF PressPart, ReleasePart, HandleMouse, LayoutNext
  <1>2. CASE HandleEffect \/ HandleMotion \/ HandleSticker \/ HandleShutter
    BY <1>2 DEF HandleEffect, HandleMotion, HandleSticker, HandleShutter,
                LayoutNext, AppSignals
  <1>3. CASE LifeCycle \/ CloseWindow \/ CameraCallback \/ LoaderThread
    BY <1>3 DEF LifeCycle, CloseWindow, CameraCallback, LoaderThread, LayoutNext
  <1>4. CASE UNCHANGED appVars
    BY <1>4 DEF appVars
  <1> QED BY <1>1, <1>2, <1>3, <1>4 DEF AppNext

Signals == MouseSignals \cup AppSignals

(* What a queue looks like after its head was taken and e was appended.    *)
LEMMA Requeued ==
  ASSUME NEW q \in Seq(Signals), q # <<>>, NEW e \in Seq(Signals)
  PROVE  /\ Tail(q) \o e \in Seq(Signals)
         /\ Len(Tail(q) \o e) = Len(q) - 1 + Len(e)
         /\ \A i \in 1 .. Len(q) - 1 : (Tail(q) \o e)[i] = q[i + 1]
         /\ \A i \in 1 .. Len(e) : (Tail(q) \o e)[Len(q) - 1 + i] = e[i]
  <1>1. Tail(q) \in Seq(Signals) /\ Len(Tail(q)) = Len(q) - 1
    OBVIOUS
  <1>2. \A i \in 1 .. Len(q) - 1 : Tail(q)[i] = q[i + 1]
    OBVIOUS
  <1> QED BY <1>1, <1>2

(* The programs of a part.                                                 *)
LEMMA ProgramFacts ==
  ASSUME NEW p \in Buttons, NEW g \in Programs(p)
  PROVE  /\ g.emits = <<>> \/ \E a \in AppSignals : a.part = p /\ g.emits = <<a>>
         /\ p # "btn_mode" =>
              /\ DOMAIN g.sets = {p}
              /\ g.sets[p] \in {"default", "visible", "pressed"}
              /\ p \in Menu => g.sets[p] # "default"
              /\ g.sets[p] = "pressed" => g.on = "down" \/ p = "motion"
         /\ p = "btn_mode" =>
              /\ DOMAIN g.sets = Menu \cup {"btn_mode"}
              /\ \/ /\ g.sets["btn_mode"] = "selected"
                    /\ \A m \in Menu : g.sets[m] = "visible"
                 \/ /\ g.sets["btn_mode"] = "default"
                    /\ \A m \in Menu : g.sets[m] = "default"
  <1>1. CASE p = "btn_mode"
    BY <1>1 DEF Programs, ModePrograms, Program, SetsMode, Menu
  <1>2. CASE p = "effect"
    BY <1>2 DEF Programs, EffectPrograms, Program, Sets, Menu, AppSignals,
                EffectClicked, Signal
  <1>3. CASE p = "face"
    BY <1>3 DEF Programs, FacePrograms, Program, Sets, Menu, AppSignals,
                StickerClicked, Signal
  <1>4. CASE p = "motion"
    BY <1>4 DEF Programs, MotionPrograms, Program, Sets, Menu, AppSignals,
                MotionClicked, Signal
  <1>5. CASE p = "shutter_button"
    BY <1>5 DEF Programs, ShutterPrograms, Program, Sets, Menu, AppSignals,
                ShutterClicked, Signal
  <1> QED BY <1>1, <1>2, <1>3, <1>4, <1>5 DEF Buttons

(* The step of a mouse signal: what happens to the parts.                  *)
LEMMA RunParts ==
  ASSUME LayoutTypeOK, RunPrograms
  PROVE  LET h == Head(queue) IN
         /\ queue # <<>> /\ h \in MouseSignals /\ h = queue[1]
         /\ UNCHANGED <<touch, owed, batched, strayed>>
         /\ \E e \in Seq(AppSignals) :
              /\ queue' = Tail(queue) \o e
              /\ \A i \in 1 .. Len(e) : e[i].part = h.part
         /\ \/ UNCHANGED parts /\ Matching(h) = {}
            \/ \E g \in Matching(h) :
                 parts' = [p \in Buttons |-> IF p \in DOMAIN g.sets
                                            THEN g.sets[p] ELSE parts[p]]
  <1> DEFINE h == Head(queue)
  <1>1. queue # <<>> /\ h \in MouseSignals /\ h = queue[1]
    BY DEF RunPrograms, LayoutTypeOK
  <1>2. CASE Matching(h) = {} /\ queue' = Tail(queue) /\ UNCHANGED parts
    <2>1. <<>> \in Seq(AppSignals) /\ Len(<<>>) = 0
      OBVIOUS
    <2>2. queue' = Tail(queue) \o <<>>
      BY <1>1, <1>2 DEF LayoutTypeOK
    <2>3. \A i \in 1 .. Len(<<>>) : <<>>[i].part = h.part
      BY <2>1
    <2>4. \E e \in Seq(AppSignals) : /\ queue' = Tail(queue) \o e
                                     /\ \A i \in 1 .. Len(e) : e[i].part = h.part
      BY <2>1, <2>2, <2>3, Zenon
    <2> QED BY <1>1, <1>2, <2>4 DEF RunPrograms
  <1>3. CASE \E g \in Matching(h) :
               /\ parts' = [p \in Buttons |-> IF p \in DOMAIN g.sets THEN g.sets[p]
                                                                   ELSE parts[p]]
               /\ queue' = Tail(queue) \o g.emits
    <2>1. PICK g \in Matching(h) :
            /\ parts' = [p \in Buttons |-> IF p \in DOMAIN g.sets THEN g.sets[p]
                                                                ELSE parts[p]]
            /\ queue' = Tail(queue) \o g.emits
      BY <1>3
    <2>2. h.part \in Buttons /\ g \in Programs(h.part)
      BY <1>1 DEF MouseSignals, Matching
    <2>3. g.emits \in Seq(AppSignals) /\ \A i \in 1 .. Len(g.emits) : g.emits[i].part = h.part
      <3>1. g.emits = <<>> \/ \E a \in AppSignals : a.part = h.part /\ g.emits = <<a>>
        BY <2>2, ProgramFacts
      <3>2. CASE g.emits = <<>>
        BY <3>2
      <3>3. CASE \E a \in AppSignals : a.part = h.part /\ g.emits = <<a>>
        BY <3>3
      <3> QED BY <3>1, <3>2, <3>3
    <2> QED BY <1>1, <2>1, <2>3 DEF RunPrograms
  <1> QED BY <1>2, <1>3 DEF RunPrograms

(* Signals are records of the kinds and parts they are made of.            *)
LEMMA SignalFacts ==
  /\ \A s \in MouseSignals : s.part \in Buttons
  /\ \A s \in AppSignals : s.part \in Buttons /\ s.kind \notin {"down", "up", "clicked"}
  /\ \A p \in Buttons : \A k \in {"down", "up", "clicked"} :
       /\ Signal(k, p) \in MouseSignals
       /\ Signal(k, p).kind = k /\ Signal(k, p).part = p
  BY DEF MouseSignals, AppSignals, Buttons, Signal, MotionClicked, EffectClicked,
         StickerClicked, ShutterClicked

(* The step of a run keeps the states of the parts legal.                  *)
LEMMA RunStates ==
  ASSUME LayoutTypeOK, RunPrograms
  PROVE  parts' \in [Buttons -> PartState]
  <1> DEFINE h == Head(queue)
  <1>0. h.part \in Buttons
    BY RunParts, SignalFacts
  <1>1. CASE UNCHANGED parts
    BY <1>1 DEF LayoutTypeOK
  <1>2. ASSUME NEW g \in Matching(h),
               parts' = [p \in Buttons |-> IF p \in DOMAIN g.sets
                                          THEN g.sets[p] ELSE parts[p]]
        PROVE  parts' \in [Buttons -> PartState]
    <2>1. g \in Programs(h.part)
      BY DEF Matching
    <2>2. \A p \in Buttons : p \in DOMAIN g.sets => g.sets[p] \in PartState
      BY <1>0, <2>1, ProgramFacts DEF PartState, Menu
    <2> QED BY <1>2, <2>2 DEF LayoutTypeOK
  <1> QED BY <1>1, <1>2, RunParts

-------------------------------------------------------------------------------
(* Types.                                                                  *)

LEMMA NoSignals == <<>> \in Seq(MouseSignals \cup AppSignals)
  OBVIOUS

LEMMA LayoutTypeInit == LayoutInit => LayoutTypeOK
  <1> SUFFICES ASSUME LayoutInit PROVE LayoutTypeOK
    OBVIOUS
  <1>1. flushing \in BOOLEAN /\ batched \in BOOLEAN /\ strayed \in BOOLEAN
    BY DEF LayoutInit
  <1>2. queue \in Seq(MouseSignals \cup AppSignals)
    BY NoSignals, Zenon DEF LayoutInit
  <1>3. parts \in [Buttons -> PartState] /\ owed \in [Buttons -> Int]
    BY DEF LayoutInit, Buttons, PartState
  <1>4. touch \in Buttons \cup {"none"}
    BY DEF LayoutInit
  <1> QED BY <1>1, <1>2, <1>3, <1>4, Zenon DEF LayoutTypeOK

LEMMA LayoutTypeNext == LayoutTypeOK /\ [LayoutNext]_layoutVars => LayoutTypeOK'
  <1> SUFFICES ASSUME LayoutTypeOK, [LayoutNext]_layoutVars PROVE LayoutTypeOK'
    OBVIOUS
  <1>1. ASSUME NEW p \in Buttons, Press(p) PROVE LayoutTypeOK'
    <2>1. queue' \in Seq(Signals)
      BY <1>1, SignalFacts DEF Press, LayoutTypeOK, Signals
    <2> QED BY <1>1, <2>1 DEF Press, LayoutTypeOK, Signals
  <1>2. ASSUME NEW clicked \in BOOLEAN, Release(clicked) PROVE LayoutTypeOK'
    <2>1. touch \in Buttons
      BY <1>2 DEF Release, LayoutTypeOK
    <2>2. queue' \in Seq(Signals)
      <3>1. Signal("up", touch) \in Signals /\ Signal("clicked", touch) \in Signals
        BY <2>1, SignalFacts DEF Signals
      <3>2. <<Signal("up", touch)>> \in Seq(Signals)
            /\ <<Signal("up", touch), Signal("clicked", touch)>> \in Seq(Signals)
        BY <3>1
      <3>3. queue \in Seq(Signals)
        BY DEF LayoutTypeOK, Signals
      <3> QED BY <1>2, <3>2, <3>3 DEF Release
    <2>3. owed' \in [Buttons -> Int]
      BY <1>2, <2>1 DEF Release, LayoutTypeOK, Due
    <2>4. strayed' \in BOOLEAN
      BY <1>2, Zenon DEF Release, LayoutTypeOK
    <2> QED BY <1>2, <2>2, <2>3, <2>4 DEF Release, LayoutTypeOK, Signals
  <1>3. CASE RunPrograms
    <2>1. PICK e \in Seq(AppSignals) : queue' = Tail(queue) \o e
      BY <1>3, RunParts
    <2>2. queue' \in Seq(Signals)
      BY <1>3, <2>1, RunParts, Requeued DEF LayoutTypeOK, Signals
    <2> QED BY <1>3, <2>2, RunParts, RunStates DEF RunPrograms, LayoutTypeOK, Signals
  <1>4. ASSUME NEW signal \in AppSignals, Notify(signal) PROVE LayoutTypeOK'
    <2>1. queue' \in Seq(Signals)
      BY <1>4 DEF Notify, LayoutTypeOK, Signals
    <2>2. owed' \in [Buttons -> Int]
      BY <1>4, SignalFacts DEF Notify, LayoutTypeOK
    <2> QED BY <1>4, <2>1, <2>2 DEF Notify, LayoutTypeOK, Signals
  <1>5. CASE Close
    <2>1. flushing' \in BOOLEAN /\ batched' \in BOOLEAN /\ strayed' \in BOOLEAN
      BY <1>5 DEF Close, LayoutTypeOK
    <2>2. queue' \in Seq(MouseSignals \cup AppSignals)
      BY <1>5, NoSignals, Zenon DEF Close
    <2>3. parts' \in [Buttons -> PartState] /\ owed' \in [Buttons -> Int]
      BY <1>5 DEF Close, Buttons, PartState
    <2>4. touch' \in Buttons \cup {"none"}
      BY <1>5 DEF Close
    <2> QED BY <2>1, <2>2, <2>3, <2>4, Zenon DEF LayoutTypeOK
  <1>6. CASE UNCHANGED layoutVars
    BY <1>6 DEF layoutVars, LayoutTypeOK
  <1> QED BY <1>1, <1>2, <1>3, <1>4, <1>5, <1>6 DEF LayoutNext

(* The layout keeps its types, however many signals wait.                  *)
THEOREM LayoutTypesCorrect == AppSpec => []LayoutTypeOK
  <1> QED BY LayoutTypeInit, LayoutStep, LayoutTypeNext, PTL DEF AppSpec, AppInit

-------------------------------------------------------------------------------
(* The menu.                                                               *)

(* Why a closing menu stays closed: unless presses pile up, all waiting    *)
(* signals are of one part, the one under the finger if there is one, and  *)
(* that part is shown.  So while the signals of a menu button wait nothing *)
(* waits that could close the menu.                                        *)
MenuInv ==
  ~batched =>
    /\ MenuWhole
    /\ \A i, j \in 1 .. Len(queue) : queue[i].part = queue[j].part
    /\ \A i \in 1 .. Len(queue) :
         /\ touch # "none" => queue[i].part = touch
         /\ queue[i].part \in Menu => parts["btn_mode"] = "selected"
    /\ touch \in Menu => parts["btn_mode"] = "selected"

(* The signals of a release.                                               *)
LEMMA ReleaseSignals ==
  ASSUME NEW p \in Buttons, NEW clicked \in BOOLEAN
  PROVE  LET e == IF clicked THEN <<Signal("up", p), Signal("clicked", p)>>
                             ELSE <<Signal("up", p)>>
         IN  /\ e \in Seq(Signals) /\ Len(e) \in 1 .. 2
             /\ e[1] = Signal("up", p)
             /\ \A i \in 1 .. Len(e) : e[i].part = p /\ e[i].kind # "down"
  <1> DEFINE u == Signal("up", p)
             c == Signal("clicked", p)
  <1>1. /\ u \in Signals /\ u.part = p /\ u.kind # "down"
        /\ c \in Signals /\ c.part = p /\ c.kind # "down"
    BY SignalFacts DEF Signals
  <1> HIDE DEF u, c
  <1>2. /\ <<u, c>> \in Seq(Signals) /\ Len(<<u, c>>) = 2
        /\ <<u, c>>[1] = u /\ <<u, c>>[2] = c
        /\ <<u>> \in Seq(Signals) /\ Len(<<u>>) = 1 /\ <<u>>[1] = u
    BY <1>1
  <1>3. \A i \in 1 .. 2 : <<u, c>>[i].part = p /\ <<u, c>>[i].kind # "down"
    BY <1>1, <1>2
  <1>4. \A i \in 1 .. 1 : <<u>>[i].part = p /\ <<u>>[i].kind # "down"
    BY <1>1, <1>2
  <1>5. CASE clicked
    BY <1>2, <1>3, <1>5 DEF u, c
  <1>6. CASE ~clicked
    BY <1>2, <1>4, <1>6 DEF u
  <1> QED BY <1>5, <1>6

LEMMA MenuInit == LayoutInit => MenuInv
  BY DEF LayoutInit, MenuInv, MenuWhole, Shown, Menu, Buttons

(* A run of programs shows and hides the menu as a whole and leaves it     *)
(* alone if the signal is of another part.                                 *)
LEMMA RunMenu ==
  ASSUME LayoutTypeOK, RunPrograms, MenuWhole,
         Head(queue).part \in Menu => parts["btn_mode"] = "selected"
  PROVE  /\ MenuWhole'
         /\ Head(queue).part # "btn_mode" => parts'["btn_mode"] = parts["btn_mode"]
  <1> DEFINE h == Head(queue)
  <1>0. h.part \in Buttons
    BY RunParts, SignalFacts
  <1>1. CASE UNCHANGED parts
    BY <1>1 DEF MenuWhole, Shown
  <1>2. ASSUME NEW g \in Matching(h),
               parts' = [p \in Buttons |-> IF p \in DOMAIN g.sets
                                          THEN g.sets[p] ELSE parts[p]]
        PROVE  /\ MenuWhole'
               /\ h.part # "btn_mode" => parts'["btn_mode"] = parts["btn_mode"]
    <2>1. g \in Programs(h.part)
      BY DEF Matching
    <2>2. CASE h.part = "btn_mode"
      BY <1>0, <1>2, <2>1, <2>2, ProgramFacts DEF MenuWhole, Shown, Menu, Buttons
    <2>3. CASE h.part # "btn_mode"
      <3>1. /\ DOMAIN g.sets = {h.part}
            /\ h.part \in Menu => g.sets[h.part] # "default"
        BY <1>0, <2>1, <2>3, ProgramFacts
      <3> QED BY <1>0, <1>2, <2>3, <3>1 DEF MenuWhole, Shown, Menu, Buttons
    <2> QED BY <2>2, <2>3
  <1> QED BY <1>1, <1>2, RunParts

LEMMA MenuNext == LayoutTypeOK /\ MenuInv /\ [LayoutNext]_layoutVars => MenuInv'
  <1> SUFFICES ASSUME LayoutTypeOK, MenuInv, [LayoutNext]_layoutVars, ~batched'
               PROVE  MenuInv'
    BY DEF MenuInv
  <1> USE DEF Signals
  <1>1. ASSUME NEW p \in Buttons, Press(p) PROVE MenuInv'
    <2>1. queue = <<>> /\ MenuWhole
      BY <1>1 DEF Press, MenuInv
    <2>2. Len(queue') = 1 /\ queue'[1] = Signal("down", p)
      BY <1>1, <2>1 DEF Press
    <2>3. queue'[1].part = p
      BY <2>2 DEF Signal
    <2>4. p \in Menu => parts["btn_mode"] = "selected"
      BY <1>1, <2>1 DEF Press, MenuWhole, Shown
    <2> QED BY <1>1, <2>1, <2>2, <2>3, <2>4 DEF Press, MenuInv, MenuWhole, Shown
  <1>2. ASSUME NEW clicked \in BOOLEAN, Release(clicked) PROVE MenuInv'
    <2>1. touch \in Buttons /\ ~batched
      BY <1>2 DEF Release, LayoutTypeOK
    <2>2. PICK e \in Seq(Signals) :
            queue' = queue \o e /\ \A i \in 1 .. Len(e) : e[i].part = touch
      <3> DEFINE e == IF clicked THEN <<Signal("up", touch), Signal("clicked", touch)>>
                                 ELSE <<Signal("up", touch)>>
      <3>1. queue' = queue \o e
        BY <1>2 DEF Release
      <3>2. e \in Seq(Signals) /\ \A i \in 1 .. Len(e) : e[i].part = touch
        BY <2>1, ReleaseSignals
      <3> HIDE DEF e
      <3> QED BY <3>1, <3>2
    <2>3. \A i \in 1 .. Len(queue) : queue[i].part = touch
      BY <1>2, <2>1 DEF Release, MenuInv
    <2>4. \A i \in 1 .. Len(queue') : queue'[i].part = touch
      BY <2>2, <2>3 DEF LayoutTypeOK
    <2>5. UNCHANGED parts /\ touch' = "none"
      BY <1>2 DEF Release
    <2> QED BY <2>1, <2>4, <2>5 DEF MenuInv, MenuWhole, Shown, Menu
  <1>3. CASE RunPrograms
    <2> DEFINE h == Head(queue)
    <2>1. /\ queue # <<>> /\ h \in MouseSignals /\ h = queue[1]
          /\ UNCHANGED <<touch, batched>>
      BY <1>3, RunParts
    <2>2. PICK e \in Seq(AppSignals) :
            /\ queue' = Tail(queue) \o e
            /\ \A i \in 1 .. Len(e) : e[i].part = h.part
      BY <1>3, RunParts
    <2>3. /\ MenuWhole
          /\ \A i \in 1 .. Len(queue) : queue[i].part = h.part
          /\ touch # "none" => touch = h.part
          /\ h.part \in Menu => parts["btn_mode"] = "selected"
          /\ 1 \in 1 .. Len(queue)
      BY <2>1 DEF MenuInv, LayoutTypeOK
    <2>4. MenuWhole' /\ (h.part # "btn_mode" => parts'["btn_mode"] = parts["btn_mode"])
      BY <1>3, <2>3, RunMenu
    <2>5. \A i \in 1 .. Len(queue') : queue'[i].part = h.part
      BY <2>1, <2>2, <2>3, Requeued DEF LayoutTypeOK
    <2>6. "btn_mode" \notin Menu
      BY DEF Menu
    <2> QED BY <2>1, <2>3, <2>4, <2>5, <2>6 DEF MenuInv, Menu
  <1>4. ASSUME NEW signal \in AppSignals, Notify(signal) PROVE MenuInv'
    <2>1. /\ queue' = Tail(queue) /\ queue # <<>>
          /\ UNCHANGED <<parts, touch, batched>>
      BY <1>4 DEF Notify
    <2>2. \A i \in 1 .. Len(queue') : i + 1 \in 1 .. Len(queue) /\ queue'[i] = queue[i + 1]
      BY <2>1 DEF LayoutTypeOK
    <2> QED BY <2>1, <2>2 DEF MenuInv, MenuWhole, Shown
  <1>5. CASE Close
    <2>1. Len(queue') = 0
      BY <1>5 DEF Close
    <2> QED BY <1>5, <2>1 DEF Close, MenuInv, MenuWhole, Shown, Menu, Buttons
  <1>6. CASE UNCHANGED layoutVars
    BY <1>6 DEF layoutVars, MenuInv, MenuWhole, Shown
  <1> QED BY <1>1, <1>2, <1>3, <1>4, <1>5, <1>6 DEF LayoutNext

(* The menu is shown or hidden as a whole and as the mode button says,     *)
(* unless presses pile up: for any number of waiting signals and whatever  *)
(* runs between a touch and its handling.                                  *)
THEOREM MenuSafe == AppSpec => []MenuConsistent
  <1>1. MenuInv => MenuConsistent
    BY DEF MenuInv, MenuConsistent
  <1> QED BY <1>1, LayoutTypeInit, LayoutTypeNext, LayoutStep, MenuInit, MenuNext,
             PTL DEF AppSpec, AppInit

-------------------------------------------------------------------------------
(* Buttons that look pressed.                                              *)

Momentary == {"effect", "face", "shutter_button"}

(* Why no button stays pressed: one that is, or is about to be, is still   *)
(* under the finger, or its release waits and no press of it comes later.  *)
ReleasePending(p) ==
  \/ touch = p
  \/ \E j \in 1 .. Len(queue) :
       /\ queue[j] = Signal("up", p)
       /\ \A k \in 1 .. Len(queue) : k > j => queue[k] # Signal("down", p)

PressSeen(p) ==
  parts[p] = "pressed" \/ \E i \in 1 .. Len(queue) : queue[i] = Signal("down", p)

StuckInv == \A p \in Momentary : PressSeen(p) => ReleasePending(p)

LEMMA StuckInit == LayoutInit => StuckInv
  BY DEF LayoutInit, StuckInv, PressSeen, Momentary, Buttons

(* After its mouse up a button is not pressed, and only its mouse down     *)
(* makes it so.                                                            *)
LEMMA RunPressed ==
  ASSUME LayoutTypeOK, RunPrograms, NEW p \in Momentary
  PROVE  /\ Head(queue) = Signal("up", p) => parts'[p] # "pressed"
         /\ Head(queue) # Signal("down", p) /\ parts'[p] = "pressed"
              => parts[p] = "pressed"
  <1> DEFINE h == Head(queue)
  <1>0. h \in MouseSignals /\ h.part \in Buttons /\ p \in Buttons /\ p # "motion"
        /\ p # "btn_mode"
    BY RunParts, SignalFacts DEF Momentary, Buttons
  <1>1. CASE UNCHANGED parts /\ Matching(h) = {}
    <2>1. ASSUME h = Signal("up", p), parts[p] = "pressed" PROVE FALSE
      <3>1. h.kind = "up" /\ h.part = p
        BY <1>0, <2>1, SignalFacts
      <3>2. \E g \in Programs(p) : g.on = "up" /\ "pressed" \in g.when
        BY DEF Programs, EffectPrograms, FacePrograms, ShutterPrograms, Program,
               PartState, Momentary
      <3> QED BY <1>1, <2>1, <3>1, <3>2 DEF Matching
    <2> QED BY <1>1, <2>1
  <1>2. ASSUME NEW g \in Matching(h),
               parts' = [b \in Buttons |-> IF b \in DOMAIN g.sets
                                          THEN g.sets[b] ELSE parts[b]]
        PROVE  /\ h = Signal("up", p) => parts'[p] # "pressed"
               /\ h # Signal("down", p) /\ parts'[p] = "pressed" => parts[p] = "pressed"
    <2>1. g \in Programs(h.part) /\ g.on = h.kind
      BY DEF Matching
    <2>2. CASE h.part = p
      <3>1. /\ DOMAIN g.sets = {p}
            /\ g.sets[p] = "pressed" => g.on = "down"
        BY <1>0, <2>1, <2>2, ProgramFacts
      <3>2. h.kind = "down" => h = Signal("down", p)
        BY <1>0, <2>2 DEF MouseSignals, Signal
      <3>3. Signal("up", p).kind = "up"
        BY <1>0, SignalFacts
      <3> QED BY <1>0, <1>2, <2>1, <3>1, <3>2, <3>3
    <2>3. CASE h.part = "btn_mode"
      <3>1. p \in DOMAIN g.sets => g.sets[p] # "pressed"
        BY <1>0, <2>1, <2>3, ProgramFacts DEF Menu
      <3>2. Signal("up", p).part = p
        BY <1>0, SignalFacts
      <3> QED BY <1>0, <1>2, <2>3, <3>1, <3>2
    <2>4. CASE h.part # p /\ h.part # "btn_mode"
      <3>1. DOMAIN g.sets = {h.part}
        BY <1>0, <2>1, <2>4, ProgramFacts
      <3>2. Signal("up", p).part = p
        BY <1>0, SignalFacts
      <3> QED BY <1>0, <1>2, <2>4, <3>1, <3>2
    <2> QED BY <2>2, <2>3, <2>4
  <1> QED BY <1>1, <1>2, RunParts

(* Taking the head of the queue, and appending signals of the application, *)
(* takes no waiting release away but the head.                             *)
LEMMA StuckShift ==
  ASSUME LayoutTypeOK, queue # <<>>, NEW e \in Seq(AppSignals),
         queue' = Tail(queue) \o e, touch' = touch, NEW p \in Momentary,
         PressSeen(p) => ReleasePending(p),
         Head(queue) = Signal("up", p) => parts'[p] # "pressed",
         Head(queue) # Signal("down", p) /\ parts'[p] = "pressed" => parts[p] = "pressed"
  PROVE  (PressSeen(p) => ReleasePending(p))'
  <1> USE DEF Signals
  <1>1. /\ Len(queue') = Len(queue) - 1 + Len(e)
        /\ \A i \in 1 .. Len(queue) - 1 : queue'[i] = queue[i + 1]
        /\ \A i \in 1 .. Len(e) : queue'[Len(queue) - 1 + i] = e[i]
        /\ Len(queue) \in Nat \ {0} /\ Len(e) \in Nat
    BY Requeued DEF LayoutTypeOK
  <1>2. /\ \A s \in AppSignals : s # Signal("down", p)
        /\ Signal("up", p) # Signal("down", p)
    BY SignalFacts DEF Momentary, Buttons
  <1>3. \A i \in 1 .. Len(queue') :
          \/ i <= Len(queue) - 1 /\ queue'[i] = queue[i + 1]
          \/ i > Len(queue) - 1 /\ queue'[i] # Signal("down", p)
    <2> TAKE i \in 1 .. Len(queue')
    <2>1. CASE i <= Len(queue) - 1
      BY <1>1, <2>1
    <2>2. CASE i > Len(queue) - 1
      <3>1. i - (Len(queue) - 1) \in 1 .. Len(e)
        BY <1>1, <2>2
      <3>2. queue'[i] = e[i - (Len(queue) - 1)]
        BY <1>1, <3>1
      <3>3. e[i - (Len(queue) - 1)] \in AppSignals
        BY <3>1
      <3> QED BY <1>2, <2>2, <3>2, <3>3
    <2> QED BY <1>1, <2>1, <2>2
  <1> SUFFICES ASSUME PressSeen(p)' PROVE ReleasePending(p)'
    OBVIOUS
  <1>4. PressSeen(p)
    <2>1. CASE parts'[p] = "pressed"
      <3>1. CASE Head(queue) = Signal("down", p)
        BY <1>1, <3>1 DEF PressSeen
      <3> QED BY <2>1, <3>1 DEF PressSeen
    <2>2. CASE \E i \in 1 .. Len(queue') : queue'[i] = Signal("down", p)
      BY <1>1, <1>3, <2>2 DEF PressSeen
    <2> QED BY <2>1, <2>2 DEF PressSeen
  <1>5. CASE touch = p
    BY <1>5 DEF ReleasePending
  <1>6. CASE touch # p
    <2>1. PICK j \in 1 .. Len(queue) :
            /\ queue[j] = Signal("up", p)
            /\ \A k \in 1 .. Len(queue) : k > j => queue[k] # Signal("down", p)
      BY <1>4, <1>6 DEF ReleasePending
    <2>2. CASE j = 1
      <3>1. parts'[p] # "pressed"
        BY <2>1, <2>2
      <3>2. PICK i \in 1 .. Len(queue') : queue'[i] = Signal("down", p)
        BY <3>1 DEF PressSeen
      <3>3. i + 1 \in 1 .. Len(queue) /\ queue[i + 1] = Signal("down", p)
        BY <1>1, <1>3, <3>2
      <3> QED BY <1>1, <2>1, <2>2, <3>3
    <2>3. CASE j # 1
      <3>1. j - 1 \in 1 .. Len(queue') /\ queue'[j - 1] = Signal("up", p)
        BY <1>1, <2>1, <2>3
      <3>2. \A k \in 1 .. Len(queue') : k > j - 1 => queue'[k] # Signal("down", p)
        BY <1>1, <1>3, <2>1
      <3> QED BY <3>1, <3>2 DEF ReleasePending
    <2> QED BY <2>2, <2>3
  <1> QED BY <1>5, <1>6

LEMMA StuckNext == LayoutTypeOK /\ StuckInv /\ [LayoutNext]_layoutVars => StuckInv'
  <1> SUFFICES ASSUME LayoutTypeOK, StuckInv, [LayoutNext]_layoutVars PROVE StuckInv'
    OBVIOUS
  <1> USE DEF Signals
  <1>0. queue \in Seq(Signals) /\ Momentary \subseteq Buttons
    BY DEF LayoutTypeOK, Momentary, Buttons
  <1>1. ASSUME NEW b \in Buttons, Press(b) PROVE StuckInv'
    <2> SUFFICES ASSUME NEW p \in Momentary, PressSeen(p)' PROVE ReleasePending(p)'
      BY DEF StuckInv
    <2> DEFINE d == Signal("down", b)
    <2>1. /\ d \in Signals /\ d.part = b
          /\ Signal("down", p).part = p /\ Signal("up", p).kind = "up" /\ d.kind = "down"
      BY <1>0, SignalFacts
    <2>2. queue' = Append(queue, d) /\ UNCHANGED parts /\ touch = "none" /\ touch' = b
      BY <1>1 DEF Press
    <2> HIDE DEF d
    <2>3. /\ Len(queue') = Len(queue) + 1 /\ queue'[Len(queue) + 1] = d
          /\ \A i \in 1 .. Len(queue) : queue'[i] = queue[i]
      BY <1>0, <2>1, <2>2
    <2>4. CASE b = p
      BY <2>2, <2>4 DEF ReleasePending
    <2>5. CASE b # p
      <3>1. d # Signal("down", p)
        BY <2>1, <2>5
      <3>2. PressSeen(p)
        BY <1>0, <2>2, <2>3, <3>1 DEF PressSeen
      <3>3. touch # p
        BY <2>2 DEF Momentary
      <3>4. PICK j \in 1 .. Len(queue) :
              /\ queue[j] = Signal("up", p)
              /\ \A k \in 1 .. Len(queue) : k > j => queue[k] # Signal("down", p)
        BY <3>2, <3>3 DEF StuckInv, ReleasePending
      <3>5. j \in 1 .. Len(queue') /\ queue'[j] = Signal("up", p)
        BY <1>0, <2>3, <3>4
      <3>6. \A k \in 1 .. Len(queue') : k > j => queue'[k] # Signal("down", p)
        BY <1>0, <2>3, <3>1, <3>4
      <3> QED BY <3>5, <3>6 DEF ReleasePending
    <2> QED BY <2>4, <2>5
  <1>2. ASSUME NEW clicked \in BOOLEAN, Release(clicked) PROVE StuckInv'
    <2> SUFFICES ASSUME NEW p \in Momentary, PressSeen(p)' PROVE ReleasePending(p)'
      BY DEF StuckInv
    <2>1. touch \in Buttons
      BY <1>2 DEF Release, LayoutTypeOK
    <2> DEFINE e == IF clicked THEN <<Signal("up", touch), Signal("clicked", touch)>>
                               ELSE <<Signal("up", touch)>>
    <2>2. queue' = queue \o e /\ UNCHANGED parts
      BY <1>2 DEF Release
    <2>3. /\ e \in Seq(Signals) /\ Len(e) \in 1 .. 2
          /\ e[1] = Signal("up", touch)
          /\ \A i \in 1 .. Len(e) : e[i].kind # "down"
      BY <2>1, ReleaseSignals
    <2>4. \A i \in 1 .. Len(e) : e[i] # Signal("down", p)
      BY <1>0, <2>3, SignalFacts
    <2> HIDE DEF e
    <2>5. /\ Len(queue') = Len(queue) + Len(e) /\ Len(queue) \in Nat
          /\ \A i \in 1 .. Len(queue) : queue'[i] = queue[i]
          /\ \A i \in 1 .. Len(e) : queue'[Len(queue) + i] = e[i]
      BY <1>0, <2>2, <2>3
    <2>6. \A i \in 1 .. Len(queue') :
            \/ i <= Len(queue) /\ queue'[i] = queue[i]
            \/ i > Len(queue) /\ queue'[i] # Signal("down", p)
      <3> TAKE i \in 1 .. Len(queue')
      <3>1. CASE i <= Len(queue)
        BY <2>5, <3>1
      <3>2. CASE i > Len(queue)
        <4>1. i - Len(queue) \in 1 .. Len(e)
          BY <2>3, <2>5, <3>2
        <4>2. queue'[i] = e[i - Len(queue)]
          BY <2>5, <4>1
        <4> QED BY <2>4, <3>2, <4>1, <4>2
      <3> QED BY <2>5, <3>1, <3>2
    <2>7. PressSeen(p)
      BY <2>2, <2>5, <2>6 DEF PressSeen
    <2>8. CASE touch = p
      <3>1. Len(queue) + 1 \in 1 .. Len(queue') /\ queue'[Len(queue) + 1] = Signal("up", p)
        BY <2>3, <2>5, <2>8
      <3>2. \A k \in 1 .. Len(queue') : k > Len(queue) + 1 => queue'[k] # Signal("down", p)
        BY <2>5, <2>6
      <3> QED BY <3>1, <3>2 DEF ReleasePending
    <2>9. CASE touch # p
      <3>1. PICK j \in 1 .. Len(queue) :
              /\ queue[j] = Signal("up", p)
              /\ \A k \in 1 .. Len(queue) : k > j => queue[k] # Signal("down", p)
        BY <2>7, <2>9 DEF StuckInv, ReleasePending
      <3>2. j \in 1 .. Len(queue') /\ queue'[j] = Signal("up", p)
        BY <2>3, <2>5, <3>1
      <3>3. \A k \in 1 .. Len(queue') : k > j => queue'[k] # Signal("down", p)
        BY <2>5, <2>6, <3>1
      <3> QED BY <3>2, <3>3 DEF ReleasePending
    <2> QED BY <2>8, <2>9
  <1>3. CASE RunPrograms
    <2> SUFFICES ASSUME NEW p \in Momentary PROVE (PressSeen(p) => ReleasePending(p))'
      BY DEF StuckInv
    <2>1. PICK e \in Seq(AppSignals) : queue' = Tail(queue) \o e
      BY <1>3, RunParts
    <2>2. queue # <<>> /\ touch' = touch
      BY <1>3, RunParts
    <2>3. /\ Head(queue) = Signal("up", p) => parts'[p] # "pressed"
          /\ Head(queue) # Signal("down", p) /\ parts'[p] = "pressed" => parts[p] = "pressed"
      BY <1>3, RunPressed
    <2> QED BY <2>1, <2>2, <2>3, StuckShift DEF StuckInv
  <1>4. ASSUME NEW signal \in AppSignals, Notify(signal) PROVE StuckInv'
    <2> SUFFICES ASSUME NEW p \in Momentary PROVE (PressSeen(p) => ReleasePending(p))'
      BY DEF StuckInv
    <2>1. queue # <<>> /\ Head(queue) = signal /\ queue' = Tail(queue)
          /\ UNCHANGED <<parts, touch>>
      BY <1>4 DEF Notify
    <2>2. <<>> \in Seq(AppSignals) /\ queue' = Tail(queue) \o <<>>
      BY <1>0, <2>1
    <2>3. signal # Signal("up", p)
      BY <1>0, SignalFacts
    <2> QED BY <2>1, <2>2, <2>3, StuckShift DEF StuckInv
  <1>5. CASE Close
    BY <1>5 DEF Close, StuckInv, PressSeen, Momentary, Buttons
  <1>6. CASE UNCHANGED layoutVars
    BY <1>6 DEF layoutVars, StuckInv, PressSeen, ReleasePending
  <1> QED BY <1>1, <1>2, <1>3, <1>4, <1>5, <1>6 DEF LayoutNext

(* With no finger down and no signal waiting no momentary button looks     *)
(* pressed, wherever its touch ended and however touches piled up.         *)
THEOREM StuckSafe == AppSpec => []NoButtonStuck
  <1>1. StuckInv => NoButtonStuck
    BY DEF StuckInv, NoButtonStuck, PressSeen, ReleasePending, Quiet, Momentary
  <1> QED BY <1>1, LayoutTypeInit, LayoutTypeNext, LayoutStep, StuckInit, StuckNext,
             PTL DEF AppSpec, AppInit

===============================================================================
