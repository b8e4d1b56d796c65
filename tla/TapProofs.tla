------------------------------- MODULE TapProofs -------------------------------
(***************************************************************************)
(* What a touch comes to: theorems about CameraApp that follow signals     *)
(* through the queue, for any number of touches that wait.                 *)
(***************************************************************************)
EXTENDS CameraAppProofs, FiniteSetTheorems

Places == 1 .. Len(queue)

Down(p) == Signal("down", p)
Up(p) == Signal("up", p)
Clicked(p) == Signal("clicked", p)

-------------------------------------------------------------------------------
(* What each step does to the queue.                                       *)

LEMMA PressQueue ==
  ASSUME LayoutTypeOK, NEW p \in Buttons, Press(p)
  PROVE  /\ Len(queue) \in Nat /\ Len(queue') = Len(queue) + 1
         /\ \A i \in Places : queue'[i] = queue[i]
         /\ queue'[Len(queue) + 1] = Down(p)
  BY SignalFacts DEF Press, LayoutTypeOK, Places, Down

LEMMA ReleaseQueue ==
  ASSUME LayoutTypeOK, NEW clicked \in BOOLEAN, Release(clicked)
  PROVE  /\ touch \in Buttons
         /\ Len(queue) \in Nat
         /\ Len(queue') = IF clicked THEN Len(queue) + 2 ELSE Len(queue) + 1
         /\ \A i \in Places : queue'[i] = queue[i]
         /\ queue'[Len(queue) + 1] = Up(touch)
         /\ clicked => queue'[Len(queue) + 2] = Clicked(touch)
  <1> DEFINE u == Up(touch)
             c == Clicked(touch)
  <1>1. touch \in Buttons
    BY DEF Release, LayoutTypeOK
  <1>2. u \in Signals /\ c \in Signals
    BY <1>1, SignalFacts DEF Signals, Up, Clicked
  <1>3. queue' = queue \o (IF clicked THEN <<u, c>> ELSE <<u>>)
    BY DEF Release, Up, Clicked
  <1> HIDE DEF u, c
  <1>4. queue \in Seq(Signals)
    BY DEF LayoutTypeOK, Signals
  <1>5. CASE clicked
    BY <1>1, <1>2, <1>3, <1>4, <1>5 DEF Places, u, c
  <1>6. CASE ~clicked
    BY <1>1, <1>2, <1>3, <1>4, <1>6 DEF Places, u
  <1> QED BY <1>5, <1>6

LEMMA QueueDrained == flushing' = (queue' # <<>>) => flushing' \/ Len(queue') = 0
  <1>1. queue' = <<>> => Len(queue') = 0
    OBVIOUS
  <1> QED BY <1>1, Zenon

(* A run takes the head and adds at most one signal, of the same part.     *)
LEMMA RunQueue ==
  ASSUME LayoutTypeOK, RunPrograms
  PROVE  LET h == queue[1] IN
         /\ Len(queue) \in Nat \ {0}
         /\ h \in MouseSignals /\ h.part \in Buttons
         /\ \A i \in 1 .. Len(queue) - 1 : queue'[i] = queue[i + 1]
         /\ UNCHANGED <<touch, owed, batched, strayed>>
         /\ flushing' \/ Len(queue') = 0
         /\ \/ /\ Matching(h) = {} /\ UNCHANGED parts
               /\ Len(queue') = Len(queue) - 1
            \/ \E g \in Matching(h) :
                 /\ parts' = [p \in Buttons |-> IF p \in DOMAIN g.sets
                                               THEN g.sets[p] ELSE parts[p]]
                 /\ \/ g.emits = <<>> /\ Len(queue') = Len(queue) - 1
                    \/ /\ \E a \in AppSignals : a.part = h.part /\ g.emits = <<a>>
                       /\ Len(queue') = Len(queue)
                       /\ queue'[Len(queue)] = g.emits[1]
  <1> DEFINE h == queue[1]
  <1>1. /\ queue \in Seq(Signals) /\ queue # <<>> /\ h = Head(queue) /\ h \in MouseSignals
        /\ UNCHANGED <<touch, owed, batched, strayed>>
        /\ h.part \in Buttons
    BY SignalFacts DEF RunPrograms, LayoutTypeOK, Signals
  <1>3. ASSUME NEW g \in Matching(h), queue' = Tail(queue) \o g.emits,
               parts' = [p \in Buttons |-> IF p \in DOMAIN g.sets THEN g.sets[p]
                                                                ELSE parts[p]]
        PROVE  /\ \A i \in 1 .. Len(queue) - 1 : queue'[i] = queue[i + 1]
               /\ \/ g.emits = <<>> /\ Len(queue') = Len(queue) - 1
                  \/ /\ \E a \in AppSignals : a.part = h.part /\ g.emits = <<a>>
                     /\ Len(queue') = Len(queue)
                     /\ queue'[Len(queue)] = g.emits[1]
    <2>1. g.emits = <<>> \/ \E a \in AppSignals : a.part = h.part /\ g.emits = <<a>>
      BY <1>1, ProgramFacts DEF Matching
    <2>2. g.emits \in Seq(Signals)
      <3>1. CASE g.emits = <<>>
        BY <3>1
      <3>2. CASE \E a \in AppSignals : a.part = h.part /\ g.emits = <<a>>
        BY <3>2 DEF Signals
      <3> QED BY <2>1, <3>1, <3>2
    <2>3. /\ Len(queue') = Len(queue) - 1 + Len(g.emits)
          /\ \A i \in 1 .. Len(queue) - 1 : queue'[i] = queue[i + 1]
          /\ \A i \in 1 .. Len(g.emits) : queue'[Len(queue) - 1 + i] = g.emits[i]
      BY <1>1, <1>3, <2>2, Requeued
    <2>4. CASE g.emits = <<>>
      BY <1>1, <2>3, <2>4
    <2>5. CASE \E a \in AppSignals : a.part = h.part /\ g.emits = <<a>>
      <3>1. Len(g.emits) = 1
        BY <2>5
      <3> QED BY <1>1, <2>3, <2>5, <3>1
    <2> QED BY <2>1, <2>3, <2>4, <2>5
  <1>4. Len(queue) \in Nat \ {0} /\ (flushing' \/ Len(queue') = 0)
    BY <1>1, QueueDrained DEF RunPrograms
  <1>5. \/ Matching(h) = {} /\ queue' = Tail(queue) /\ UNCHANGED parts
        \/ \E g \in Matching(h) :
             /\ queue' = Tail(queue) \o g.emits
             /\ parts' = [p \in Buttons |-> IF p \in DOMAIN g.sets THEN g.sets[p]
                                                                ELSE parts[p]]
    BY <1>1 DEF RunPrograms
  <1> HIDE DEF h
  <1>6. CASE \E g \in Matching(h) :
             /\ queue' = Tail(queue) \o g.emits
             /\ parts' = [p \in Buttons |-> IF p \in DOMAIN g.sets THEN g.sets[p]
                                                                ELSE parts[p]]
    BY <1>1, <1>3, <1>4, <1>6 DEF h
  <1>7. CASE Matching(h) = {} /\ queue' = Tail(queue) /\ UNCHANGED parts
    BY <1>1, <1>4, <1>7 DEF h
  <1> QED BY <1>5, <1>6, <1>7

LEMMA NotifyQueue ==
  ASSUME LayoutTypeOK, NEW signal \in AppSignals, Notify(signal)
  PROVE  /\ Len(queue) \in Nat \ {0} /\ Len(queue') = Len(queue) - 1
         /\ queue[1] = signal
         /\ \A i \in 1 .. Len(queue) - 1 : queue'[i] = queue[i + 1]
         /\ flushing' \/ Len(queue') = 0
         /\ UNCHANGED <<parts, touch, batched, strayed>>
  BY QueueDrained DEF Notify, LayoutTypeOK

-------------------------------------------------------------------------------
(* The order of waiting signals: those of the application come last, and   *)
(* those of a touch stay together.                                         *)

OrderInv ==
  /\ ~flushing => \A i \in Places : queue[i] \in MouseSignals
  /\ \A i, j \in Places :
       i < j /\ queue[i] \in AppSignals => queue[j] \in AppSignals
  /\ \A i \in Places, p \in Buttons :
       i > 1 /\ queue[i] = Clicked(p) => queue[i - 1] = Up(p)

LEMMA Disjoint ==
  /\ MouseSignals \cap AppSignals = {}
  /\ \A p \in Buttons :
       /\ Down(p) \in MouseSignals /\ Up(p) \in MouseSignals /\ Clicked(p) \in MouseSignals
       /\ Down(p).part = p /\ Up(p).part = p /\ Clicked(p).part = p
       /\ Down(p) # Up(p) /\ Down(p) # Clicked(p) /\ Up(p) # Clicked(p)
       /\ Down(p).kind = "down" /\ Up(p).kind = "up" /\ Clicked(p).kind = "clicked"
  /\ \A s \in MouseSignals : s \in {Down(s.part), Up(s.part), Clicked(s.part)}
  <1>1. \A s \in MouseSignals : s.kind \in {"down", "up", "clicked"}
    BY DEF MouseSignals
  <1>2. MouseSignals \cap AppSignals = {}
    BY <1>1, SignalFacts
  <1>3. \A s \in MouseSignals : s \in {Down(s.part), Up(s.part), Clicked(s.part)}
    BY DEF MouseSignals, Signal, Down, Up, Clicked
  <1> QED BY <1>2, <1>3, SignalFacts DEF Down, Up, Clicked

LEMMA OrderInit == LayoutInit => OrderInv
  BY DEF LayoutInit, OrderInv, Places

(* Taking the head away, with or without a signal of the application added *)
(* at the end, keeps the order.                                            *)
LEMMA OrderShift ==
  ASSUME OrderInv, Len(queue) \in Nat \ {0},
         \A i \in 1 .. Len(queue) - 1 : queue'[i] = queue[i + 1],
         \/ Len(queue') = Len(queue) - 1
         \/ Len(queue') = Len(queue) /\ queue'[Len(queue)] \in AppSignals,
         flushing' \/ Len(queue') = 0
  PROVE  OrderInv'
  <1>1. \A i \in Places' :
          \/ i + 1 \in Places /\ queue'[i] = queue[i + 1]
          \/ i = Len(queue) /\ queue'[i] \in AppSignals
    BY DEF Places
  <1>2. ASSUME NEW i \in Places', NEW j \in Places', i < j, queue'[i] \in AppSignals
        PROVE  queue'[j] \in AppSignals
    <2>1. CASE j = Len(queue) /\ queue'[j] \in AppSignals
      BY <2>1
    <2>2. CASE j + 1 \in Places /\ queue'[j] = queue[j + 1]
      <3>1. i + 1 \in Places /\ queue'[i] = queue[i + 1]
        BY <1>1, <1>2, <2>2 DEF Places
      <3>2. i + 1 < j + 1
        BY <1>2 DEF Places
      <3> QED BY <1>2, <2>2, <3>1, <3>2 DEF OrderInv
    <2> QED BY <1>1, <2>1, <2>2
  <1>3. ASSUME NEW i \in Places', NEW p \in Buttons, i > 1, queue'[i] = Clicked(p)
        PROVE  queue'[i - 1] = Up(p)
    <2>1. i + 1 \in Places /\ queue[i + 1] = Clicked(p)
      BY <1>1, <1>3, Disjoint
    <2>2. queue[i] = Up(p)
      BY <1>3, <2>1 DEF OrderInv, Places
    <2> QED BY <1>3, <2>1, <2>2 DEF Places
  <1>4. ~flushing' => \A i \in Places' : queue'[i] \in MouseSignals
    BY DEF Places
  <1> QED BY <1>2, <1>3, <1>4 DEF OrderInv

LEMMA OrderNext == LayoutTypeOK /\ OrderInv /\ [LayoutNext]_layoutVars => OrderInv'
  <1> SUFFICES ASSUME LayoutTypeOK, OrderInv, [LayoutNext]_layoutVars PROVE OrderInv'
    OBVIOUS
  <1>1. ASSUME NEW p \in Buttons, Press(p) PROVE OrderInv'
    <2>1. ~flushing /\ \A i \in Places : queue[i] \in MouseSignals
      BY <1>1 DEF Press, OrderInv
    <2>2. \A i \in Places' : queue'[i] \in MouseSignals
      BY <1>1, <2>1, PressQueue, Disjoint DEF Places
    <2>3. ASSUME NEW i \in Places', NEW b \in Buttons, i > 1, queue'[i] = Clicked(b)
          PROVE  queue'[i - 1] = Up(b)
      <3>1. Down(p) # Clicked(b)
        BY Disjoint
      <3>2. i \in Places /\ i - 1 \in Places
        BY <1>1, <2>3, <3>1, PressQueue DEF Places
      <3> QED BY <1>1, <2>3, <3>2, PressQueue DEF OrderInv
    <2> QED BY <2>2, <2>3, Disjoint DEF OrderInv
  <1>2. ASSUME NEW clicked \in BOOLEAN, Release(clicked) PROVE OrderInv'
    <2>1. ~flushing /\ \A i \in Places : queue[i] \in MouseSignals
      BY <1>2 DEF Release, OrderInv
    <2>2. \A i \in Places' : queue'[i] \in MouseSignals
      BY <1>2, <2>1, ReleaseQueue, Disjoint DEF Places
    <2>3. ASSUME NEW i \in Places', NEW b \in Buttons, i > 1, queue'[i] = Clicked(b)
          PROVE  queue'[i - 1] = Up(b)
      <3>1. CASE i \in Places
        <4>1. i - 1 \in Places /\ queue'[i] = queue[i] /\ queue'[i - 1] = queue[i - 1]
          BY <1>2, <2>3, <3>1, ReleaseQueue DEF Places
        <4> QED BY <2>3, <3>1, <4>1 DEF OrderInv
      <3>2. CASE i = Len(queue) + 1
        <4>1. Up(touch) # Clicked(b)
          BY <1>2, ReleaseQueue, Disjoint
        <4> QED BY <1>2, <2>3, <3>2, <4>1, ReleaseQueue
      <3>3. CASE i = Len(queue) + 2 /\ clicked
        <4>1. touch \in Buttons /\ queue'[i] = Clicked(touch) /\ Len(queue) \in Nat
              /\ queue'[Len(queue) + 1] = Up(touch)
          BY <1>2, <3>3, ReleaseQueue
        <4>2. Clicked(touch).part = touch /\ Clicked(b).part = b
          BY <4>1, Disjoint
        <4>3. touch = b
          BY <2>3, <4>1, <4>2
        <4>4. i - 1 = Len(queue) + 1
          BY <3>3, <4>1
        <4> QED BY <4>1, <4>3, <4>4
      <3> QED BY <1>2, <3>1, <3>2, <3>3, ReleaseQueue DEF Places
    <2> QED BY <2>2, <2>3, Disjoint DEF OrderInv
  <1>3. CASE RunPrograms
    <2>1. \/ Len(queue') = Len(queue) - 1
          \/ Len(queue') = Len(queue) /\ queue'[Len(queue)] \in AppSignals
      BY <1>3, RunQueue
    <2> QED BY <1>3, <2>1, RunQueue, OrderShift
  <1>4. ASSUME NEW signal \in AppSignals, Notify(signal) PROVE OrderInv'
    BY <1>4, NotifyQueue, OrderShift
  <1>5. CASE Close
    BY <1>5 DEF Close, OrderInv, Places
  <1>6. CASE UNCHANGED layoutVars
    BY <1>6 DEF layoutVars, OrderInv, Places
  <1> QED BY <1>1, <1>2, <1>3, <1>4, <1>5, <1>6 DEF LayoutNext

-------------------------------------------------------------------------------
(* The two signals of a tap on the sticker part.                           *)

(* A tap that is not strayed has both its release and its click.           *)
WholeInv ==
  ~strayed => \A i \in Places :
    queue[i] = Up("face") => i + 1 \in Places /\ queue[i + 1] = Clicked("face")

LEMMA FacePart == "face" \in Buttons
  BY DEF Buttons

LEMMA WholeInit == LayoutInit => WholeInv
  BY DEF LayoutInit, WholeInv, Places

LEMMA WholeShift ==
  ASSUME WholeInv, strayed' = strayed, Len(queue) \in Nat \ {0},
         \A i \in 1 .. Len(queue) - 1 : queue'[i] = queue[i + 1],
         \/ Len(queue') = Len(queue) - 1
         \/ Len(queue') = Len(queue) /\ queue'[Len(queue)] \in AppSignals
  PROVE  WholeInv'
  <1> SUFFICES ASSUME ~strayed, NEW i \in Places', queue'[i] = Up("face")
               PROVE  i + 1 \in Places' /\ queue'[i + 1] = Clicked("face")
    BY DEF WholeInv
  <1>1. i + 1 \in Places /\ queue[i + 1] = Up("face")
    BY FacePart, Disjoint DEF Places
  <1>2. (i + 1) + 1 \in Places /\ queue[(i + 1) + 1] = Clicked("face")
    BY <1>1 DEF WholeInv
  <1>3. i \in Int /\ (i + 1) + 1 = i + 2
    BY DEF Places
  <1> QED BY <1>2, <1>3 DEF Places

LEMMA WholeNext == LayoutTypeOK /\ WholeInv /\ [LayoutNext]_layoutVars => WholeInv'
  <1> SUFFICES ASSUME LayoutTypeOK, WholeInv, [LayoutNext]_layoutVars PROVE WholeInv'
    OBVIOUS
  <1>1. ASSUME NEW p \in Buttons, Press(p) PROVE WholeInv'
    <2> SUFFICES ASSUME ~strayed', NEW i \in Places', queue'[i] = Up("face")
                 PROVE  i + 1 \in Places' /\ queue'[i + 1] = Clicked("face")
      BY DEF WholeInv
    <2>1. Down(p) # Up("face")
      BY FacePart, Disjoint
    <2>2. ~strayed /\ i \in Places /\ queue[i] = Up("face")
      BY <1>1, <2>1, PressQueue DEF Press, Places
    <2>3. i + 1 \in Places /\ queue[i + 1] = Clicked("face")
      BY <2>2 DEF WholeInv
    <2> QED BY <1>1, <2>3, PressQueue DEF Places
  <1>2. ASSUME NEW clicked \in BOOLEAN, Release(clicked) PROVE WholeInv'
    <2> SUFFICES ASSUME ~strayed', NEW i \in Places', queue'[i] = Up("face")
                 PROVE  i + 1 \in Places' /\ queue'[i + 1] = Clicked("face")
      BY DEF WholeInv
    <2>0. ~strayed /\ (touch = "face" => clicked)
      BY <1>2, Zenon DEF Release
    <2>1. CASE i \in Places
      <3>1. i + 1 \in Places /\ queue[i + 1] = Clicked("face")
        BY <1>2, <2>0, <2>1, ReleaseQueue DEF WholeInv
      <3> QED BY <1>2, <3>1, ReleaseQueue DEF Places
    <2>2. CASE i = Len(queue) + 1
      <3>1. touch \in Buttons /\ Up(touch) = Up("face")
        BY <1>2, <2>2, ReleaseQueue
      <3>2. touch = "face"
        BY <3>1, FacePart, Disjoint
      <3>3. /\ Len(queue) \in Nat /\ Len(queue') = Len(queue) + 2
            /\ queue'[Len(queue) + 2] = Clicked("face")
        BY <1>2, <2>0, <3>2, ReleaseQueue
      <3>4. i + 1 = Len(queue) + 2
        BY <2>2, <3>3
      <3> QED BY <3>3, <3>4 DEF Places
    <2>3. CASE i = Len(queue) + 2 /\ clicked
      <3>1. touch \in Buttons /\ Clicked(touch) = Up("face")
        BY <1>2, <2>3, ReleaseQueue
      <3> QED BY <3>1, FacePart, Disjoint
    <2> QED BY <1>2, <2>1, <2>2, <2>3, ReleaseQueue DEF Places
  <1>3. CASE RunPrograms
    <2>1. \/ Len(queue') = Len(queue) - 1
          \/ Len(queue') = Len(queue) /\ queue'[Len(queue)] \in AppSignals
      BY <1>3, RunQueue
    <2> QED BY <1>3, <2>1, RunQueue, WholeShift
  <1>4. ASSUME NEW signal \in AppSignals, Notify(signal) PROVE WholeInv'
    BY <1>4, NotifyQueue, WholeShift
  <1>5. CASE Close
    BY <1>5 DEF Close, WholeInv, Places
  <1>6. CASE UNCHANGED layoutVars
    BY <1>6 DEF layoutVars, WholeInv, Places
  <1> QED BY <1>1, <1>2, <1>3, <1>4, <1>5, <1>6 DEF LayoutNext

(* The sticker signals wait in pairs, which start at the places F.  Place  *)
(* 0 is that of the signal handled last, and the pair at the end of the    *)
(* queue lacks its second signal while a click is about to run.            *)
Pairs(F) ==
  /\ F \subseteq 0 .. Len(queue)
  /\ \A i \in F : /\ i + 1 \notin F
                  /\ i # 0 => queue[i] = StickerClicked
                  /\ i < Len(queue) => queue[i + 1] = StickerClicked
  /\ \A i \in Places : queue[i] = StickerClicked => i \in F \/ i - 1 \in F
  /\ Len(queue) \in F <=> (Len(queue) > 0 /\ queue[1] = Clicked("face"))

LEMMA StickerSignal == StickerClicked \in AppSignals /\ StickerClicked.part = "face"
  BY DEF AppSignals, StickerClicked, Signal

(* Before the main loop turns to the queue no sticker signal waits.        *)
LEMMA PairsQuiet ==
  ASSUME LayoutTypeOK, OrderInv, ~flushing, NEW F, Pairs(F)
  PROVE  F = {}
  <1>1. \A i \in Places : queue[i] # StickerClicked
    BY StickerSignal, Disjoint DEF OrderInv
  <1>2. Len(queue) \in Nat
    BY DEF LayoutTypeOK
  <1>3. \A i \in F : i \notin Places
    BY <1>1, <1>2 DEF Pairs, Places
  <1>4. 0 \notin F
    BY <1>1, <1>2 DEF Pairs, Places
  <1> QED BY <1>2, <1>3, <1>4 DEF Pairs, Places

(* Release and click of the sticker part, and they alone, add a sticker    *)
(* signal.                                                                 *)
LEMMA FaceRun ==
  ASSUME LayoutTypeOK, RunPrograms
  PROVE  \/ /\ Len(queue') = Len(queue) - 1
            /\ queue[1] # Clicked("face") /\ queue[1] # Up("face")
         \/ /\ Len(queue') = Len(queue)
            /\ queue'[Len(queue)] \in AppSignals
            /\ \/ /\ queue[1] \in {Clicked("face"), Up("face")}
                  /\ queue'[Len(queue)] = StickerClicked
               \/ /\ queue[1] \notin {Clicked("face"), Up("face")}
                  /\ queue'[Len(queue)] # StickerClicked
  <1> DEFINE h == queue[1]
  <1>1. h \in MouseSignals /\ h.part \in Buttons /\ Len(queue) \in Nat \ {0}
    BY RunQueue
  <1>2. /\ Up("face").part = "face" /\ Up("face").kind = "up"
        /\ Clicked("face").part = "face" /\ Clicked("face").kind = "clicked"
    BY FacePart, Disjoint
  <1>3. parts["face"] \in PartState
    BY FacePart DEF LayoutTypeOK
  <1>4. \A g \in FacePrograms :
           /\ g.when = PartState
           /\ g.on = "down" => g.emits = <<>>
           /\ g.on # "down" => g.emits = <<StickerClicked>>
    BY DEF FacePrograms, Program
  <1>5. \A k \in {"down", "up", "clicked"} : \E g \in FacePrograms : g.on = k
    BY DEF FacePrograms, Program
  <1>6. CASE h.part = "face"
    <2>1. Matching(h) = {g \in FacePrograms : g.on = h.kind /\ parts["face"] \in g.when}
      BY <1>6 DEF Matching, Programs
    <2>2. h.kind \in {"down", "up", "clicked"}
      BY <1>1 DEF MouseSignals
    <2>3. Matching(h) # {}
      BY <1>3, <1>4, <1>5, <2>1, <2>2
    <2>4. PICK g \in Matching(h) :
             \/ g.emits = <<>> /\ Len(queue') = Len(queue) - 1
             \/ /\ \E a \in AppSignals : a.part = h.part /\ g.emits = <<a>>
                /\ Len(queue') = Len(queue)
                /\ queue'[Len(queue)] = g.emits[1]
      BY <2>3, RunQueue
    <2>5. g \in FacePrograms /\ g.on = h.kind
      BY <2>1
    <2>6. CASE h.kind = "down"
      <3>1. g.emits = <<>> /\ ~\E a \in AppSignals : g.emits = <<a>>
        BY <1>4, <2>5, <2>6
      <3>2. h # Up("face") /\ h # Clicked("face")
        BY <1>2, <2>6
      <3> QED BY <2>4, <3>1, <3>2
    <2>7. CASE h.kind # "down"
      <3>1. g.emits = <<StickerClicked>>
        BY <1>4, <2>5, <2>7
      <3>2. g.emits # <<>> /\ g.emits[1] = StickerClicked
        BY <3>1
      <3>3. h \in {Up("face"), Clicked("face")}
        BY <1>1, <1>6, <2>7, FacePart, Disjoint
      <3> QED BY <2>4, <3>2, <3>3, StickerSignal
    <2> QED BY <2>6, <2>7
  <1>7. CASE h.part # "face"
    <2>1. h \notin {Clicked("face"), Up("face")}
      BY <1>2, <1>7
    <2>2. CASE Len(queue') = Len(queue) - 1
      BY <2>1, <2>2
    <2>3. CASE Len(queue') # Len(queue) - 1
      <3>1. PICK g \in Matching(h), a \in AppSignals :
              /\ a.part = h.part /\ g.emits = <<a>>
              /\ Len(queue') = Len(queue)
              /\ queue'[Len(queue)] = g.emits[1]
        BY <2>3, RunQueue
      <3>2. queue'[Len(queue)] = a /\ a # StickerClicked
        BY <1>7, <3>1, StickerSignal
      <3> QED BY <2>1, <3>1, <3>2
    <2> QED BY <2>2, <2>3
  <1> QED BY <1>6, <1>7

(* Programs never start or end a pair at the head of the queue.            *)
LEMMA PairsRun ==
  ASSUME LayoutTypeOK, OrderInv, WholeInv, ~strayed, RunPrograms, NEW F, Pairs(F)
  PROVE  0 \notin F /\ \E G : Pairs(G)' /\ 0 \notin G
  <1> DEFINE h == queue[1]
  <1>0. PICK K : K = {i \in 0 .. Len(queue) : i + 1 \in F}
    OBVIOUS
  <1>a. PICK M : M = K \cup {Len(queue)}
    OBVIOUS
  <1>1. /\ Len(queue) \in Nat \ {0} /\ h \in MouseSignals /\ h.part \in Buttons
        /\ \A i \in 1 .. Len(queue) - 1 : queue'[i] = queue[i + 1]
    BY RunQueue
  <1>2. h # StickerClicked /\ 0 \notin F /\ 1 \notin F
    BY <1>1, StickerSignal, Disjoint DEF Pairs, Places
  <1>3. queue[1] = Clicked("face") => ~(Len(queue) > 1 /\ queue[2] = Clicked("face"))
    BY <1>1, FacePart, Disjoint DEF OrderInv, Places
  <1>4. /\ h = Up("face") => Len(queue) > 1 /\ queue[2] = Clicked("face")
        /\ Len(queue) > 1 /\ queue[2] = Clicked("face") => h = Up("face")
    BY <1>1, FacePart DEF WholeInv, OrderInv, Places
  <1>5. ASSUME Len(queue') = Len(queue) - 1, h # Clicked("face"), h # Up("face")
        PROVE  Pairs(K)'
    <2>1. Len(queue) \notin F
      BY <1>1, <1>5 DEF Pairs
    <2>2. \A i \in K : i \in 0 .. Len(queue')
      BY <1>0, <1>1, <1>5, <2>1 DEF Pairs
    <2>3. \A i \in K : /\ i + 1 \notin K
                       /\ i # 0 => queue'[i] = StickerClicked
                       /\ i < Len(queue') => queue'[i + 1] = StickerClicked
      BY <1>0, <1>1, <1>2, <1>5, <2>2 DEF Pairs
    <2>4. \A i \in Places' : queue'[i] = StickerClicked => i \in K \/ i - 1 \in K
      <3> SUFFICES ASSUME NEW i \in Places', queue'[i] = StickerClicked
                   PROVE  i \in K \/ i - 1 \in K
        OBVIOUS
      <3>1. i + 1 \in Places /\ queue[i + 1] = StickerClicked
        BY <1>1, <1>5 DEF Places
      <3>2. i \in Int /\ (i + 1) - 1 = i /\ (i - 1) + 1 = i
        BY DEF Places
      <3>3. i + 1 \in F \/ i \in F
        BY <3>1, <3>2 DEF Pairs
      <3> QED BY <1>0, <1>1, <3>1, <3>2, <3>3 DEF Places
    <2>5. Len(queue') \notin K /\ ~(Len(queue') > 0 /\ queue'[1] = Clicked("face"))
      BY <1>0, <1>1, <1>2, <1>4, <1>5, <2>1 DEF Pairs
    <2>6. K \subseteq 0 .. Len(queue')
      BY <2>2
    <2> QED BY <2>3, <2>4, <2>5, <2>6 DEF Pairs
  <1>6. ASSUME Len(queue') = Len(queue), h # Clicked("face"), h # Up("face"),
               queue'[Len(queue)] \in AppSignals, queue'[Len(queue)] # StickerClicked
        PROVE  Pairs(K)'
    <2>1. Len(queue) \notin F
      BY <1>1, <1>6 DEF Pairs
    <2>2. \A i \in K : i \in 0 .. Len(queue) - 2
      BY <1>0, <1>1, <1>6, <2>1 DEF Pairs
    <2>3. \A i \in K : /\ i + 1 \notin K
                       /\ i # 0 => queue'[i] = StickerClicked
                       /\ i < Len(queue') => queue'[i + 1] = StickerClicked
      BY <1>0, <1>1, <1>2, <1>6, <2>2 DEF Pairs
    <2>4. \A i \in Places' : queue'[i] = StickerClicked => i \in K \/ i - 1 \in K
      <3> SUFFICES ASSUME NEW i \in Places', queue'[i] = StickerClicked
                   PROVE  i \in K \/ i - 1 \in K
        OBVIOUS
      <3>1. i + 1 \in Places /\ queue[i + 1] = StickerClicked
        BY <1>1, <1>6 DEF Places
      <3>2. i \in Int /\ (i + 1) - 1 = i /\ (i - 1) + 1 = i
        BY DEF Places
      <3>3. i + 1 \in F \/ i \in F
        BY <3>1, <3>2 DEF Pairs
      <3> QED BY <1>0, <1>1, <3>1, <3>2, <3>3 DEF Places
    <2>5. Len(queue') \notin K /\ ~(Len(queue') > 0 /\ queue'[1] = Clicked("face"))
      <3>1. queue'[Len(queue)] # Clicked("face")
        BY <1>6, FacePart, Disjoint
      <3> QED BY <1>1, <1>4, <1>6, <2>2, <3>1
    <2>6. K \subseteq 0 .. Len(queue')
      BY <1>1, <1>6, <2>2
    <2> QED BY <2>3, <2>4, <2>5, <2>6 DEF Pairs
  <1>7. ASSUME Len(queue') = Len(queue), h = Up("face"), queue'[Len(queue)] = StickerClicked
        PROVE  Pairs(M)'
    <2>1. Len(queue) \notin F
      BY <1>1, <1>7, FacePart, Disjoint DEF Pairs
    <2>2. \A i \in K : i \in 0 .. Len(queue) - 2
      BY <1>0, <1>1, <1>7, <2>1 DEF Pairs
    <2>3. \A i \in M :
             /\ i \in 0 .. Len(queue')
             /\ i + 1 \notin M
             /\ i # 0 => queue'[i] = StickerClicked
             /\ i < Len(queue') => queue'[i + 1] = StickerClicked
      BY <1>0, <1>a, <1>1, <1>2, <1>7, <2>2 DEF Pairs
    <2>4. \A i \in Places' :
             queue'[i] = StickerClicked
               => i \in M \/ i - 1 \in M
      <3> SUFFICES ASSUME NEW i \in Places', queue'[i] = StickerClicked, i # Len(queue)
                   PROVE  i \in K \/ i - 1 \in K
        BY <1>a
      <3>1. i + 1 \in Places /\ queue[i + 1] = StickerClicked
        BY <1>1, <1>7 DEF Places
      <3>2. i \in Int /\ (i + 1) - 1 = i /\ (i - 1) + 1 = i
        BY DEF Places
      <3>3. i + 1 \in F \/ i \in F
        BY <3>1, <3>2 DEF Pairs
      <3> QED BY <1>0, <1>1, <3>1, <3>2, <3>3 DEF Places
    <2>5. Len(queue') > 0 /\ queue'[1] = Clicked("face")
      BY <1>1, <1>4, <1>7
    <2> QED BY <1>a, <1>7, <2>3, <2>4, <2>5 DEF Pairs
  <1>8. ASSUME Len(queue') = Len(queue), h = Clicked("face"),
               queue'[Len(queue)] = StickerClicked
        PROVE  Pairs(K)'
    <2>1. Len(queue) \in F
      BY <1>1, <1>8 DEF Pairs
    <2>2. \A i \in K : i \in 0 .. Len(queue) - 1
      BY <1>0, <1>1, <1>8 DEF Pairs
    <2>3. \A i \in K : /\ i + 1 \notin K
                       /\ i # 0 => queue'[i] = StickerClicked
                       /\ i < Len(queue') => queue'[i + 1] = StickerClicked
      <3> TAKE i \in K
      <3>1. i + 1 \in F /\ i \in 0 .. Len(queue) - 1
        BY <1>0, <2>2
      <3>2. i + 1 \notin K
        BY <1>0, <3>1 DEF Pairs
      <3>3. i # 0 => queue'[i] = StickerClicked
        BY <1>1, <3>1 DEF Pairs
      <3>4. i < Len(queue') => queue'[i + 1] = StickerClicked
        <4>1. CASE i + 1 = Len(queue)
          BY <1>8, <4>1
        <4>2. CASE i + 1 < Len(queue)
          BY <1>1, <3>1, <4>2 DEF Pairs
        <4> QED BY <1>1, <3>1, <4>1, <4>2
      <3> QED BY <3>2, <3>3, <3>4
    <2>4. \A i \in Places' : queue'[i] = StickerClicked => i \in K \/ i - 1 \in K
      <3> SUFFICES ASSUME NEW i \in Places', queue'[i] = StickerClicked
                   PROVE  i \in K \/ i - 1 \in K
        OBVIOUS
      <3>1. CASE i = Len(queue)
        BY <1>0, <1>1, <2>1, <3>1
      <3>2. CASE i # Len(queue)
        <4>1. i + 1 \in Places /\ queue[i + 1] = StickerClicked
          BY <1>1, <1>8, <3>2 DEF Places
        <4>2. i \in Int /\ (i + 1) - 1 = i /\ (i - 1) + 1 = i
          BY DEF Places
        <4>3. i + 1 \in F \/ i \in F
          BY <4>1, <4>2 DEF Pairs
        <4> QED BY <1>0, <1>1, <4>1, <4>2, <4>3 DEF Places
      <3> QED BY <3>1, <3>2
    <2>5. Len(queue') \notin K /\ ~(Len(queue') > 0 /\ queue'[1] = Clicked("face"))
      <3>1. StickerClicked # Clicked("face")
        BY StickerSignal, FacePart, Disjoint
      <3> QED BY <1>1, <1>3, <1>8, <2>2, <3>1
    <2>6. K \subseteq 0 .. Len(queue')
      BY <1>1, <1>8, <2>2
    <2> QED BY <2>3, <2>4, <2>5, <2>6 DEF Pairs
  <1>9. \/ /\ Len(queue') = Len(queue) - 1
           /\ h # Clicked("face") /\ h # Up("face")
        \/ /\ Len(queue') = Len(queue)
           /\ queue'[Len(queue)] \in AppSignals
           /\ \/ h \in {Clicked("face"), Up("face")} /\ queue'[Len(queue)] = StickerClicked
              \/ /\ h \notin {Clicked("face"), Up("face")}
                 /\ queue'[Len(queue)] # StickerClicked
    BY FaceRun
  <1>10. 0 \notin K /\ 0 \notin M
    BY <1>0, <1>a, <1>1, <1>2
  <1> HIDE DEF h
  <1> QED BY <1>2, <1>5, <1>6, <1>7, <1>8, <1>9, <1>10

(* A handler's turn: the head of the queue leaves, and a pair with it      *)
(* starts or ends exactly when it is a sticker signal.                     *)
LEMMA PairsNotify ==
  ASSUME LayoutTypeOK, OrderInv, NEW signal \in AppSignals, Notify(signal),
         NEW F, Pairs(F)
  PROVE  \E G : /\ Pairs(G)'
                /\ 0 \in F => signal = StickerClicked
                /\ 0 \in G <=> (signal = StickerClicked /\ 0 \notin F)
  <1>0. PICK K : K = {i \in 0 .. Len(queue) : i + 1 \in F}
    OBVIOUS
  <1>1. /\ Len(queue) \in Nat \ {0} /\ Len(queue') = Len(queue) - 1
        /\ queue[1] = signal
        /\ \A i \in 1 .. Len(queue) - 1 : queue'[i] = queue[i + 1]
    BY NotifyQueue
  <1>2. 0 \in F => signal = StickerClicked
    BY <1>1 DEF Pairs
  <1>3. 0 \in K <=> (signal = StickerClicked /\ 0 \notin F)
    <2>1. 0 \in K <=> 1 \in F
      BY <1>0, <1>1
    <2>2. 1 \in F => signal = StickerClicked /\ 0 \notin F
      BY <1>1 DEF Pairs
    <2>3. signal = StickerClicked => 1 \in F \/ 0 \in F
      BY <1>1 DEF Pairs, Places
    <2> QED BY <2>1, <2>2, <2>3
  <1>4. K \subseteq 0 .. Len(queue')
    BY <1>0, <1>1 DEF Pairs
  <1>5. \A i \in K : /\ i + 1 \notin K
                     /\ i # 0 => queue'[i] = StickerClicked
                     /\ i < Len(queue') => queue'[i + 1] = StickerClicked
    BY <1>0, <1>1, <1>4 DEF Pairs
  <1>6. \A i \in Places' : queue'[i] = StickerClicked => i \in K \/ i - 1 \in K
    <2> SUFFICES ASSUME NEW i \in Places', queue'[i] = StickerClicked
                 PROVE  i \in K \/ i - 1 \in K
      OBVIOUS
    <2>1. i + 1 \in Places /\ queue[i + 1] = StickerClicked
      BY <1>1 DEF Places
    <2>2. i \in Int /\ (i + 1) - 1 = i /\ (i - 1) + 1 = i
      BY DEF Places
    <2>3. i + 1 \in F \/ i \in F
      BY <2>1, <2>2 DEF Pairs
    <2> QED BY <1>0, <1>1, <2>1, <2>2, <2>3 DEF Places
  <1>7. Len(queue') \notin K /\ ~(Len(queue') > 0 /\ queue'[1] = Clicked("face"))
    <2>1. queue[1] # Clicked("face")
      BY <1>1, FacePart, Disjoint
    <2>2. Len(queue) \notin F
      BY <1>1, <2>1 DEF Pairs
    <2>3. Len(queue) > 1 => queue[2] \in AppSignals
      BY <1>1 DEF OrderInv, Places
    <2>4. Len(queue') > 0 => queue'[1] # Clicked("face")
      BY <1>1, <2>3, FacePart, Disjoint
    <2> QED BY <1>0, <1>1, <2>2, <2>4
  <1>8. Pairs(K)'
    BY <1>4, <1>5, <1>6, <1>7 DEF Pairs
  <1> QED BY <1>2, <1>3, <1>8

(* Touches and the closing of the window come before the pairs.            *)
LEMMA PairsTouch ==
  ASSUME LayoutTypeOK, OrderInv, OrderInv', Pairs({}),
         (\E p \in Buttons : Press(p)) \/ (\E clicked \in BOOLEAN : Release(clicked)) \/ Close
  PROVE  Pairs({})'
  <1>0. CASE Close
    <2>1. Len(queue') = 0
      BY <1>0 DEF Close
    <2> QED BY <2>1 DEF Pairs, Places
  <1> SUFFICES ASSUME ~Close PROVE Pairs({})'
    BY <1>0
  <1>1. ~flushing' /\ Len(queue) \in Nat
    BY DEF Press, Release, LayoutTypeOK
  <1>2. \A i \in Places' : queue'[i] # StickerClicked
    BY <1>1, StickerSignal, Disjoint DEF OrderInv
  <1>3. Len(queue') > 0 => queue'[1] # Clicked("face")
    <2>1. Len(queue) > 0 => queue[1] # Clicked("face")
      BY DEF Pairs
    <2>2. ASSUME NEW p \in Buttons, Press(p)
          PROVE  Len(queue') > 0 => queue'[1] # Clicked("face")
      <3>1. Down(p) # Clicked("face")
        BY FacePart, Disjoint
      <3> QED BY <2>1, <2>2, <3>1, PressQueue DEF Places
    <2>3. ASSUME NEW clicked \in BOOLEAN, Release(clicked)
          PROVE  Len(queue') > 0 => queue'[1] # Clicked("face")
      <3>1. Up(touch) # Clicked("face")
        BY <2>3, ReleaseQueue, FacePart, Disjoint
      <3> QED BY <2>1, <2>3, <3>1, ReleaseQueue DEF Places
    <2> QED BY <2>2, <2>3
  <1> QED BY <1>2, <1>3 DEF Pairs

-------------------------------------------------------------------------------
(* What the sticker and the detection are between the signals of a pair.   *)

LEMMA Parity ==
  ASSUME NEW n \in Nat
  PROVE  /\ ((n + 1) % MAX_STICKER) % 2 = (n + 1) % 2
         /\ (n % 2 = 0 => (n + 1) % 2 = 1) /\ (n % 2 = 1 => (n + 1) % 2 = 0)
         /\ (n + 2) % 2 = n % 2
         /\ n % 2 \in {0, 1}
  <1>1. PICK m \in Nat : MAX_STICKER = 2 * m
    <2>1. MAX_STICKER \in Nat /\ MAX_STICKER % 2 = 0
      BY ConstantsAssumption, StickerAssumption
    <2>2. MAX_STICKER \div 2 \in Nat /\ MAX_STICKER = 2 * (MAX_STICKER \div 2)
      BY <2>1
    <2> QED BY <2>2
  <1>2. PICK q \in Nat, r \in Nat : n + 1 = MAX_STICKER * q + r /\ (n + 1) % MAX_STICKER = r
    <2>1. MAX_STICKER \in Nat /\ MAX_STICKER > 0
      BY ConstantsAssumption
    <2>2. \A d \in Nat : d > 0 =>
             /\ (n + 1) \div d \in Nat /\ (n + 1) % d \in Nat
             /\ n + 1 = d * ((n + 1) \div d) + ((n + 1) % d)
      OBVIOUS
    <2> QED BY <2>1, <2>2
  <1>3. PICK k \in Nat : MAX_STICKER * q = 2 * k
    <2>1. MAX_STICKER * q = 2 * (m * q) /\ m * q \in Nat
      BY <1>1
    <2> QED BY <2>1
  <1>4. (n + 1) % 2 = r % 2
    BY <1>2, <1>3
  <1> QED BY <1>2, <1>4

(* Between the signals of a tap that the handler acts upon.                *)
Mid(F) == 0 \in F /\ fin = 1

SteadyParity(F) == sticker % 2 = IF Mid(F) THEN 1 ELSE 0

SteadyFlag(F) ==
  "facedetect" \notin Faults =>
    /\ Mid(F) => flag_facerunning \/ cam.state # "PREVIEW"
    /\ ~Mid(F) /\ sticker = 0 => ~flag_facerunning

(* Why taps end on an even sticker and without idle detection: a tap's two *)
(* signals wait side by side, and the first of them starts detection if    *)
(* it is off, so that the second finds it on.                              *)
PairInv == ~strayed => \E F : Pairs(F) /\ SteadyParity(F) /\ SteadyFlag(F)

LEMMA PairInit == AppInit => PairInv
  <1> SUFFICES ASSUME AppInit PROVE PairInv
    OBVIOUS
  <1>1. Pairs({})
    BY DEF AppInit, LayoutInit, Pairs, Places
  <1>2. SteadyParity({}) /\ SteadyFlag({})
    BY DEF AppInit, Init, SteadyParity, SteadyFlag, Mid
  <1> QED BY <1>1, <1>2 DEF PairInv

LEMMA StickerSteady ==
  ASSUME TypeOK, StickerButton, NEW F, NEW G, SteadyParity(F), SteadyFlag(F),
         0 \in G <=> 0 \notin F
  PROVE  SteadyParity(G)' /\ SteadyFlag(G)'
  <1>1. /\ fin = 1 /\ fin' = 1
        /\ sticker \in Nat /\ sticker' = (sticker + 1) % MAX_STICKER
        /\ cam \in Camera /\ flag_facerunning \in BOOLEAN
    BY DEF StickerButton, PredictorReady, startVars, TypeOK
  <1>2. SteadyParity(G)'
    BY <1>1, Parity DEF SteadyParity, Mid
  <1>3. ASSUME "facedetect" \notin Faults
        PROVE  /\ flag_facerunning => flag_facerunning' = (sticker' # 0)
               /\ ~flag_facerunning => flag_facerunning' = (cam.state = "PREVIEW")
               /\ cam'.state = cam.state
    <2>1. PICK ok \in Outcomes(StickerCalls) :
            LET c == StickerCamera(sticker', ok)
            IN  \/ /\ sticker' = 0 /\ flag_facerunning
                   /\ cam' = StopFaceDetection(c, ok["stopface"])
                   /\ flag_facerunning' = FALSE
                \/ /\ sticker' # 0 /\ flag_facerunning
                   /\ cam' = c
                   /\ UNCHANGED flag_facerunning
                \/ /\ ~flag_facerunning
                   /\ cam' = StartFaceDetection(c, ok["facedetect"])
                   /\ flag_facerunning' = (c.state = "PREVIEW" /\ ok["facedetect"])
      BY DEF StickerButton
    <2>2. ok["facedetect"] = TRUE /\ ok["stopface"] \in BOOLEAN
      <3>1. "facedetect" \in StickerCalls /\ "stopface" \in StickerCalls
        BY DEF StickerCalls
      <3> QED BY <1>3, <3>1, OutcomesType
    <2> DEFINE c == StickerCamera(sticker', ok)
    <2>3. c \in Camera /\ c.state = cam.state
      BY <1>1, StickerCameraState
    <2> HIDE DEF c
    <2>4. /\ StopFaceDetection(c, ok["stopface"]).state = cam.state
          /\ StartFaceDetection(c, ok["facedetect"]).state = cam.state
      <3>1. \A b \in BOOLEAN : /\ StopFaceDetection(c, b).state = c.state
                              /\ StartFaceDetection(c, b).state = c.state
        BY <2>3, DetectionState
      <3>2. ok["facedetect"] \in BOOLEAN
        BY <2>2
      <3> QED BY <2>2, <2>3, <3>1, <3>2
    <2> QED BY <2>1, <2>2, <2>3, <2>4 DEF c
  <1>4. SteadyFlag(G)'
    <2> SUFFICES ASSUME "facedetect" \notin Faults
                 PROVE  /\ Mid(G)' => flag_facerunning' \/ cam'.state # "PREVIEW"
                        /\ ~Mid(G)' /\ sticker' = 0 => ~flag_facerunning'
      BY DEF SteadyFlag
    <2>1. CASE 0 \in G
      <3>1. sticker' % 2 = 1 /\ Mid(G)'
        BY <1>1, <1>2, <2>1 DEF SteadyParity, Mid
      <3>2. sticker' # 0
        BY <3>1
      <3> QED BY <1>3, <3>1, <3>2
    <2>2. CASE 0 \notin G
      <3>1. Mid(F)
        BY <1>1, <2>2 DEF Mid
      <3> QED BY <1>1, <1>3, <2>2, <3>1 DEF SteadyFlag, Mid
    <2> QED BY <2>1, <2>2
  <1> QED BY <1>2, <1>4

(* Gestures step by two and stop detection at the end of the stickers; the *)
(* rest of the callbacks leaves both alone.                                *)
LEMMA CallbackSteady ==
  ASSUME TypeOK, FaceDetected \/ PreviewCallback, SteadyParity({}), SteadyFlag({})
  PROVE  SteadyParity({})' /\ SteadyFlag({})'
  <1>1. ~Mid({}) /\ ~Mid({})'
    BY DEF Mid
  <1>2. sticker \in Nat /\ sticker % 2 = 0 /\ (sticker + 2) % 2 = sticker % 2
    BY <1>1, Parity DEF SteadyParity, TypeOK
  <1>3. CASE NoseGesture
    BY <1>1, <1>2, <1>3 DEF NoseGesture, SteadyParity, SteadyFlag
  <1>4. CASE BoundSticker
    BY <1>1, <1>2, <1>4 DEF BoundSticker, SteadyParity, SteadyFlag
  <1>5. CASE ~NoseGesture /\ ~BoundSticker
    <2>1. UNCHANGED <<sticker, flag_facerunning>>
      BY <1>5 DEF FaceDetected, PreviewCallback, StickerFrame, PlainStickerFrame,
                  FilterFrame, ApplyFilter, PlaceSticker, FollowFace, TakeRequest,
                  EndFrame, Encode, RestartPreview, buttonVars, flagVars
    <2> QED BY <1>1, <2>1 DEF SteadyParity, SteadyFlag
  <1> QED BY <1>3, <1>4, <1>5

LEMMA PairNext ==
  ASSUME TypeOK, LayoutTypeOK, OrderInv, OrderInv', WholeInv, PairInv,
         [AppNext]_appVars
  PROVE  PairInv'
  <1> SUFFICES ASSUME ~strayed'
               PROVE  \E G : Pairs(G)' /\ SteadyParity(G)' /\ SteadyFlag(G)'
    BY DEF PairInv
  <1>0. ~strayed
    <2>1. CASE UNCHANGED layoutVars
      BY <2>1 DEF layoutVars
    <2>2. CASE LayoutNext
      BY <2>2, Zenon DEF LayoutNext, Press, Release, RunPrograms, Notify, Close
    <2> QED BY <2>1, <2>2, LayoutStep
  <1>a. PICK F : Pairs(F) /\ SteadyParity(F) /\ SteadyFlag(F)
    BY <1>0 DEF PairInv
  <1>b. ~flushing => F = {}
    BY <1>a, PairsQuiet
  <1>1. CASE PressPart \/ ReleasePart \/ CloseWindow
    <2>1. F = {}
      BY <1>1, <1>b DEF PressPart, ReleasePart, CloseWindow, Press, Release
    <2>2. Pairs({})'
      BY <1>1, <1>a, <2>1, PairsTouch DEF PressPart, ReleasePart, CloseWindow
    <2>3. UNCHANGED <<sticker, flag_facerunning>>
      BY <1>1 DEF PressPart, ReleasePart, CloseWindow, AppTerminate, vars, buttonVars, flagVars
    <2>4. SteadyParity({})' /\ SteadyFlag({})'
      BY <1>a, <2>1, <2>3 DEF SteadyParity, SteadyFlag, Mid
    <2> QED BY <2>2, <2>4
  <1>2. CASE HandleMouse
    <2>1. 0 \notin F /\ \E G : Pairs(G)' /\ 0 \notin G
      BY <1>0, <1>2, <1>a, PairsRun DEF HandleMouse
    <2>2. PICK G : Pairs(G)' /\ 0 \notin G
      BY <2>1
    <2>3. UNCHANGED <<sticker, flag_facerunning>>
      BY <1>2 DEF HandleMouse, vars, buttonVars, flagVars
    <2>4. SteadyParity(G)' /\ SteadyFlag(G)'
      BY <1>a, <2>1, <2>2, <2>3 DEF SteadyParity, SteadyFlag, Mid
    <2> QED BY <2>2, <2>4
  <1>3. ASSUME NEW signal \in AppSignals, signal # StickerClicked, Notify(signal),
               UNCHANGED sticker, flag_facerunning' => flag_facerunning
        PROVE  \E G : Pairs(G)' /\ SteadyParity(G)' /\ SteadyFlag(G)'
    <2>1. PICK G : Pairs(G)' /\ 0 \notin F /\ 0 \notin G
      BY <1>3, <1>a, PairsNotify
    <2>2. SteadyParity(G)' /\ SteadyFlag(G)'
      BY <1>3, <1>a, <2>1 DEF SteadyParity, SteadyFlag, Mid
    <2> QED BY <2>1, <2>2
  <1>4. CASE HandleEffect
    <2>1. Notify(EffectClicked) /\ UNCHANGED sticker /\ (flag_facerunning' => flag_facerunning)
      BY <1>4 DEF HandleEffect, EffectButton
    <2>2. EffectClicked \in AppSignals /\ EffectClicked # StickerClicked
      BY DEF AppSignals, EffectClicked, StickerClicked, Signal
    <2> QED BY <1>3, <2>1, <2>2
  <1>5. CASE HandleMotion
    <2>1. Notify(MotionClicked) /\ UNCHANGED <<sticker, flag_facerunning>>
      BY <1>5 DEF HandleMotion, MotionButton, flagVars
    <2>2. MotionClicked \in AppSignals /\ MotionClicked # StickerClicked
      BY DEF AppSignals, MotionClicked, StickerClicked, Signal
    <2> QED BY <1>3, <2>1, <2>2
  <1>6. CASE HandleShutter
    <2>1. Notify(ShutterClicked) /\ UNCHANGED <<sticker, flag_facerunning>>
      BY <1>6 DEF HandleShutter, ShutterButton, vars, buttonVars, flagVars
    <2>2. ShutterClicked \in AppSignals /\ ShutterClicked # StickerClicked
      BY DEF AppSignals, ShutterClicked, StickerClicked, Signal
    <2> QED BY <1>3, <2>1, <2>2
  <1>7. CASE HandleSticker
    <2>1. Notify(StickerClicked) /\ StickerClicked \in AppSignals
      BY <1>7, StickerSignal DEF HandleSticker
    <2>2. PICK G : Pairs(G)' /\ (0 \in G <=> 0 \notin F)
      BY <1>a, <2>1, PairsNotify
    <2>3. CASE StickerButton
      BY <1>a, <2>2, <2>3, StickerSteady
    <2>4. CASE ~PredictorReady /\ UNCHANGED vars
      <3>1. fin # 1 /\ UNCHANGED <<fin, sticker, flag_facerunning>>
        BY <2>4 DEF PredictorReady, vars, startVars, buttonVars, flagVars
      <3>2. SteadyParity(G)' /\ SteadyFlag(G)'
        BY <1>a, <3>1 DEF SteadyParity, SteadyFlag, Mid
      <3> QED BY <2>2, <3>2
    <2> QED BY <1>7, <2>3, <2>4 DEF HandleSticker
  <1>8. ASSUME UNCHANGED layoutVars PROVE Pairs(F)'
    BY <1>8, <1>a DEF layoutVars, Pairs, Places
  <1>9. CASE LifeCycle
    <2>1. F = {} /\ Pairs(F)'
      BY <1>9, <1>b, <1>8 DEF LifeCycle
    <2>2. UNCHANGED <<sticker, flag_facerunning>>
      BY <1>9 DEF LifeCycle, AppCreate, AppResume, AppPause, EnableSticker, buttonVars, flagVars
    <2>3. SteadyParity(F)' /\ SteadyFlag(F)'
      BY <1>a, <2>1, <2>2 DEF SteadyParity, SteadyFlag, Mid
    <2> QED BY <2>1, <2>3
  <1>10. CASE CameraCallback
    <2>1. F = {} /\ Pairs(F)'
      BY <1>10, <1>b, <1>8 DEF CameraCallback
    <2>2. SteadyParity({})' /\ SteadyFlag({})'
      BY <1>10, <1>a, <2>1, CallbackSteady DEF CameraCallback
    <2> QED BY <2>1, <2>2
  <1>11. CASE LoaderThread
    <2>1. /\ Pairs(F)' /\ UNCHANGED <<sticker, flag_facerunning, fin>>
          /\ cam' = cam \/ cam'.state = "NONE"
      <3>1. NoCamera.state = "NONE"
        BY DEF NoCamera
      <3> QED BY <1>11, <1>8, <3>1 DEF LoaderThread, LoadModel, LoadModelFails,
                                       buttonVars, flagVars
    <2>2. SteadyParity(F)' /\ SteadyFlag(F)'
      BY <1>a, <2>1 DEF SteadyParity, SteadyFlag, Mid
    <2> QED BY <2>1, <2>2
  <1>12. CASE UNCHANGED appVars
    <2>1. Pairs(F)' /\ UNCHANGED <<sticker, flag_facerunning, fin, cam>>
      BY <1>12, <1>8 DEF appVars, vars, startVars, buttonVars, flagVars
    <2>2. SteadyParity(F)' /\ SteadyFlag(F)'
      BY <1>a, <2>1 DEF SteadyParity, SteadyFlag, Mid
    <2> QED BY <2>1, <2>2
  <1> QED BY <1>1, <1>2, <1>4, <1>5, <1>6, <1>7, <1>9, <1>10, <1>11, <1>12 DEF AppNext

(* The signals and pairs of every reachable state.                         *)
LEMMA PairAlways == AppSpec => [](LayoutTypeOK /\ OrderInv /\ PairInv)
  <1> DEFINE All == TypeOK /\ LayoutTypeOK /\ OrderInv /\ WholeInv /\ PairInv
  <1>1. AppInit => All
    BY InitType, LayoutTypeInit, OrderInit, WholeInit, PairInit DEF AppInit
  <1>2. All /\ [AppNext]_appVars => All'
    BY AppStep, LayoutStep, NextType, LayoutTypeNext, OrderNext, WholeNext, PairNext
  <1> QED BY <1>1, <1>2, PTL DEF AppSpec

(* Without anything waiting no pair is split.                              *)
LEMMA QuietPairs ==
  ASSUME Quiet, ~strayed, PairInv
  PROVE  SteadyParity({}) /\ SteadyFlag({})
  <1>1. PICK F : Pairs(F) /\ SteadyParity(F) /\ SteadyFlag(F)
    BY DEF PairInv
  <1>2. Len(queue) = 0
    BY DEF Quiet
  <1>3. F = {}
    BY <1>1, <1>2 DEF Pairs
  <1> QED BY <1>1, <1>3

(* Taps end on a sticker that is drawn, on none, or on MAX_STICKER after a *)
(* gesture has been there; on no odd number, however many touches wait,    *)
(* whatever calls fail and however gestures, pauses and captures come in   *)
(* between.                                                                *)
THEOREM StickerSettles == AppSpec => []StickerDrawn
  <1> DEFINE Core == TypeOK /\ LoadedInv /\ RangeInv
  <1>1. Init => Core
    BY InitType, LoadedInit, RangeInit
  <1>2. Core /\ [Next]_vars => Core'
    BY NextType, LoadedNext, RangeNext
  <1>3. PairInv /\ Core => StickerDrawn
    <2> SUFFICES ASSUME PairInv, Core, Quiet, ~strayed, pc # "bound"
                 PROVE  sticker \in Pictures \cup {0, MAX_STICKER}
      BY DEF StickerDrawn
    <2>1. sticker % 2 = 0
      BY QuietPairs DEF SteadyParity, Mid
    <2>2. sticker \in 0 .. MAX_STICKER
      BY ConstantsAssumption DEF TypeOK, RangeInv
    <2> QED BY <2>1, <2>2, ConstantsAssumption DEF Pictures
  <1> HIDE DEF Core
  <1> QED BY <1>1, <1>2, <1>3, PairAlways, AppImplementsCamera, PTL DEF Spec

(* If detection never fails to start, the sticker 0 is never left with     *)
(* detection running by the taps.                                          *)
THEOREM DetectionSettles ==
  "facedetect" \notin Faults => (AppSpec => []NoIdleDetection)
  <1> SUFFICES ASSUME "facedetect" \notin Faults
               PROVE  AppSpec => []NoIdleDetection
    OBVIOUS
  <1>1. PairInv => NoIdleDetection
    BY QuietPairs DEF NoIdleDetection, SteadyFlag, Mid
  <1> QED BY <1>1, PairAlways, PTL

-------------------------------------------------------------------------------
(* Counting signals.                                                       *)

Counted == {"effect", "motion", "shutter_button"}

(* The waiting signals of a part that stand for one change each.           *)
Weight(p) ==
  CASE p = "effect" -> {Up("effect"), EffectClicked}
    [] p = "motion" -> {Up("motion"), MotionClicked}
    [] p = "shutter_button" -> {Clicked("shutter_button"), ShutterClicked}

Pending(p) == {i \in Places : queue[i] \in Weight(p)}

LEMMA ShiftCount ==
  ASSUME NEW n \in Nat, NEW S, S \subseteq 2 .. n
  PROVE  LET T == {i \in 1 .. n - 1 : i + 1 \in S}
         IN  IsFiniteSet(S) /\ IsFiniteSet(T) /\ Cardinality(T) = Cardinality(S)
  <1> DEFINE T == {i \in 1 .. n - 1 : i + 1 \in S}
             f == [i \in S |-> i - 1]
  <1>1. IsFiniteSet(S)
    <2>1. IsFiniteSet(2 .. n)
      BY FS_Interval
    <2> QED BY <2>1, FS_Subset
  <1>2. f \in [S -> T]
    BY DEF T
  <1>3. \A a, b \in S : f[a] = f[b] => a = b
    OBVIOUS
  <1>4. \A t \in T : \E s \in S : f[s] = t
    <2> TAKE t \in T
    <2>1. t + 1 \in S /\ f[t + 1] = t
      OBVIOUS
    <2> QED BY <2>1
  <1> HIDE DEF f, T
  <1>5. f \in Bijection(S, T)
    BY <1>2, <1>3, <1>4 DEF Bijection, Injection, Surjection, IsInjective
  <1>6. ExistsBijection(S, T)
    BY <1>5 DEF ExistsBijection
  <1> QED BY <1>1, <1>6, FS_Bijection DEF T

LEMMA PendingFinite ==
  ASSUME LayoutTypeOK, NEW p
  PROVE  IsFiniteSet(Pending(p)) /\ Cardinality(Pending(p)) \in Nat
  <1>1. IsFiniteSet(Places)
    BY FS_Interval DEF LayoutTypeOK, Places
  <1> QED BY <1>1, FS_Subset, FS_CardinalityType DEF Pending

(* The count when the head leaves and perhaps a signal joins at the end.   *)
LEMMA CountShift ==
  ASSUME LayoutTypeOK, NEW p \in Counted, Len(queue) \in Nat \ {0},
         \A i \in 1 .. Len(queue) - 1 : queue'[i] = queue[i + 1],
         Len(queue') = Len(queue) - 1 \/ Len(queue') = Len(queue)
  PROVE  LET gone == IF queue[1] \in Weight(p) THEN 1 ELSE 0
             come == IF Len(queue') = Len(queue) /\ queue'[Len(queue)] \in Weight(p)
                     THEN 1 ELSE 0
         IN  Cardinality(Pending(p)') = Cardinality(Pending(p)) - gone + come
  <1> DEFINE n == Len(queue)
             S == Pending(p) \ {1}
             T == {i \in 1 .. n - 1 : i + 1 \in S}
  <1>0. n \in Nat \ {0}
    OBVIOUS
  <1>1. IsFiniteSet(Pending(p)) /\ Cardinality(Pending(p)) \in Nat
    BY PendingFinite
  <1>2. 1 \in Pending(p) <=> queue[1] \in Weight(p)
    BY DEF Pending, Places
  <1>3. Cardinality(S) = Cardinality(Pending(p)) - (IF queue[1] \in Weight(p) THEN 1 ELSE 0)
    <2>1. Cardinality(S) = IF 1 \in Pending(p) THEN Cardinality(Pending(p)) - 1
                                              ELSE Cardinality(Pending(p))
      BY <1>1, FS_RemoveElement
    <2> HIDE DEF S
    <2> QED BY <1>1, <1>2, <2>1
  <1>4. S \subseteq 2 .. n
    BY DEF Pending, Places
  <1>5. IsFiniteSet(T) /\ Cardinality(T) = Cardinality(S)
    BY <1>0, <1>4, ShiftCount
  <1>6. T = {i \in 1 .. n - 1 : queue'[i] \in Weight(p)}
    <2>1. \A i \in 1 .. n - 1 : i + 1 \in S <=> queue'[i] \in Weight(p)
      BY DEF Pending, Places
    <2> QED BY <2>1
  <1>7. Pending(p)' = {i \in Places' : queue'[i] \in Weight(p)}
    BY DEF Pending, Weight
  <1>8. CASE Len(queue') = n /\ queue'[n] \in Weight(p)
    <2>1. Pending(p)' = T \cup {n} /\ n \notin T
      <3> HIDE DEF T
      <3> QED BY <1>0, <1>6, <1>7, <1>8 DEF Places
    <2>2. Cardinality(Pending(p)') = Cardinality(T) + 1
      <3> HIDE DEF T
      <3> QED BY <1>5, <2>1, FS_AddElement
    <2> HIDE DEF T, S
    <2> QED BY <1>1, <1>3, <1>5, <1>8, <2>2 DEF n
  <1>9. CASE ~(Len(queue') = n /\ queue'[n] \in Weight(p))
    <2>1. Pending(p)' = T
      <3> HIDE DEF T
      <3> QED BY <1>0, <1>6, <1>7, <1>9 DEF Places
    <2> HIDE DEF T, S
    <2> QED BY <1>1, <1>3, <1>5, <1>9, <2>1 DEF n
  <1> QED BY <1>8, <1>9

(* The count when signals of which at most one counts join at the end.     *)
LEMMA CountAppend ==
  ASSUME LayoutTypeOK, NEW p \in Counted, Len(queue') \in Nat, Len(queue) <= Len(queue'),
         \A i \in Places : queue'[i] = queue[i],
         NEW k, k \in Len(queue) + 1 .. Len(queue') \/ k = 0,
         \A i \in Len(queue) + 1 .. Len(queue') : queue'[i] \in Weight(p) <=> i = k
  PROVE  Cardinality(Pending(p)') = Cardinality(Pending(p)) + (IF k = 0 THEN 0 ELSE 1)
  <1>0. Len(queue) \in Nat
    BY DEF LayoutTypeOK
  <1>1. IsFiniteSet(Pending(p)) /\ Cardinality(Pending(p)) \in Nat
    BY PendingFinite
  <1>2. Pending(p)' = {i \in Places' : queue'[i] \in Weight(p)}
    BY DEF Pending, Weight
  <1>3. CASE k = 0
    <2>1. Pending(p)' = Pending(p)
      BY <1>0, <1>2, <1>3 DEF Pending, Places
    <2> QED BY <1>1, <1>3, <2>1
  <1>4. CASE k # 0
    <2>1. Pending(p)' = Pending(p) \cup {k} /\ k \notin Pending(p)
      BY <1>0, <1>2, <1>4 DEF Pending, Places
    <2>2. Cardinality(Pending(p) \cup {k}) = Cardinality(Pending(p)) + 1
      BY <1>1, <2>1, FS_AddElement
    <2> QED BY <1>4, <2>1, <2>2
  <1> QED BY <1>3, <1>4

-------------------------------------------------------------------------------
(* The effect button: release and click have a program each, of which      *)
(* exactly one must answer.                                                *)

(* A press of it that has been handled shows, one that has not waits right *)
(* before its release; after the release the part is visible again, which  *)
(* is no state for the program of the click.                               *)
EffectReady ==
  /\ touch = "effect" =>
       \/ parts["effect"] = "pressed" /\ \A i \in Places : queue[i] \in AppSignals
       \/ \E i \in Places : /\ queue[i] = Down("effect")
                            /\ \A j \in Places : j > i => queue[j] \in AppSignals
  /\ \A i \in Places : i > 1 /\ queue[i] = Up("effect") => queue[i - 1] = Down("effect")
  /\ Len(queue) > 0 =>
       /\ queue[1] = Up("effect") => parts["effect"] = "pressed"
       /\ queue[1] = Clicked("effect") => parts["effect"] = "visible"

LEMMA EffectPart == "effect" \in Buttons
  BY DEF Buttons

LEMMA EffectRun ==
  ASSUME LayoutTypeOK, RunPrograms
  PROVE  /\ queue[1] = Down("effect") =>
              parts'["effect"] = "pressed" /\ Len(queue') = Len(queue) - 1
         /\ queue[1] = Up("effect") /\ parts["effect"] = "pressed" =>
              /\ parts'["effect"] = "visible"
              /\ Len(queue') = Len(queue) /\ queue'[Len(queue)] = EffectClicked
         /\ queue[1] = Clicked("effect") /\ parts["effect"] = "visible" =>
              Len(queue') = Len(queue) - 1
  <1> DEFINE h == queue[1]
  <1>1. parts["effect"] \in PartState
    BY EffectPart DEF LayoutTypeOK
  <1>2. \A k \in {"down", "up", "clicked"} :
           h = Signal(k, "effect") =>
             /\ h.part = "effect" /\ h.kind = k
             /\ Matching(h) = {g \in EffectPrograms : g.on = k /\ parts["effect"] \in g.when}
    BY EffectPart, SignalFacts DEF Matching, Programs
  <1>3. \A g \in EffectPrograms :
          /\ g.on = "down" =>
               /\ g.when = PartState /\ g.emits = <<>>
               /\ DOMAIN g.sets = {"effect"} /\ g.sets["effect"] = "pressed"
          /\ g.on = "up" =>
               /\ g.when = {"pressed"} /\ g.emits = <<EffectClicked>>
               /\ DOMAIN g.sets = {"effect"} /\ g.sets["effect"] = "visible"
          /\ g.on = "clicked" => g.when = {"default"}
    BY DEF EffectPrograms, Program, Sets
  <1>4. \A k \in {"down", "up", "clicked"} : \E g \in EffectPrograms : g.on = k
    BY DEF EffectPrograms, Program
  <1>5. CASE h = Down("effect")
    <2>1. PICK g \in Matching(h) :
            /\ parts' = [p \in Buttons |-> IF p \in DOMAIN g.sets
                                          THEN g.sets[p] ELSE parts[p]]
            /\ \/ g.emits = <<>> /\ Len(queue') = Len(queue) - 1
               \/ \E a \in AppSignals : g.emits = <<a>>
      <3>1. Matching(h) # {}
        BY <1>1, <1>2, <1>3, <1>4, <1>5 DEF Down
      <3> QED BY <3>1, RunQueue
    <2>2. g \in EffectPrograms /\ g.on = "down"
      BY <1>2, <1>5, <2>1 DEF Down
    <2>3. g.emits = <<>> /\ ~\E a \in AppSignals : g.emits = <<a>>
      BY <1>3, <2>2
    <2>4. parts'["effect"] = "pressed"
      BY <1>3, <2>1, <2>2, EffectPart
    <2> QED BY <1>5, <2>1, <2>3, <2>4, EffectPart, Disjoint
  <1>6. CASE h = Up("effect") /\ parts["effect"] = "pressed"
    <2>1. PICK g \in Matching(h) :
            /\ parts' = [p \in Buttons |-> IF p \in DOMAIN g.sets
                                          THEN g.sets[p] ELSE parts[p]]
            /\ \/ g.emits = <<>>
               \/ /\ Len(queue') = Len(queue)
                  /\ queue'[Len(queue)] = g.emits[1]
      <3>1. Matching(h) # {}
        BY <1>2, <1>3, <1>4, <1>6 DEF Up
      <3> QED BY <3>1, RunQueue
    <2>2. g \in EffectPrograms /\ g.on = "up"
      BY <1>2, <1>6, <2>1 DEF Up
    <2>3. g.emits # <<>> /\ g.emits[1] = EffectClicked
      BY <1>3, <2>2
    <2>4. parts'["effect"] = "visible"
      BY <1>3, <2>1, <2>2, EffectPart
    <2> QED BY <1>6, <2>1, <2>3, <2>4, EffectPart, Disjoint
  <1>7. CASE h = Clicked("effect") /\ parts["effect"] = "visible"
    <2>1. Matching(h) = {}
      BY <1>2, <1>3, <1>7 DEF Clicked
    <2> QED BY <1>7, <2>1, RunQueue, EffectPart, Disjoint
  <1> QED BY <1>5, <1>6, <1>7

LEMMA EffectInit == LayoutInit => EffectReady
  <1> SUFFICES ASSUME LayoutInit PROVE EffectReady
    OBVIOUS
  <1>1. Len(queue) = 0 /\ touch = "none"
    BY DEF LayoutInit
  <1> QED BY <1>1 DEF EffectReady, Places

LEMMA EffectNext ==
  ASSUME LayoutTypeOK, OrderInv, EffectReady, [LayoutNext]_layoutVars
  PROVE  EffectReady'
  <1>1. ASSUME NEW p \in Buttons, Press(p) PROVE EffectReady'
    <2>1. /\ Len(queue) \in Nat /\ Len(queue') = Len(queue) + 1
          /\ \A i \in Places : queue'[i] = queue[i]
          /\ queue'[Len(queue) + 1] = Down(p)
          /\ touch' = p /\ UNCHANGED parts
      BY <1>1, PressQueue DEF Press
    <2>2. Down(p) # Up("effect") /\ Down(p) # Clicked("effect")
      BY EffectPart, Disjoint
    <2>3. touch' = "effect" => \E i \in Places' : /\ queue'[i] = Down("effect")
                                                  /\ \A j \in Places' : ~(j > i)
      BY <2>1 DEF Places
    <2>4. ASSUME NEW i \in Places', i > 1, queue'[i] = Up("effect")
          PROVE  queue'[i - 1] = Down("effect")
      <3>1. i \in Places /\ i - 1 \in Places
        BY <2>1, <2>2, <2>4 DEF Places
      <3> QED BY <2>1, <2>4, <3>1 DEF EffectReady
    <2>5. /\ queue'[1] = Up("effect") => parts'["effect"] = "pressed"
          /\ queue'[1] = Clicked("effect") => parts'["effect"] = "visible"
      BY <2>1, <2>2 DEF EffectReady, Places
    <2> QED BY <2>3, <2>4, <2>5 DEF EffectReady
  <1>2. ASSUME NEW clicked \in BOOLEAN, Release(clicked) PROVE EffectReady'
    <2>1. /\ Len(queue) \in Nat
          /\ Len(queue') = IF clicked THEN Len(queue) + 2 ELSE Len(queue) + 1
          /\ \A i \in Places : queue'[i] = queue[i]
          /\ queue'[Len(queue) + 1] = Up(touch)
          /\ clicked => queue'[Len(queue) + 2] = Clicked(touch)
          /\ touch \in Buttons /\ touch' = "none" /\ UNCHANGED parts
          /\ ~flushing
      BY <1>2, ReleaseQueue DEF Release
    <2>2. /\ Clicked(touch) # Up("effect") /\ Up(touch) # Clicked("effect")
          /\ Up(touch) = Up("effect") => touch = "effect"
      BY <2>1, EffectPart, Disjoint
    <2>3. \A i \in Places : queue[i] \notin AppSignals
      BY <2>1, Disjoint DEF OrderInv
    <2>4. touch = "effect" /\ Len(queue) > 0 => queue[Len(queue)] = Down("effect")
      <3> SUFFICES ASSUME touch = "effect", Len(queue) > 0
                   PROVE  queue[Len(queue)] = Down("effect")
        OBVIOUS
      <3>1. 1 \in Places /\ Len(queue) \in Places
        BY <2>1 DEF Places
      <3>2. PICK i \in Places : /\ queue[i] = Down("effect")
                                /\ \A j \in Places : j > i => queue[j] \in AppSignals
        BY <2>3, <3>1 DEF EffectReady
      <3>3. i = Len(queue)
        BY <2>1, <2>3, <3>1, <3>2 DEF Places
      <3> QED BY <3>2, <3>3
    <2>5. ASSUME NEW i \in Places', i > 1, queue'[i] = Up("effect")
          PROVE  queue'[i - 1] = Down("effect")
      <3>1. CASE i \in Places
        <4>1. i - 1 \in Places
          BY <2>1, <2>5, <3>1 DEF Places
        <4> QED BY <2>1, <2>5, <3>1, <4>1 DEF EffectReady
      <3>2. CASE i \notin Places
        <4>1. i = Len(queue) + 1 /\ Len(queue) \in Places
          BY <2>1, <2>2, <2>5, <3>2 DEF Places
        <4>2. queue[Len(queue)] = Down("effect")
          BY <2>1, <2>2, <2>4, <2>5, <4>1 DEF Places
        <4> QED BY <2>1, <4>1, <4>2
      <3> QED BY <3>1, <3>2
    <2>6. /\ queue'[1] = Up("effect") => parts'["effect"] = "pressed"
          /\ queue'[1] = Clicked("effect") => parts'["effect"] = "visible"
      <3>1. CASE Len(queue) > 0
        BY <2>1, <3>1 DEF EffectReady, Places
      <3>2. CASE Len(queue) = 0
        BY <2>1, <2>2, <3>2 DEF EffectReady, Places
      <3> QED BY <2>1, <3>1, <3>2
    <2> QED BY <2>1, <2>5, <2>6 DEF EffectReady
  <1>3. CASE RunPrograms
    <2>1. /\ Len(queue) \in Nat \ {0} /\ queue[1] \in MouseSignals
          /\ \A i \in 1 .. Len(queue) - 1 : queue'[i] = queue[i + 1]
          /\ touch' = touch
          /\ \/ Len(queue') = Len(queue) - 1
             \/ Len(queue') = Len(queue) /\ queue'[Len(queue)] \in AppSignals
      BY <1>3, RunQueue
    <2>2. /\ queue[1] = Down("effect") => parts'["effect"] = "pressed"
          /\ queue[1] = Up("effect") /\ parts["effect"] = "pressed" =>
               parts'["effect"] = "visible"
      BY <1>3, EffectRun
    <2>3. \A i \in Places' :
            \/ i + 1 \in Places /\ queue'[i] = queue[i + 1]
            \/ i = Len(queue) /\ queue'[i] \in AppSignals
      BY <2>1 DEF Places
    <2>4. ASSUME touch' = "effect"
          PROVE  \/ parts'["effect"] = "pressed" /\ \A i \in Places' : queue'[i] \in AppSignals
                 \/ \E i \in Places' :
                      /\ queue'[i] = Down("effect")
                      /\ \A j \in Places' : j > i => queue'[j] \in AppSignals
      <3>1. PICK i \in Places : /\ queue[i] = Down("effect")
                                /\ \A j \in Places : j > i => queue[j] \in AppSignals
        <4>1. queue[1] \notin AppSignals /\ 1 \in Places
          BY <2>1, Disjoint DEF Places
        <4> QED BY <2>1, <2>4, <4>1 DEF EffectReady
      <3>2. \A j \in Places' : j > i - 1 => queue'[j] \in AppSignals
        BY <2>3, <3>1 DEF Places
      <3>3. CASE i = 1
        BY <2>2, <3>1, <3>2, <3>3 DEF Places
      <3>4. CASE i # 1
        <4>1. i - 1 \in Places' /\ queue'[i - 1] = Down("effect")
          BY <2>1, <3>1, <3>4 DEF Places
        <4> QED BY <3>2, <4>1
      <3> QED BY <3>3, <3>4
    <2>5. ASSUME NEW i \in Places', i > 1, queue'[i] = Up("effect")
          PROVE  queue'[i - 1] = Down("effect")
      <3>1. i + 1 \in Places /\ queue[i + 1] = Up("effect")
        BY <2>3, <2>5, EffectPart, Disjoint
      <3>2. queue[i] = Down("effect")
        BY <2>5, <3>1 DEF EffectReady, Places
      <3> QED BY <2>1, <2>5, <3>1, <3>2 DEF Places
    <2>6. ASSUME Len(queue') > 0
          PROVE  /\ queue'[1] = Up("effect") => parts'["effect"] = "pressed"
                 /\ queue'[1] = Clicked("effect") => parts'["effect"] = "visible"
      <3>1. 1 \in Places'
        BY <2>1, <2>6 DEF Places
      <3>2. \/ 2 \in Places /\ queue'[1] = queue[2]
            \/ queue'[1] \in AppSignals
        BY <2>3, <3>1
      <3>3. 2 \in Places /\ queue[2] = Up("effect") => queue[1] = Down("effect")
        BY DEF EffectReady
      <3>4. 2 \in Places /\ queue[2] = Clicked("effect") => queue[1] = Up("effect")
        BY EffectPart DEF OrderInv
      <3>5. queue[1] = Up("effect") => parts["effect"] = "pressed"
        BY <2>1 DEF EffectReady
      <3>6. Up("effect") \notin AppSignals /\ Clicked("effect") \notin AppSignals
        BY EffectPart, Disjoint
      <3> QED BY <2>2, <3>2, <3>3, <3>4, <3>5, <3>6
    <2> QED BY <2>4, <2>5, <2>6 DEF EffectReady
  <1>4. ASSUME NEW signal \in AppSignals, Notify(signal) PROVE EffectReady'
    <2>1. /\ Len(queue) \in Nat \ {0} /\ Len(queue') = Len(queue) - 1
          /\ queue[1] \in AppSignals
          /\ \A i \in 1 .. Len(queue) - 1 : queue'[i] = queue[i + 1]
          /\ UNCHANGED <<parts, touch>>
      BY <1>4, NotifyQueue
    <2>2. \A i \in Places : queue[i] \in AppSignals
      BY <2>1 DEF OrderInv, Places
    <2>3. \A i \in Places' : queue'[i] \in AppSignals
      BY <2>1, <2>2 DEF Places
    <2>4. \A i \in Places : queue[i] # Down("effect")
      BY <2>2, EffectPart, Disjoint
    <2>5. touch' = "effect" => parts'["effect"] = "pressed"
      BY <2>1, <2>4 DEF EffectReady
    <2>6. Up("effect") \notin AppSignals /\ Clicked("effect") \notin AppSignals
      BY EffectPart, Disjoint
    <2>7. Len(queue') > 0 => 1 \in Places'
      BY <2>1 DEF Places
    <2> QED BY <2>3, <2>5, <2>6, <2>7 DEF EffectReady
  <1>5. CASE Close
    <2>1. Len(queue') = 0 /\ touch' = "none"
      BY <1>5 DEF Close
    <2> QED BY <2>1 DEF EffectReady, Places
  <1>6. CASE UNCHANGED layoutVars
    BY <1>6 DEF layoutVars, EffectReady, Places
  <1> QED BY <1>1, <1>2, <1>3, <1>4, <1>5, <1>6 DEF LayoutNext

-------------------------------------------------------------------------------
(* Changes owed and changes on their way.                                  *)

Settled(p) == owed[p] = Cardinality(Pending(p))

(* What is owed waits, except for the motion button while presses pile up; *)
(* the motion button has only the states its programs know.                *)
OwedInv ==
  /\ Settled("effect")
  /\ Settled("shutter_button")
  /\ ~batched => Settled("motion")
  /\ parts["motion"] \in {"default", "visible", "pressed"}

LEMMA WeightFacts ==
  ASSUME NEW p \in Counted
  PROVE  /\ p \in Buttons
         /\ \A b \in Buttons :
              /\ Down(b) \notin Weight(p)
              /\ Up(b) \in Weight(p) <=> b = p /\ p \in {"effect", "motion"}
              /\ Clicked(b) \in Weight(p) <=> b = p /\ p = "shutter_button"
         /\ \A a \in AppSignals : a \in Weight(p) <=> a.part = p
  <1>1. CASE p = "effect"
    BY <1>1 DEF Weight, Buttons, AppSignals, EffectClicked, MotionClicked, StickerClicked,
                ShutterClicked, Down, Up, Clicked, Signal
  <1>2. CASE p = "motion"
    BY <1>2 DEF Weight, Buttons, AppSignals, EffectClicked, MotionClicked, StickerClicked,
                ShutterClicked, Down, Up, Clicked, Signal
  <1>3. CASE p = "shutter_button"
    BY <1>3 DEF Weight, Buttons, AppSignals, EffectClicked, MotionClicked, StickerClicked,
                ShutterClicked, Down, Up, Clicked, Signal
  <1> QED BY <1>1, <1>2, <1>3 DEF Counted

LEMMA OwedPress ==
  ASSUME LayoutTypeOK, NEW b \in Buttons, Press(b), NEW p \in Counted,
         Settled(p) \/ queue = <<>>
  PROVE  Settled(p)'
  <1>1. /\ Len(queue) \in Nat /\ Len(queue') = Len(queue) + 1
        /\ \A i \in Places : queue'[i] = queue[i]
        /\ queue'[Len(queue) + 1] = Down(b)
    BY PressQueue
  <1>2. Down(b) \notin Weight(p) /\ p \in Buttons
    BY WeightFacts
  <1>3. Cardinality(Pending(p)') = Cardinality(Pending(p))
    <2>1. \A i \in Len(queue) + 1 .. Len(queue') : queue'[i] \in Weight(p) <=> i = 0
      BY <1>1, <1>2
    <2>2. Cardinality(Pending(p)') = Cardinality(Pending(p)) + (IF 0 = 0 THEN 0 ELSE 1)
      BY <1>1, <2>1, CountAppend
    <2> QED BY <2>2, PendingFinite
  <1>4. CASE queue = <<>>
    <2>1. Len(queue) = 0 /\ owed'[p] = 0
      BY <1>2, <1>4 DEF Press
    <2>2. Pending(p) = {}
      BY <2>1 DEF Pending, Places
    <2> QED BY <1>3, <2>1, <2>2, FS_EmptySet DEF Settled
  <1>5. CASE queue # <<>>
    BY <1>3, <1>5 DEF Press, Settled
  <1> QED BY <1>4, <1>5

LEMMA OwedRelease ==
  ASSUME LayoutTypeOK, NEW clicked \in BOOLEAN, Release(clicked), NEW p \in Counted,
         Settled(p)
  PROVE  Settled(p)'
  <1> DEFINE n == Len(queue)
             k == IF touch # p THEN 0
                  ELSE IF p = "shutter_button" THEN IF clicked THEN n + 2 ELSE 0
                  ELSE n + 1
  <1>1. /\ touch \in Buttons
        /\ n \in Nat
        /\ Len(queue') = IF clicked THEN n + 2 ELSE n + 1
        /\ \A i \in Places : queue'[i] = queue[i]
        /\ queue'[n + 1] = Up(touch)
        /\ clicked => queue'[n + 2] = Clicked(touch)
    BY ReleaseQueue
  <1>2. /\ p \in Buttons
        /\ Up(touch) \in Weight(p) <=> touch = p /\ p \in {"effect", "motion"}
        /\ Clicked(touch) \in Weight(p) <=> touch = p /\ p = "shutter_button"
    BY <1>1, WeightFacts
  <1>3. owed'[p] = owed[p] + (IF k = 0 THEN 0 ELSE 1) /\ owed[p] \in Int
    <2>1. owed \in [Buttons -> Int]
      BY DEF LayoutTypeOK
    <2>2. owed'[p] = IF touch = p THEN owed[p] + Due(p, clicked) ELSE owed[p]
      BY <1>1, <1>2, <2>1 DEF Release
    <2>3. touch = p => Due(p, clicked) = IF k = 0 THEN 0 ELSE 1
      BY <1>1 DEF Due, Counted
    <2> QED BY <1>2, <2>1, <2>2, <2>3
  <1>4. \A i \in n + 1 .. Len(queue') : queue'[i] \in Weight(p) <=> i = k
    BY <1>1, <1>2 DEF Counted
  <1>5. k \in n + 1 .. Len(queue') \/ k = 0
    BY <1>1
  <1>6. Len(queue') \in Nat /\ n <= Len(queue')
    BY <1>1
  <1> HIDE DEF k
  <1>7. Cardinality(Pending(p)') = Cardinality(Pending(p)) + (IF k = 0 THEN 0 ELSE 1)
    BY <1>1, <1>4, <1>5, <1>6, CountAppend
  <1> QED BY <1>3, <1>7 DEF Settled

(* A run settles if the signal it takes and the one it emits count alike.  *)
LEMMA OwedRun ==
  ASSUME LayoutTypeOK, RunPrograms, NEW p \in Counted, Settled(p),
         queue[1] \in Weight(p)
           <=> Len(queue') = Len(queue) /\ queue'[Len(queue)] \in Weight(p)
  PROVE  Settled(p)'
  <1>1. /\ Len(queue) \in Nat \ {0}
        /\ \A i \in 1 .. Len(queue) - 1 : queue'[i] = queue[i + 1]
        /\ Len(queue') = Len(queue) - 1 \/ Len(queue') = Len(queue)
        /\ owed' = owed
    BY RunQueue
  <1>2. Cardinality(Pending(p)) \in Nat
    BY PendingFinite
  <1>3. Cardinality(Pending(p)')
          = Cardinality(Pending(p)) - (IF queue[1] \in Weight(p) THEN 1 ELSE 0)
              + (IF Len(queue') = Len(queue) /\ queue'[Len(queue)] \in Weight(p)
                 THEN 1 ELSE 0)
    BY <1>1, CountShift
  <1>4. Cardinality(Pending(p)') = Cardinality(Pending(p))
    BY <1>2, <1>3
  <1> QED BY <1>1, <1>4 DEF Settled

LEMMA OwedNotify ==
  ASSUME LayoutTypeOK, NEW signal \in AppSignals, Notify(signal), NEW p \in Counted,
         Settled(p)
  PROVE  Settled(p)'
  <1>1. /\ Len(queue) \in Nat \ {0} /\ Len(queue') = Len(queue) - 1
        /\ queue[1] = signal
        /\ \A i \in 1 .. Len(queue) - 1 : queue'[i] = queue[i + 1]
    BY NotifyQueue
  <1>2. p \in Buttons /\ (signal \in Weight(p) <=> signal.part = p)
    BY WeightFacts
  <1>3. Cardinality(Pending(p)) \in Nat
    BY PendingFinite
  <1>4. Cardinality(Pending(p)')
          = Cardinality(Pending(p)) - (IF queue[1] \in Weight(p) THEN 1 ELSE 0)
              + (IF Len(queue') = Len(queue) /\ queue'[Len(queue)] \in Weight(p)
                 THEN 1 ELSE 0)
    BY <1>1, CountShift
  <1>5. Cardinality(Pending(p)') = Cardinality(Pending(p)) - (IF signal.part = p THEN 1 ELSE 0)
    BY <1>1, <1>2, <1>3, <1>4
  <1>6. owed'[p] = owed[p] - (IF signal.part = p THEN 1 ELSE 0)
    <2>1. owed \in [Buttons -> Int] /\ p # "face"
      BY DEF LayoutTypeOK, Counted
    <2> QED BY <1>2, <2>1 DEF Notify
  <1> QED BY <1>3, <1>5, <1>6 DEF Settled

LEMMA OwedClose == ASSUME Close, NEW p \in Counted PROVE Settled(p)'
  <1>1. Len(queue') = 0 /\ owed'[p] = 0
    BY WeightFacts DEF Close
  <1>2. Pending(p)' = {}
    BY <1>1 DEF Pending, Places
  <1> QED BY <1>1, <1>2, FS_EmptySet DEF Settled

(* What a run takes and emits count alike.                                 *)
Balanced(p) ==
  queue[1] \in Weight(p)
    <=> Len(queue') = Len(queue) /\ queue'[Len(queue)] \in Weight(p)

LEMMA OtherBalanced ==
  ASSUME LayoutTypeOK, RunPrograms, NEW p \in Counted, queue[1].part # p
  PROVE  Balanced(p)
  <1> DEFINE h == queue[1]
  <1>1. h \in MouseSignals /\ h.part \in Buttons /\ Len(queue) \in Nat \ {0}
    BY RunQueue
  <1>2. h \notin Weight(p)
    BY <1>1, Disjoint, WeightFacts
  <1>3. CASE Len(queue') = Len(queue) - 1
    BY <1>1, <1>2, <1>3 DEF Balanced
  <1>4. CASE Len(queue') # Len(queue) - 1
    <2>1. PICK a \in AppSignals : a.part = h.part /\ queue'[Len(queue)] = a
      BY <1>4, RunQueue
    <2>2. a \notin Weight(p)
      BY <2>1, WeightFacts
    <2> QED BY <1>2, <2>1, <2>2 DEF Balanced
  <1> QED BY <1>3, <1>4

LEMMA EffectBalanced ==
  ASSUME LayoutTypeOK, EffectReady, RunPrograms, queue[1].part = "effect"
  PROVE  Balanced("effect")
  <1>1. /\ queue[1] \in {Down("effect"), Up("effect"), Clicked("effect")}
        /\ Len(queue) \in Nat \ {0}
    BY RunQueue, Disjoint
  <1>2. /\ queue[1] = Up("effect") => parts["effect"] = "pressed"
        /\ queue[1] = Clicked("effect") => parts["effect"] = "visible"
    BY <1>1 DEF EffectReady
  <1>3. /\ queue[1] = Up("effect") => /\ Len(queue') = Len(queue)
                                      /\ queue'[Len(queue)] = EffectClicked
        /\ queue[1] # Up("effect") => Len(queue') = Len(queue) - 1
    BY <1>1, <1>2, EffectRun
  <1>4. /\ Up("effect") \in Weight("effect") /\ EffectClicked \in Weight("effect")
        /\ Down("effect") \notin Weight("effect") /\ Clicked("effect") \notin Weight("effect")
    BY EffectPart, WeightFacts DEF Counted, Weight
  <1> QED BY <1>1, <1>3, <1>4 DEF Balanced

LEMMA ShutterBalanced ==
  ASSUME LayoutTypeOK, RunPrograms, queue[1].part = "shutter_button"
  PROVE  Balanced("shutter_button")
  <1> DEFINE h == queue[1]
             s == "shutter_button"
  <1>0. s \in Buttons /\ s \in Counted
    BY DEF Buttons, Counted
  <1>1. /\ h \in {Down(s), Up(s), Clicked(s)}
        /\ h.kind \in {"down", "up", "clicked"} /\ Len(queue) \in Nat \ {0}
        /\ h.kind = "clicked" <=> h = Clicked(s)
    BY <1>0, RunQueue, Disjoint
  <1>2. \A g \in ShutterPrograms :
          /\ g.when = PartState
          /\ g.on # "clicked" => g.emits = <<>>
          /\ g.on = "clicked" => g.emits = <<ShutterClicked>>
    BY DEF ShutterPrograms, Program
  <1>3. \A k \in {"down", "up", "clicked"} : \E g \in ShutterPrograms : g.on = k
    BY DEF ShutterPrograms, Program
  <1>4. parts[s] \in PartState
    BY <1>0 DEF LayoutTypeOK
  <1>5. Matching(h) = {g \in ShutterPrograms : g.on = h.kind /\ parts[s] \in g.when}
    BY DEF Matching, Programs
  <1>6. PICK g \in Matching(h) :
           \/ g.emits = <<>> /\ Len(queue') = Len(queue) - 1
           \/ /\ \E a \in AppSignals : g.emits = <<a>>
              /\ Len(queue') = Len(queue)
              /\ queue'[Len(queue)] = g.emits[1]
    <2>1. Matching(h) # {}
      BY <1>1, <1>2, <1>3, <1>4, <1>5
    <2> QED BY <2>1, RunQueue
  <1>7. g \in ShutterPrograms /\ g.on = h.kind
    BY <1>5
  <1>8. CASE h.kind = "clicked"
    <2>1. g.emits = <<ShutterClicked>>
      BY <1>2, <1>7, <1>8
    <2>2. g.emits # <<>> /\ g.emits[1] = ShutterClicked
      BY <2>1
    <2>3. h \in Weight(s) /\ ShutterClicked \in Weight(s)
      BY <1>1, <1>8 DEF Weight
    <2> QED BY <1>6, <2>2, <2>3 DEF Balanced
  <1>9. CASE h.kind # "clicked"
    <2>1. g.emits = <<>> /\ ~\E a \in AppSignals : g.emits = <<a>>
      BY <1>2, <1>7, <1>9
    <2>2. h \notin Weight(s)
      BY <1>0, <1>1, <1>9, WeightFacts
    <2> QED BY <1>1, <1>6, <2>1, <2>2 DEF Balanced
  <1> QED BY <1>8, <1>9

(* The motion button is shown when its signals are handled.                *)
LEMMA MotionBalanced ==
  ASSUME LayoutTypeOK, MenuInv, ~batched, RunPrograms, queue[1].part = "motion",
         parts["motion"] \in {"default", "visible", "pressed"}
  PROVE  Balanced("motion")
  <1> DEFINE h == queue[1]
             m == "motion"
  <1>0. m \in Buttons /\ m \in Counted /\ m \in Menu
    BY DEF Buttons, Counted, Menu
  <1>1. /\ h \in {Down(m), Up(m), Clicked(m)} /\ Len(queue) \in Nat \ {0}
        /\ h.kind = "up" <=> h = Up(m)
    BY <1>0, RunQueue, Disjoint
  <1>2. parts[m] \in {"visible", "pressed"}
    BY <1>0, <1>1 DEF MenuInv, MenuWhole, Shown
  <1>3. \A g \in MotionPrograms : g.on = "up" /\ g.emits = <<MotionClicked>>
    BY DEF MotionPrograms, Program
  <1>4. \A v \in {"visible", "pressed"} : \E g \in MotionPrograms : v \in g.when
    BY DEF MotionPrograms, Program
  <1>5. Matching(h) = {g \in MotionPrograms : g.on = h.kind /\ parts[m] \in g.when}
    BY DEF Matching, Programs
  <1>6. CASE h = Up(m)
    <2>1. Matching(h) # {}
      BY <1>1, <1>2, <1>3, <1>4, <1>5, <1>6
    <2>2. PICK g \in Matching(h) :
             \/ g.emits = <<>>
             \/ Len(queue') = Len(queue) /\ queue'[Len(queue)] = g.emits[1]
      BY <2>1, RunQueue
    <2>3. g.emits = <<MotionClicked>>
      BY <1>3, <1>5
    <2>4. g.emits # <<>> /\ g.emits[1] = MotionClicked
      BY <2>3
    <2>5. h \in Weight(m) /\ MotionClicked \in Weight(m)
      BY <1>6 DEF Weight
    <2> QED BY <2>2, <2>4, <2>5 DEF Balanced
  <1>7. CASE h # Up(m)
    <2>1. Matching(h) = {}
      BY <1>1, <1>3, <1>5, <1>7
    <2>2. Len(queue') = Len(queue) - 1
      BY <2>1, RunQueue
    <2>3. h \notin Weight(m)
      BY <1>0, <1>1, <1>7, WeightFacts
    <2> QED BY <1>1, <2>2, <2>3 DEF Balanced
  <1> QED BY <1>6, <1>7

LEMMA MotionStates ==
  ASSUME LayoutTypeOK, RunPrograms, parts["motion"] \in {"default", "visible", "pressed"}
  PROVE  parts'["motion"] \in {"default", "visible", "pressed"}
  <1> DEFINE h == queue[1]
  <1>0. h.part \in Buttons /\ "motion" \in Buttons
    BY RunQueue DEF Buttons
  <1>1. CASE UNCHANGED parts
    BY <1>1
  <1>2. ASSUME NEW g \in Matching(h),
               parts' = [p \in Buttons |-> IF p \in DOMAIN g.sets
                                          THEN g.sets[p] ELSE parts[p]]
        PROVE  parts'["motion"] \in {"default", "visible", "pressed"}
    <2>1. g \in Programs(h.part)
      BY DEF Matching
    <2>2. CASE h.part = "btn_mode"
      BY <1>0, <1>2, <2>1, <2>2, ProgramFacts DEF Menu
    <2>3. CASE h.part # "btn_mode"
      <3>1. DOMAIN g.sets = {h.part} /\ g.sets[h.part] \in {"default", "visible", "pressed"}
        BY <1>0, <2>1, <2>3, ProgramFacts
      <3> QED BY <1>0, <1>2, <3>1
    <2> QED BY <2>2, <2>3
  <1> QED BY <1>1, <1>2, RunQueue

LEMMA OwedInit == LayoutInit => OwedInv
  <1> SUFFICES ASSUME LayoutInit PROVE OwedInv
    OBVIOUS
  <1>1. Len(queue) = 0
    BY DEF LayoutInit
  <1>2. \A p \in Counted : Pending(p) = {}
    BY <1>1 DEF Pending, Places
  <1>3. \A p \in Counted : owed[p] = 0 /\ parts["motion"] = "default"
    BY WeightFacts DEF LayoutInit, Buttons
  <1> QED BY <1>2, <1>3, FS_EmptySet DEF OwedInv, Settled, Counted

LEMMA OwedNext ==
  ASSUME LayoutTypeOK, MenuInv, EffectReady, OwedInv, [LayoutNext]_layoutVars
  PROVE  OwedInv'
  <1> USE DEF Counted
  <1>1. ASSUME NEW b \in Buttons, Press(b) PROVE OwedInv'
    <2>1. Settled("effect")' /\ Settled("shutter_button")'
      BY <1>1, OwedPress DEF OwedInv
    <2>2. ~batched' => Settled("motion")'
      <3>1. ~batched' => queue = <<>>
        BY <1>1 DEF Press
      <3> QED BY <1>1, <3>1, OwedPress
    <2> QED BY <1>1, <2>1, <2>2 DEF Press, OwedInv
  <1>2. ASSUME NEW clicked \in BOOLEAN, Release(clicked) PROVE OwedInv'
    <2>1. UNCHANGED <<parts, batched>>
      BY <1>2 DEF Release
    <2> QED BY <1>2, <2>1, OwedRelease DEF OwedInv
  <1>3. CASE RunPrograms
    <2>1. Balanced("effect")
      BY <1>3, EffectBalanced, OtherBalanced
    <2>2. Balanced("shutter_button")
      BY <1>3, ShutterBalanced, OtherBalanced
    <2>3. ~batched => Balanced("motion")
      BY <1>3, MotionBalanced, OtherBalanced DEF OwedInv
    <2>4. batched' = batched
      BY <1>3, RunQueue
    <2>5. parts'["motion"] \in {"default", "visible", "pressed"}
      BY <1>3, MotionStates DEF OwedInv
    <2> QED BY <1>3, <2>1, <2>2, <2>3, <2>4, <2>5, OwedRun DEF OwedInv, Balanced
  <1>4. ASSUME NEW signal \in AppSignals, Notify(signal) PROVE OwedInv'
    <2>1. UNCHANGED <<parts, batched>>
      BY <1>4, NotifyQueue
    <2> QED BY <1>4, <2>1, OwedNotify DEF OwedInv
  <1>5. CASE Close
    <2>1. parts'["motion"] = "default"
      BY <1>5 DEF Close, Buttons
    <2> QED BY <1>5, <2>1, OwedClose DEF OwedInv
  <1>6. CASE UNCHANGED layoutVars
    <2>1. \A p \in Counted : Pending(p)' = Pending(p)
      BY <1>6 DEF layoutVars, Pending, Places, Weight
    <2> QED BY <1>6, <2>1 DEF layoutVars, OwedInv, Settled
  <1> QED BY <1>1, <1>2, <1>3, <1>4, <1>5, <1>6 DEF LayoutNext

(* Exactly one change per touch of the effect button and per click of the  *)
(* shutter although several programs answer to them, for any number of     *)
(* touches that pile up; for the motion button, if none came while the     *)
(* closing of the menu waited.                                             *)
THEOREM TouchesSettle == AppSpec => []OneChangePerTouch
  <1> DEFINE All == LayoutTypeOK /\ MenuInv /\ OrderInv /\ EffectReady /\ OwedInv
  <1>1. AppInit => All
    BY LayoutTypeInit, MenuInit, OrderInit, EffectInit, OwedInit DEF AppInit
  <1>2. All /\ [AppNext]_appVars => All'
    BY LayoutStep, LayoutTypeNext, MenuNext, OrderNext, EffectNext, OwedNext
  <1>3. All => OneChangePerTouch
    <2> SUFFICES ASSUME All, Quiet PROVE OneChangePerTouch
      BY DEF OneChangePerTouch
    <2>1. Len(queue) = 0
      BY DEF Quiet
    <2>2. \A p \in Counted : Pending(p) = {}
      BY <2>1 DEF Pending, Places
    <2> QED BY <2>2, FS_EmptySet DEF OwedInv, Settled, Counted, OneChangePerTouch
  <1> QED BY <1>1, <1>2, <1>3, PTL DEF AppSpec

===============================================================================
