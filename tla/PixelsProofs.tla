----------------------------- MODULE PixelsProofs -----------------------------
(***************************************************************************)
(* Theorems about Pixels, for every even size of frame and sticker and     *)
(* every landmark.                                                         *)
(***************************************************************************)
EXTENDS Pixels, TLAPS

-------------------------------------------------------------------------------
(* Arithmetic.                                                             *)

LEMMA DivMod ==
  ASSUME NEW n \in Int, NEW d \in Nat \ {0}
  PROVE  /\ n \div d \in Int /\ n % d \in 0 .. d - 1
         /\ n = (n \div d) * d + (n % d)
         /\ n >= 0 => n \div d >= 0
  OBVIOUS

LEMMA DivBelow ==
  ASSUME NEW n \in Nat, NEW d \in Nat \ {0}, NEW h \in Nat, n < d * h
  PROVE  n \div d \in 0 .. h - 1
  <1>1. n = (n \div d) * d + (n % d) /\ n % d >= 0 /\ n \div d \in Int /\ n \div d >= 0
    BY DivMod
  <1>2. CASE n \div d >= h
    <2>1. (n \div d) * d >= h * d
      BY <1>1, <1>2
    <2>. QED  BY <1>1, <2>1
  <1>. QED  BY <1>1, <1>2

(* A place in a plane of width m has one row and one column.               *)
Place(m, a, r) == a + r * m

LEMMA PlaceUnique ==
  ASSUME NEW m \in Nat \ {0}, NEW a \in 0 .. m - 1, NEW b \in 0 .. m - 1,
         NEW r \in Int, NEW s \in Int, Place(m, a, r) = Place(m, b, s)
  PROVE  a = b /\ r = s
  BY DEF Place

LEMMA PlaceInPlane ==
  ASSUME NEW m \in Nat \ {0}, NEW h \in Nat, NEW a \in 0 .. m - 1, NEW r \in 0 .. h - 1
  PROVE  a + r * m \in 0 .. m * h - 1
  OBVIOUS

LEMMA PlaceBelow ==
  ASSUME NEW m \in Nat \ {0}, NEW h \in Nat, NEW a \in 0 .. m - 1, NEW r \in Nat,
         a + r * m < m * h
  PROVE  r \in 0 .. h - 1
  <1>1. CASE r >= h
    <2>1. r * m >= h * m
      BY <1>1
    <2>. QED  BY <2>1
  <1>. QED  BY <1>1

(* Half of a plane of even width and height.                               *)
LEMMA EvenPlane ==
  ASSUME NEW w \in Nat, NEW h \in Nat, w % 2 = 0, h % 2 = 0
  PROVE  \E a \in Nat, b \in Nat :
           /\ w = 2 * a /\ h = 2 * b
           /\ a * b \in Nat
           /\ w * h = 4 * (a * b)
           /\ (w * h) \div 2 = 2 * (a * b)
  <1>1. PICK a \in Nat : w = 2 * a
    BY w \div 2 \in Nat, w = 2 * (w \div 2)
  <1>2. PICK b \in Nat : h = 2 * b
    BY h \div 2 \in Nat, h = 2 * (h \div 2)
  <1>3. a * b \in Nat /\ w * h = 4 * (a * b)
    BY <1>1, <1>2
  <1>4. (4 * (a * b)) \div 2 = 2 * (a * b)
    BY <1>3
  <1>. QED  BY <1>1, <1>2, <1>3, <1>4

(* The chroma pair of a place.                                             *)
LEMMA PairOf ==
  ASSUME NEW a \in Nat, NEW x \in Int, NEW r \in Int
  PROVE  /\ (x \div 2 + ((r \div 2) * (2 * a)) \div 2) * 2
              = (x \div 2 + (r \div 2) * a) * 2
         /\ x \div 2 \in Int /\ (r \div 2) * a \in Int
  <1>1. x \div 2 \in Int /\ r \div 2 \in Int
    OBVIOUS
  <1>2. (r \div 2) * a \in Int /\ (r \div 2) * (2 * a) = 2 * ((r \div 2) * a)
    BY <1>1
  <1>3. ASSUME NEW c \in Int PROVE (2 * c) \div 2 = c
    OBVIOUS
  <1>. QED  BY <1>1, <1>2, <1>3

-------------------------------------------------------------------------------
(* One round of the copy loop.                                             *)

LEMMA Sizes ==
  /\ YSize \in Nat /\ YSize >= 4 /\ UVSize \in Nat /\ UVSize >= 2 /\ UVSize % 2 = 0
  /\ StickerYSize \in Nat /\ StickerYSize >= 4
  /\ StickerSize \in Nat /\ StickerSize >= StickerYSize + 2
  /\ StickerSize % 2 = 0 /\ StickerYSize % 2 = 0
  <1>0. Width \in Nat /\ Width % 2 = 0 /\ Height \in Nat /\ Height % 2 = 0
    BY PixelsAssumption
  <1>1. PICK w \in Nat, h \in Nat :
          /\ Width = 2 * w /\ Height = 2 * h
          /\ w * h \in Nat
          /\ Width * Height = 4 * (w * h)
          /\ (Width * Height) \div 2 = 2 * (w * h)
    BY <1>0, EvenPlane, Zenon
  <1>2. PICK a \in Nat, b \in Nat :
          /\ Side = 2 * a /\ Side = 2 * b /\ a * b \in Nat
          /\ Side * Side = 4 * (a * b) /\ (Side * Side) \div 2 = 2 * (a * b)
    BY EvenPlane, PixelsAssumption
  <1>3. w * h >= 1
    BY <1>1, PixelsAssumption
  <1>4. a * b >= 1
    BY <1>2, PixelsAssumption
  <1>. QED
    BY <1>1, <1>2, <1>3, <1>4 DEF YSize, UVSize, StickerYSize, StickerSize

(* Round n treats the n-th pixel of the sticker.                           *)
LEMMA RoundPixel ==
  ASSUME NEW n \in Nat, n < StickerYSize
  PROVE  /\ I(n) \in 0 .. Side - 1 /\ J(n) \in 0 .. Side - 1
         /\ I(n) + J(n) * Side = n
         /\ StickerY(n) = n
  <1>1. J(n) \in 0 .. Side - 1
    BY DivBelow, PixelsAssumption DEF J, StickerYSize
  <1>2. /\ n = (n \div Side) * Side + (n % Side)
        /\ n % Side \in 0 .. Side - 1
    BY DivMod, PixelsAssumption
  <1>. QED  BY <1>1, <1>2, PixelsAssumption DEF I, J, StickerY

(* It reads a chroma pair of the sticker's data.                           *)
LEMMA RoundData ==
  ASSUME NEW n \in Nat, n < StickerYSize
  PROVE  /\ StickerUV(n) \in StickerYSize .. StickerSize - 2
         /\ StickerUV(n) + 1 \in StickerYSize .. StickerSize - 1
  <1>1. PICK a \in Nat, b \in Nat :
          /\ Side = 2 * a /\ Side = 2 * b /\ a * b \in Nat
          /\ Side * Side = 4 * (a * b) /\ (Side * Side) \div 2 = 2 * (a * b)
    BY EvenPlane, PixelsAssumption
  <1>2. a = b /\ a \in Nat \ {0}
    BY <1>1, PixelsAssumption
  <1>3. I(n) \div 2 \in 0 .. a - 1 /\ J(n) \div 2 \in 0 .. a - 1
    BY <1>1, RoundPixel
  <1>4. I(n) \div 2 + (J(n) \div 2) * a \in 0 .. a * a - 1
    BY <1>2, <1>3, PlaceInPlane
  <1>5. StickerUV(n) = (I(n) \div 2 + (J(n) \div 2) * a) * 2 + StickerYSize
    <2>1. I(n) \in Int /\ J(n) \in Int
      BY RoundPixel
    <2>. QED  BY <1>1, <2>1, PairOf DEF StickerUV
  <1>6. StickerSize = StickerYSize + 2 * (a * a)
    BY <1>1, <1>2 DEF StickerSize, StickerYSize
  <1>7. a * a \in Nat /\ StickerYSize \in Nat
    BY <1>1, <1>2, Sizes
  <1>. HIDE DEF StickerSize, StickerYSize
  <1>. QED  BY <1>4, <1>5, <1>6, <1>7

(* The corner of the sticker is even, wherever the landmark lies.          *)
LEMMA Corner ==
  ASSUME part \in Int \X Int
  PROVE  /\ P \in Int /\ P % 2 = 0
         /\ Q \in Int /\ Q % 2 = 0
  <1>1. ASSUME NEW n \in Int PROVE ToEven(n) \in Int /\ ToEven(n) % 2 = 0
    BY DEF ToEven
  <1>2. /\ part[2] - Side \div 2 \in Int
        /\ Height - part[1] - Side \div 2 \in Int
    BY PixelsAssumption
  <1>. QED  BY <1>1, <1>2 DEF P, Q

(* A round that writes does so inside both planes.                         *)
LEMMA RoundInPlanes ==
  ASSUME part \in Int \X Int, NEW n \in Nat, n < StickerYSize, Painted(n)
  PROVE  /\ X(n) \in Nat /\ Row(n) \in Nat
         /\ FrameY(n) = X(n) + Row(n) * Width
         /\ FrameY(n) \in 0 .. YSize - 1
         /\ FrameUV(n) \in 0 .. UVSize - 2 /\ FrameUV(n) % 2 = 0
  <1>1. X(n) \in Nat /\ Row(n) \in Nat
    BY Corner, RoundPixel DEF Painted, Skipped, X, Row
  <1>2. FrameY(n) = X(n) + Row(n) * Width /\ FrameY(n) \in Nat
    BY <1>1, PixelsAssumption DEF FrameY
  <1>3. PICK w \in Nat : Width = 2 * w
    BY EvenPlane, PixelsAssumption
  <1>4. FrameUV(n) = (X(n) \div 2 + (Row(n) \div 2) * w) * 2
    BY <1>1, <1>3, PairOf DEF FrameUV
  <1>5. X(n) \div 2 \in Nat /\ (Row(n) \div 2) * w \in Nat
    BY <1>1, <1>3
  <1>. DEFINE c == X(n) \div 2 + (Row(n) \div 2) * w
  <1>6. c \in Nat /\ FrameUV(n) = c * 2
    BY <1>4, <1>5
  <1>7. FrameY(n) < YSize /\ FrameUV(n) < UVSize
    BY DEF Painted, FitsPlanes
  <1>. HIDE DEF c
  <1>8. FrameUV(n) \in Nat /\ FrameUV(n) % 2 = 0
    BY <1>6
  <1>. QED  BY <1>1, <1>2, <1>7, <1>8, Sizes

-------------------------------------------------------------------------------

(* PixelsTypeOK, the history included.                                     *)
TypeInv ==
  /\ PixelsTypeOK
  /\ last \in [y : Int, uv : Int, data : Int]

LEMMA InitTypes == Init => TypeInv
  <1>. SUFFICES ASSUME Init PROVE TypeInv
    OBVIOUS
  <1>1. part \in Int \X Int
    BY PixelsAssumption DEF Init
  <1>2. paint \in [0 .. StickerYSize - 1 -> Brightness]
    BY DEF Init, Paints, Brightness
  <1>3. last \in [y : Int, uv : Int, data : Int]
    BY Sizes DEF Init
  <1>. QED  BY <1>1, <1>2, <1>3 DEF Init, TypeInv, PixelsTypeOK

LEMMA NextTypes == TypeInv /\ [Next]_vars => TypeInv'
  <1>. SUFFICES ASSUME TypeInv, [Next]_vars PROVE TypeInv'
    OBVIOUS
  <1>. USE DEF TypeInv, PixelsTypeOK
  <1>1. CASE CopyPixel
    <2>1. k \in Nat /\ k < StickerYSize /\ Painted(k)
      BY <1>1 DEF CopyPixel, Copying
    <2>2. StickerY(k) \in 0 .. StickerYSize - 1
      <3>1. StickerY(k) = k
        BY <2>1, RoundPixel
      <3>. QED  BY <2>1, <3>1, Sizes
    <2>3. /\ StickerUV(k) \in StickerYSize .. StickerSize - 1
          /\ StickerUV(k) + 1 \in StickerYSize .. StickerSize - 1
          /\ StickerUV(k) \in Int
      <3>1. /\ StickerUV(k) \in StickerYSize .. StickerSize - 2
            /\ StickerUV(k) + 1 \in StickerYSize .. StickerSize - 1
        BY <2>1, RoundData, Zenon
      <3>. HIDE DEF TypeInv, PixelsTypeOK
      <3>. QED  BY <3>1, Sizes
    <2>4. FrameY(k) \in Int /\ FrameUV(k) \in Int
      BY <2>1, RoundInPlanes, Sizes
    <2>5. luma' \in [0 .. YSize -> {Frame, Dot} \cup 0 .. StickerYSize - 1]
      BY <1>1, <2>2 DEF CopyPixel
    <2>6. chroma' \in [0 .. UVSize - 1 -> {Frame} \cup StickerYSize .. StickerSize - 1]
      BY <1>1, <2>3 DEF CopyPixel
    <2>7. last' \in [y : Int, uv : Int, data : Int]
      BY <1>1, <2>3, <2>4 DEF CopyPixel
    <2>8. k' \in Nat /\ UNCHANGED <<drawing, part, paint, captured>>
      BY <1>1 DEF CopyPixel
    <2>. QED  BY <2>5, <2>6, <2>7, <2>8 DEF Brightness
  <1>2. CASE SkipPixel
    BY <1>2 DEF SkipPixel, Brightness
  <1>3. CASE DrawDot
    <2>1. DotIndex(k) \in Int
      BY PixelsAssumption DEF DotIndex
    <2>2. luma' \in [0 .. YSize -> {Frame, Dot} \cup 0 .. StickerYSize - 1]
      BY <1>3 DEF DrawDot
    <2>3. last' \in [y : Int, uv : Int, data : Int]
      BY <1>3, <2>1 DEF DrawDot
    <2>4. k' \in Nat /\ UNCHANGED <<drawing, part, paint, chroma, captured>>
      BY <1>3 DEF DrawDot
    <2>. QED  BY <2>2, <2>3, <2>4 DEF Brightness
  <1>4. CASE SkipDot
    BY <1>4 DEF SkipDot, Brightness
  <1>5. CASE Capture
    <2>1. chroma' \in [0 .. UVSize - 1 -> {Frame} \cup StickerYSize .. StickerSize - 1]
      <3>1. chroma' = [n \in 0 .. UVSize - 1 |->
                         IF n % 2 = 0 THEN chroma[n + 1] ELSE chroma[n - 1]]
        BY <1>5 DEF Capture, Swapped
      <3>2. ASSUME NEW n \in 0 .. UVSize - 1
            PROVE  /\ n % 2 = 0 => n + 1 \in 0 .. UVSize - 1
                   /\ n % 2 # 0 => n - 1 \in 0 .. UVSize - 1
        <4>1. UVSize \in Nat /\ UVSize % 2 = 0
          BY Sizes
        <4>. HIDE DEF TypeInv, PixelsTypeOK
        <4>. QED  BY <4>1
      <3>. QED  BY <3>1, <3>2
    <2>2. captured' \in BOOLEAN /\ UNCHANGED <<drawing, part, paint, k, luma, last>>
      BY <1>5 DEF Capture
    <2>. QED  BY <2>1, <2>2 DEF Brightness
  <1>6. CASE UNCHANGED vars
    BY <1>6 DEF vars, Brightness
  <1>. QED  BY <1>1, <1>2, <1>3, <1>4, <1>5, <1>6 DEF Next

LEMMA TypeInvariant == Spec => []TypeInv
  BY InitTypes, NextTypes, PTL DEF Spec

(* Every byte of a frame comes from the frame, a dot or the part of the    *)
(* sticker's data that belongs to its plane: imageutils.cpp, landmark.cpp  *)
(* and the swap of a capture.                                              *)
THEOREM PixelTypesCorrect == Spec => []PixelsTypeOK
  <1>1. TypeInv => PixelsTypeOK
    BY DEF TypeInv
  <1>. QED  BY <1>1, TypeInvariant, PTL

-------------------------------------------------------------------------------

LEMMA CopyStep ==
  TypeInv /\ CopyInPlanes /\ [Next]_vars => CopyInPlanes'
  <1>. SUFFICES ASSUME TypeInv, CopyInPlanes, [Next]_vars, drawing' # "dot"
                PROVE  /\ last'.y \in 0 .. YSize - 1
                       /\ last'.uv \in 0 .. UVSize - 2 /\ last'.uv % 2 = 0
                       /\ last'.data \in StickerYSize .. StickerSize - 2
    BY DEF CopyInPlanes
  <1>. USE DEF TypeInv, PixelsTypeOK
  <1>1. CASE CopyPixel
    <2>1. k \in Nat /\ k < StickerYSize /\ Painted(k)
      BY <1>1 DEF CopyPixel, Copying
    <2>2. last' = [y |-> FrameY(k), uv |-> FrameUV(k), data |-> StickerUV(k)]
      BY <1>1 DEF CopyPixel
    <2>3. /\ FrameY(k) \in 0 .. YSize - 1
          /\ FrameUV(k) \in 0 .. UVSize - 2 /\ FrameUV(k) % 2 = 0
      BY <2>1, RoundInPlanes, Zenon
    <2>4. StickerUV(k) \in StickerYSize .. StickerSize - 2
      BY <2>1, RoundData, Zenon
    <2>. QED  BY <2>2, <2>3, <2>4
  <1>2. CASE UNCHANGED <<drawing, last>>
    BY <1>2 DEF CopyInPlanes
  <1>3. CASE DrawDot
    BY <1>3 DEF DrawDot, Dotting
  <1>. QED
    BY <1>1, <1>2, <1>3 DEF Next, vars, SkipPixel, SkipDot, Capture

(* The copy of a sticker stays inside both planes and inside the           *)
(* sticker's data, for every size and wherever the landmark lies: the test *)
(* of two indices at the end of the loops of imageutils.cpp suffices       *)
(* because every size is even.                                             *)
THEOREM CopySafe == Spec => []CopyInPlanes
  <1>1. Init => CopyInPlanes
    BY Sizes DEF Init, CopyInPlanes
  <1>. QED  BY <1>1, CopyStep, TypeInvariant, PTL DEF Spec

-------------------------------------------------------------------------------

(* The place in a plane of width m and height h of an index one past it,   *)
(* counted from a column near the plane.                                   *)
LEMMA PastPlane ==
  ASSUME NEW m \in Nat, m >= 4, NEW h \in Int, NEW c \in -2 .. m + 1, NEW r \in Int,
         c + r * m = m * h
  PROVE  (c = 0 /\ r = h) \/ (c = m /\ r = h - 1)
  <1>. DEFINE z == h - r
  <1>1. z \in Int /\ c = z * m
    OBVIOUS
  <1>. HIDE DEF z
  <1>2. CASE z >= 2
    <2>1. z * m >= 2 * m
      BY <1>1, <1>2
    <2>. QED  BY <1>1, <2>1
  <1>3. CASE z <= -1
    <2>1. z * m <= -m
      BY <1>1, <1>3
    <2>. QED  BY <1>1, <2>1
  <1>4. CASE z \in {0, 1}
    BY <1>1, <1>4 DEF z
  <1>. QED  BY <1>1, <1>2, <1>3, <1>4

LEMMA DotPastPlane ==
  ASSUME NEW m \in Nat, m >= 4, NEW h \in Int, NEW y \in Int, NEW x \in 0 .. m - 1,
         NEW a \in 0 .. 3, NEW b \in 0 .. 3,
         (x - 2) + (h - y - 2) * m + a + b * m = m * h
  PROVE  y \in -2 .. 2 /\ x \in {0, 1, 2, m - 1}
  <1>. DEFINE c == x - 2 + a
              r == h - y - 2 + b
  <1>1. c \in -2 .. m + 1 /\ r \in Int
    OBVIOUS
  <1>2. (h - y - 2) * m + b * m = r * m
    OBVIOUS
  <1>3. c + r * m = m * h
    BY <1>2
  <1>. HIDE DEF c, r
  <1>4. (c = 0 /\ r = h) \/ (c = m /\ r = h - 1)
    BY <1>1, <1>3, PastPlane
  <1>. QED  BY <1>4 DEF c, r

LEMMA DotIndexInt ==
  ASSUME part \in Int \X Int, NEW n \in Nat
  PROVE  DotIndex(n) \in Int
  BY PixelsAssumption DEF DotIndex

LEMMA DotStep ==
  TypeInv /\ DotNearPlane /\ [Next]_vars => DotNearPlane'
  <1>. SUFFICES ASSUME TypeInv, DotNearPlane, [Next]_vars PROVE DotNearPlane'
    OBVIOUS
  <1>1. CASE DrawDot
    <2>1. k \in Nat /\ k < 16 /\ part \in Int \X Int /\ last \in [y : Int, uv : Int, data : Int]
      BY <1>1 DEF DrawDot, Dotting, DotRounds, TypeInv, PixelsTypeOK
    <2>2. k % 4 \in 0 .. 3 /\ k \div 4 \in 0 .. 3 /\ part[1] \in Int /\ part[2] \in Int
      BY <2>1
    <2>3. Width \in Nat /\ Width >= 4 /\ Height \in Int
      BY PixelsAssumption
    <2>4. /\ last'.y = DotIndex(k) /\ part' = part
          /\ ~(DotIndex(k) > YSize) /\ ~(DotIndex(k) < 0)
      BY <1>1, <2>1 DEF DrawDot, DotSkipped
    <2>5. DotIndex(k) \in 0 .. YSize
      BY <2>1, <2>4, DotIndexInt, Sizes
    <2>6. ASSUME DotIndex(k) = YSize, part[2] \in 0 .. Width - 1
          PROVE  part[1] \in -2 .. 2 /\ part[2] \in {0, 1, 2, Width - 1}
      <3>1. (part[2] - 2) + (Height - part[1] - 2) * Width + (k % 4) + (k \div 4) * Width
              = Width * Height
        BY <2>6 DEF DotIndex, YSize
      <3>. QED  BY <2>2, <2>3, <2>6, <3>1, DotPastPlane, Zenon
    <2>. QED  BY <2>4, <2>5, <2>6 DEF DotNearPlane
  <1>2. CASE UNCHANGED <<drawing, part, last>>
    BY <1>2 DEF DotNearPlane
  <1>3. CASE CopyPixel
    BY <1>3 DEF CopyPixel, Copying, DotNearPlane
  <1>. QED
    BY <1>1, <1>2, <1>3 DEF Next, vars, SkipPixel, SkipDot, Capture

(* A dot leaves the luma plane by one byte at most, and of the landmarks   *)
(* in the columns of the frame only one near the end of the plane does:    *)
(* the test of draw_landmark.                                              *)
THEOREM DotSafe == Spec => []DotNearPlane
  <1>1. Init => DotNearPlane
    BY Sizes DEF Init, DotNearPlane
  <1>. QED  BY <1>1, DotStep, TypeInvariant, PTL DEF Spec

-------------------------------------------------------------------------------
(* What the rounds before k have painted.                                  *)

PaintedSoFar ==
  \A x \in 0 .. Width - 1, row \in 0 .. Height - 1 :
    luma[x + row * Width] =
      IF OpaqueAt(x, row) /\ StickerAt(x, row) < k THEN StickerAt(x, row) ELSE Frame

LoopInv ==
  drawing # "dot" =>
    /\ k <= StickerYSize
    /\ P + Side <= Width => PaintedSoFar

(* The round that treats a pixel of the box, and the pixel of a round.     *)
LEMMA RoundOfPixel ==
  ASSUME part \in Int \X Int, NEW x \in Int, NEW row \in Int, InBox(x, row)
  PROVE  /\ StickerAt(x, row) \in 0 .. StickerYSize - 1
         /\ X(StickerAt(x, row)) = x /\ Row(StickerAt(x, row)) = row
  <1>1. P \in Int /\ Q \in Int /\ Side \in Nat \ {0}
    BY Corner, PixelsAssumption
  <1>. DEFINE a == x - P
              b == row - Q
              n == StickerAt(x, row)
  <1>2. a \in 0 .. Side - 1 /\ b \in 0 .. Side - 1
    BY <1>1 DEF InBox
  <1>3. n = a + b * Side
    BY DEF StickerAt
  <1>4. n \in 0 .. StickerYSize - 1
    <2>. HIDE DEF a, b, n
    <2>. QED  BY <1>1, <1>2, <1>3, PlaceInPlane DEF StickerYSize
  <1>5. /\ I(n) \in 0 .. Side - 1 /\ J(n) \in 0 .. Side - 1
        /\ I(n) + J(n) * Side = n
    <2>. HIDE DEF a, b, n
    <2>. QED  BY <1>4, RoundPixel, Sizes
  <1>6. I(n) = a /\ J(n) = b
    <2>. HIDE DEF a, b, n
    <2>1. Place(Side, I(n), J(n)) = Place(Side, a, b)
      BY <1>3, <1>5 DEF Place
    <2>2. J(n) \in Int /\ b \in Int
      BY <1>1, <1>2, <1>5
    <2>. QED  BY <1>1, <1>2, <1>5, <2>1, <2>2, PlaceUnique, SMT
  <1>. QED  BY <1>1, <1>4, <1>6 DEF X, Row

LEMMA PixelOfRound ==
  ASSUME part \in Int \X Int, NEW n \in Nat, n < StickerYSize
  PROVE  /\ X(n) \in Int /\ Row(n) \in Int
         /\ InBox(X(n), Row(n)) /\ StickerAt(X(n), Row(n)) = n
  <1>1. P \in Int /\ Q \in Int /\ Side \in Nat \ {0}
    BY Corner, PixelsAssumption
  <1>2. /\ I(n) \in 0 .. Side - 1 /\ J(n) \in 0 .. Side - 1
        /\ I(n) + J(n) * Side = n
    BY RoundPixel
  <1>3. X(n) - P = I(n) /\ Row(n) - Q = J(n) /\ X(n) \in Int /\ Row(n) \in Int
    BY <1>1, <1>2 DEF X, Row
  <1>. QED  BY <1>1, <1>2, <1>3 DEF InBox, StickerAt

(* A place of the frame is inside both planes.                             *)
LEMMA PlaceFits ==
  ASSUME NEW n \in Nat, X(n) \in 0 .. Width - 1, Row(n) \in 0 .. Height - 1
  PROVE  FitsPlanes(n)
  <1>0. Width \in Nat /\ Width % 2 = 0 /\ Height \in Nat /\ Height % 2 = 0
    BY PixelsAssumption
  <1>1. PICK w \in Nat, h \in Nat :
          /\ Width = 2 * w /\ Height = 2 * h
          /\ w * h \in Nat
          /\ Width * Height = 4 * (w * h)
          /\ (Width * Height) \div 2 = 2 * (w * h)
    BY <1>0, EvenPlane, Zenon
  <1>2. FrameY(n) < YSize
    <2>1. Width \in Nat \ {0} /\ Height \in Nat
      BY PixelsAssumption
    <2>2. X(n) + Row(n) * Width \in 0 .. Width * Height - 1
      BY <2>1, PlaceInPlane, Zenon
    <2>3. Width * Height \in Nat
      BY <2>1
    <2>. QED  BY <2>2, <2>3 DEF FrameY, YSize
  <1>3. FrameUV(n) = (X(n) \div 2 + (Row(n) \div 2) * w) * 2
    BY <1>1, PairOf DEF FrameUV
  <1>4. X(n) \div 2 \in 0 .. w - 1 /\ Row(n) \div 2 \in 0 .. h - 1 /\ w \in Nat \ {0}
    BY <1>1, PixelsAssumption
  <1>5. X(n) \div 2 + (Row(n) \div 2) * w \in 0 .. w * h - 1
    BY <1>4, PlaceInPlane
  <1>6. UVSize = 2 * (w * h)
    BY <1>1 DEF UVSize, YSize
  <1>. QED  BY <1>1, <1>2, <1>3, <1>5, <1>6 DEF FitsPlanes

(* Which rounds paint, told by their pixel.                                *)
LEMMA PaintsPixel ==
  ASSUME part \in Int \X Int, NEW n \in Nat, n < StickerYSize,
         X(n) \in 0 .. Width - 1, Row(n) \in 0 .. Height - 1
  PROVE  Painted(n) <=> OpaqueAt(X(n), Row(n))
  <1>1. FitsPlanes(n)
    BY PlaceFits
  <1>2. ~Skipped(n)
    BY PixelsAssumption DEF Skipped
  <1>3. StickerUV(n) < StickerSize
    BY RoundData, Sizes
  <1>4. InBox(X(n), Row(n)) /\ StickerAt(X(n), Row(n)) = n /\ StickerY(n) = n
    BY PixelOfRound, RoundPixel
  <1>5. Opaque(n) <=> OpaqueAt(X(n), Row(n))
    BY <1>4 DEF Opaque, OpaqueAt
  <1>. QED  BY <1>1, <1>2, <1>3, <1>5 DEF Painted

(* A round that paints touches the pixel it stands for and no other one.   *)
LEMMA CopyPixelPaints ==
  ASSUME TypeInv, PaintedSoFar, P + Side <= Width, CopyPixel,
         NEW x \in 0 .. Width - 1, NEW row \in 0 .. Height - 1
  PROVE  luma'[x + row * Width] =
           IF OpaqueAt(x, row) /\ StickerAt(x, row) < k + 1
           THEN StickerAt(x, row) ELSE Frame
  <1>1. /\ k \in Nat /\ k < StickerYSize /\ Painted(k) /\ part \in Int \X Int
        /\ luma \in [0 .. YSize -> {Frame, Dot} \cup 0 .. StickerYSize - 1]
        /\ luma' = [luma EXCEPT ![FrameY(k)] = StickerY(k)]
    BY DEF CopyPixel, Copying, TypeInv, PixelsTypeOK
  <1>2. /\ X(k) \in Int /\ Row(k) \in Int
        /\ InBox(X(k), Row(k)) /\ StickerAt(X(k), Row(k)) = k /\ StickerY(k) = k
    BY <1>1, PixelOfRound, RoundPixel
  <1>3. /\ X(k) \in Nat /\ Row(k) \in Nat
        /\ FrameY(k) = X(k) + Row(k) * Width
        /\ FrameY(k) \in 0 .. YSize - 1
    BY <1>1, RoundInPlanes
  <1>4. Width \in Nat \ {0} /\ Height \in Nat
    BY PixelsAssumption
  <1>5. X(k) \in 0 .. Width - 1
    <2>1. P \in Int /\ Side \in Nat /\ X(k) \in P .. P + Side - 1
      BY <1>1, <1>2, Corner, PixelsAssumption DEF InBox
    <2>. QED  BY <1>3, <1>4, <2>1
  <1>6. Row(k) \in 0 .. Height - 1
    <2>1. X(k) + Row(k) * Width < Width * Height
      BY <1>3, Sizes DEF YSize
    <2>. QED  BY <1>3, <1>4, <1>5, <2>1, PlaceBelow
  <1>7. OpaqueAt(X(k), Row(k))
    BY <1>1, <1>5, <1>6, PaintsPixel
  <1>8. x + row * Width \in 0 .. YSize - 1
    BY <1>4, PlaceInPlane DEF YSize
  <1>9. CASE x = X(k) /\ row = Row(k)
    <2>1. luma'[x + row * Width] = k
      BY <1>1, <1>2, <1>3, <1>8, <1>9, Sizes
    <2>2. OpaqueAt(x, row) /\ StickerAt(x, row) = k /\ k < k + 1
      BY <1>1, <1>2, <1>7, <1>9
    <2>. QED  BY <2>1, <2>2
  <1>10. CASE ~(x = X(k) /\ row = Row(k))
    <2>1. x + row * Width # FrameY(k)
      <3>1. row \in Int /\ Row(k) \in Int
        BY <1>2, <1>4
      <3>2. ASSUME x + row * Width = X(k) + Row(k) * Width
            PROVE  x = X(k) /\ row = Row(k)
        <4>1. Place(Width, x, row) = Place(Width, X(k), Row(k))
          BY <3>2 DEF Place
        <4>. QED  BY <1>4, <1>5, <3>1, <4>1, PlaceUnique, SMT
      <3>. QED  BY <1>3, <1>10, <3>2, Zenon
    <2>2. luma'[x + row * Width] = luma[x + row * Width]
      BY <1>1, <1>8, <2>1, Sizes
    <2>3. OpaqueAt(x, row) => StickerAt(x, row) # k /\ StickerAt(x, row) \in Int
      BY <1>1, <1>10, RoundOfPixel DEF OpaqueAt
    <2>4. OpaqueAt(x, row) /\ StickerAt(x, row) < k + 1
            <=> OpaqueAt(x, row) /\ StickerAt(x, row) < k
      BY <1>1, <2>3
    <2>. QED  BY <2>2, <2>4 DEF PaintedSoFar
  <1>. QED  BY <1>9, <1>10

LEMMA SkipPixelPaints ==
  ASSUME TypeInv, PaintedSoFar, P + Side <= Width, SkipPixel,
         NEW x \in 0 .. Width - 1, NEW row \in 0 .. Height - 1
  PROVE  luma'[x + row * Width] =
           IF OpaqueAt(x, row) /\ StickerAt(x, row) < k + 1
           THEN StickerAt(x, row) ELSE Frame
  <1>1. /\ k \in Nat /\ k < StickerYSize /\ ~Painted(k) /\ part \in Int \X Int
        /\ luma' = luma
    BY DEF SkipPixel, Copying, TypeInv, PixelsTypeOK
  <1>2. OpaqueAt(x, row) => StickerAt(x, row) # k /\ StickerAt(x, row) \in Int
    <2>. SUFFICES ASSUME OpaqueAt(x, row)
                  PROVE  StickerAt(x, row) # k /\ StickerAt(x, row) \in Int
      OBVIOUS
    <2>0. x \in Int /\ row \in Int
      BY PixelsAssumption
    <2>1. /\ StickerAt(x, row) \in 0 .. StickerYSize - 1
          /\ X(StickerAt(x, row)) = x /\ Row(StickerAt(x, row)) = row
      BY <1>1, <2>0, RoundOfPixel DEF OpaqueAt
    <2>2. CASE StickerAt(x, row) = k
      <3>1. X(k) = x /\ Row(k) = row
        BY <2>1, <2>2
      <3>. QED  BY <1>1, <3>1, PaintsPixel
    <2>. QED  BY <2>1, <2>2, Sizes
  <1>3. OpaqueAt(x, row) /\ StickerAt(x, row) < k + 1
          <=> OpaqueAt(x, row) /\ StickerAt(x, row) < k
    BY <1>1, <1>2
  <1>. QED  BY <1>1, <1>3 DEF PaintedSoFar

LEMMA LoopStep == TypeInv /\ LoopInv /\ [Next]_vars => LoopInv'
  <1>. SUFFICES ASSUME TypeInv, LoopInv, [Next]_vars, drawing' # "dot" PROVE LoopInv'
    BY DEF LoopInv
  <1>1. CASE CopyPixel \/ SkipPixel
    <2>1. /\ k < StickerYSize /\ k' = k + 1 /\ k \in Nat /\ drawing # "dot"
          /\ UNCHANGED <<drawing, part, paint>>
      BY <1>1 DEF CopyPixel, SkipPixel, Copying, TypeInv, PixelsTypeOK
    <2>2. k' <= StickerYSize' /\ StickerYSize' = StickerYSize
      BY <2>1, Sizes DEF StickerYSize
    <2>3. P' = P /\ Q' = Q
      BY <2>1 DEF P, Q
    <2>4. ASSUME P + Side <= Width PROVE PaintedSoFar'
      <3>. SUFFICES ASSUME NEW x \in 0 .. Width - 1, NEW row \in 0 .. Height - 1
                    PROVE  luma'[x + row * Width] =
                             IF OpaqueAt(x, row)' /\ StickerAt(x, row)' < k'
                             THEN StickerAt(x, row)' ELSE Frame
        BY DEF PaintedSoFar, Frame
      <3>1. PaintedSoFar
        BY <2>1, <2>4 DEF LoopInv
      <3>2. OpaqueAt(x, row)' = OpaqueAt(x, row) /\ StickerAt(x, row)' = StickerAt(x, row)
        BY <2>1, <2>3 DEF OpaqueAt, StickerAt, InBox
      <3>3. luma'[x + row * Width] =
              IF OpaqueAt(x, row) /\ StickerAt(x, row) < k + 1
              THEN StickerAt(x, row) ELSE Frame
        BY <1>1, <2>4, <3>1, CopyPixelPaints, SkipPixelPaints
      <3>. QED  BY <2>1, <3>2, <3>3
    <2>. QED  BY <2>2, <2>3, <2>4 DEF LoopInv
  <1>2. CASE UNCHANGED <<drawing, part, paint, k, luma>>
    BY <1>2 DEF LoopInv, PaintedSoFar, OpaqueAt, StickerAt, InBox, P, Q, ToEven, Frame,
                StickerYSize
  <1>3. CASE DrawDot \/ SkipDot
    BY <1>3 DEF DrawDot, SkipDot, Dotting
  <1>. QED  BY <1>1, <1>2, <1>3 DEF Next, vars, Capture

(* A sticker that does not reach past the right edge is placed exactly,    *)
(* pixel by pixel, for every size, every landmark and every painting: the  *)
(* copy loop of imageutils.cpp.                                            *)
THEOREM PlacementExact == Spec => []PlacedExactly
  <1>1. Init => LoopInv
    <2>. SUFFICES ASSUME Init PROVE LoopInv
      OBVIOUS
    <2>1. part \in Int \X Int
      BY PixelsAssumption DEF Init
    <2>2. ASSUME NEW x \in 0 .. Width - 1, NEW row \in 0 .. Height - 1
          PROVE  luma[x + row * Width] = Frame /\ ~(OpaqueAt(x, row) /\ StickerAt(x, row) < k)
      <3>1. x + row * Width \in 0 .. YSize
        BY PlaceInPlane, PixelsAssumption, Sizes DEF YSize
      <3>2. OpaqueAt(x, row) => StickerAt(x, row) \in 0 .. StickerYSize - 1
        BY <2>1, RoundOfPixel, PixelsAssumption DEF OpaqueAt
      <3>. QED  BY <3>1, <3>2, Sizes DEF Init
    <2>. QED  BY <2>2, Sizes DEF LoopInv, PaintedSoFar, Init
  <1>2. TypeInv /\ LoopInv => PlacedExactly
    <2>. SUFFICES ASSUME TypeInv, LoopInv, Drawn, drawing # "dot", P + Side <= Width,
                         NEW x \in 0 .. Width - 1, NEW row \in 0 .. Height - 1
                  PROVE  luma[x + row * Width] =
                           IF OpaqueAt(x, row) THEN StickerAt(x, row) ELSE Frame
      BY DEF PlacedExactly
    <2>1. k >= StickerYSize /\ part \in Int \X Int /\ k \in Nat
      BY Sizes DEF Drawn, Copying, TypeInv, PixelsTypeOK
    <2>2. OpaqueAt(x, row) => StickerAt(x, row) \in 0 .. StickerYSize - 1
      BY <2>1, RoundOfPixel, PixelsAssumption DEF OpaqueAt
    <2>3. OpaqueAt(x, row) => StickerAt(x, row) < k
      BY <2>1, <2>2, Sizes
    <2>. QED  BY <2>3 DEF LoopInv, PaintedSoFar
  <1>. QED  BY <1>1, <1>2, LoopStep, TypeInvariant, PTL DEF Spec

-------------------------------------------------------------------------------

LEMMA RowsStep == TypeInv /\ RowsBounded /\ [Next]_vars => RowsBounded'
  <1>. SUFFICES ASSUME TypeInv, RowsBounded, [Next]_vars PROVE RowsBounded'
    OBVIOUS
  <1>1. CASE CopyPixel
    <2>. SUFFICES ASSUME drawing' # "dot", (P + Side <= 2 * Width)',
                         NEW x \in 0 .. Width - 1, NEW row \in 0 .. Height - 1,
                         luma'[x + row * Width] # Frame
                  PROVE  row \in (Q .. Q + Side)'
      BY DEF RowsBounded, Frame
    <2>1. /\ k \in Nat /\ k < StickerYSize /\ Painted(k) /\ part \in Int \X Int
          /\ luma \in [0 .. YSize -> {Frame, Dot} \cup 0 .. StickerYSize - 1]
          /\ luma' = [luma EXCEPT ![FrameY(k)] = StickerY(k)]
          /\ drawing' = drawing /\ part' = part
      BY <1>1 DEF CopyPixel, Copying, TypeInv, PixelsTypeOK
    <2>2. P' = P /\ Q' = Q /\ P \in Int /\ Q \in Int /\ Side \in Nat
      BY <2>1, Corner, PixelsAssumption DEF P, Q
    <2>3. Width \in Nat \ {0} /\ Height \in Nat
      BY PixelsAssumption
    <2>4. x + row * Width \in 0 .. YSize
      BY <2>3, PlaceInPlane, Sizes DEF YSize
    <2>5. CASE x + row * Width # FrameY(k)
      BY <2>1, <2>2, <2>4, <2>5 DEF RowsBounded
    <2>6. CASE x + row * Width = FrameY(k)
      <3>1. /\ X(k) \in Nat /\ Row(k) \in Nat
            /\ x + row * Width = X(k) + Row(k) * Width
        BY <2>1, <2>6, RoundInPlanes
      <3>2. /\ X(k) \in P .. P + Side - 1 /\ Row(k) \in Q .. Q + Side - 1
        BY <2>1, PixelOfRound DEF InBox
      <3>3. X(k) < 2 * Width
        BY <2>2, <2>3, <3>1, <3>2
      <3>4. row = Row(k) \/ row = Row(k) + 1
        <4>. DEFINE z == row - Row(k)
        <4>1. z \in Int /\ X(k) = x + z * Width
          BY <2>3, <3>1
        <4>. HIDE DEF z
        <4>2. CASE z >= 2
          <5>1. z * Width >= 2 * Width
            BY <2>3, <4>1, <4>2
          <5>. QED  BY <2>3, <3>3, <4>1, <5>1
        <4>3. CASE z <= -1
          <5>1. z * Width <= -Width
            BY <2>3, <4>1, <4>3
          <5>. QED  BY <2>3, <3>1, <4>1, <5>1
        <4>4. CASE z \in {0, 1}
          BY <2>3, <3>1, <4>4 DEF z
        <4>. QED  BY <4>1, <4>2, <4>3, <4>4
      <3>. QED  BY <2>2, <3>2, <3>4
    <2>. QED  BY <2>5, <2>6
  <1>2. CASE UNCHANGED <<drawing, part, luma>>
    BY <1>2 DEF RowsBounded, P, Q, ToEven, Frame
  <1>3. CASE DrawDot
    BY <1>3 DEF DrawDot, Dotting, RowsBounded
  <1>. QED
    BY <1>1, <1>2, <1>3 DEF Next, vars, SkipPixel, SkipDot, Capture

(* A sticker that hangs over the right edge disturbs no row but its own    *)
(* and the one after them.                                                 *)
THEOREM RowsSafe == Spec => []RowsBounded
  <1>1. Init => RowsBounded
    <2>. SUFFICES ASSUME Init, NEW x \in 0 .. Width - 1, NEW row \in 0 .. Height - 1
                  PROVE  luma[x + row * Width] = Frame
      BY DEF RowsBounded
    <2>1. x + row * Width \in 0 .. YSize
      BY PlaceInPlane, PixelsAssumption, Sizes DEF YSize
    <2>. QED  BY <2>1 DEF Init
  <1>. QED  BY <1>1, RowsStep, TypeInvariant, PTL DEF Spec

-------------------------------------------------------------------------------
(* What the rounds before k have coloured, and how a capture leaves it.    *)

ColouredSoFar ==
  \A x \in 0 .. Width - 1, row \in 0 .. Height - 1 :
    OpaqueAt(x, row) /\ StickerAt(x, row) < k =>
      IF captured
      THEN /\ chroma[PairAt(x, row)] = DataAt(x, row)
           /\ chroma[PairAt(x, row) + 1] = DataAt(x, row) + 1
      ELSE /\ chroma[PairAt(x, row)] = DataAt(x, row) + 1
           /\ chroma[PairAt(x, row) + 1] = DataAt(x, row)

ColourInv ==
  /\ captured => Drawn
  /\ drawing # "dot" /\ P + Side <= Width => ColouredSoFar

(* The pair of a place of the frame lies in the chroma plane.              *)
LEMMA PairInPlane ==
  ASSUME NEW x \in 0 .. Width - 1, NEW row \in 0 .. Height - 1
  PROVE  PairAt(x, row) \in 0 .. UVSize - 2 /\ PairAt(x, row) % 2 = 0
  <1>0. Width \in Nat /\ Width % 2 = 0 /\ Height \in Nat /\ Height % 2 = 0
    BY PixelsAssumption
  <1>1. PICK w \in Nat, h \in Nat :
          /\ Width = 2 * w /\ Height = 2 * h
          /\ w * h \in Nat
          /\ Width * Height = 4 * (w * h)
          /\ (Width * Height) \div 2 = 2 * (w * h)
    BY <1>0, EvenPlane, Zenon
  <1>2. x \div 2 \in 0 .. w - 1 /\ row \div 2 \in 0 .. h - 1 /\ w \in Nat \ {0}
    BY <1>1, PixelsAssumption
  <1>3. x \div 2 + (row \div 2) * w \in 0 .. w * h - 1
    BY <1>2, PlaceInPlane
  <1>4. PairAt(x, row) = (x \div 2 + (row \div 2) * w) * 2
    BY <1>1, <1>2 DEF PairAt
  <1>5. UVSize = 2 * (w * h)
    BY <1>1 DEF UVSize, YSize
  <1>. DEFINE c == x \div 2 + (row \div 2) * w
  <1>6. c \in 0 .. w * h - 1 /\ PairAt(x, row) = c * 2
    BY <1>3, <1>4
  <1>. HIDE DEF c
  <1>. QED  BY <1>1, <1>5, <1>6

(* Two places share a pair only within a block of two by two.              *)
LEMMA PairUnique ==
  ASSUME NEW x \in 0 .. Width - 1, NEW row \in Int,
         NEW y \in 0 .. Width - 1, NEW low \in Int,
         PairAt(x, row) = PairAt(y, low)
  PROVE  x \div 2 = y \div 2 /\ row \div 2 = low \div 2
  <1>1. PICK w \in Nat \ {0} : Width = 2 * w
    <2>1. PICK w \in Nat : Width = 2 * w
      BY EvenPlane, PixelsAssumption
    <2>. QED  BY <2>1, PixelsAssumption
  <1>2. /\ x \div 2 \in 0 .. w - 1 /\ y \div 2 \in 0 .. w - 1
        /\ row \div 2 \in Int /\ low \div 2 \in Int
    BY <1>1
  <1>3. /\ PairAt(x, row) = (x \div 2 + (row \div 2) * w) * 2
        /\ PairAt(y, low) = (y \div 2 + (low \div 2) * w) * 2
    BY <1>1, <1>2 DEF PairAt
  <1>. DEFINE c == (row \div 2) * w
              d == (low \div 2) * w
  <1>4. c \in Int /\ d \in Int
    BY <1>2
  <1>5. x \div 2 + c = y \div 2 + d
    <2>1. (x \div 2 + c) * 2 = (y \div 2 + d) * 2
      BY <1>3
    <2>. HIDE DEF c, d
    <2>. QED  BY <1>2, <1>4, <2>1
  <1>6. Place(w, x \div 2, row \div 2) = Place(w, y \div 2, low \div 2)
    BY <1>5 DEF Place
  <1>. QED  BY <1>1, <1>2, <1>6, PlaceUnique

(* A block of the frame is a block of the sticker: the corner is even.     *)
LEMMA BlockData ==
  ASSUME part \in Int \X Int, NEW x \in Int, NEW row \in Int, NEW y \in Int, NEW low \in Int,
         x \div 2 = y \div 2, row \div 2 = low \div 2
  PROVE  DataAt(x, row) = DataAt(y, low)
  <1>1. P \in Int /\ P % 2 = 0 /\ Q \in Int /\ Q % 2 = 0
    BY Corner
  <1>2. (x - P) \div 2 = (y - P) \div 2
    BY <1>1
  <1>3. (row - Q) \div 2 = (low - Q) \div 2
    BY <1>1
  <1>. QED  BY <1>2, <1>3 DEF DataAt

(* The indices of a round are those of its pixel.                          *)
LEMMA RoundPair ==
  ASSUME part \in Int \X Int, NEW n \in Nat, n < StickerYSize
  PROVE  /\ FrameUV(n) = PairAt(X(n), Row(n))
         /\ StickerUV(n) = DataAt(X(n), Row(n))
  <1>1. PICK w \in Nat : Width = 2 * w
    BY EvenPlane, PixelsAssumption
  <1>2. PICK s \in Nat : Side = 2 * s
    BY EvenPlane, PixelsAssumption
  <1>3. X(n) \in Int /\ Row(n) \in Int /\ X(n) - P = I(n) /\ Row(n) - Q = J(n)
        /\ I(n) \in Int /\ J(n) \in Int
    BY Corner, RoundPixel DEF X, Row
  <1>4. FrameUV(n) = (X(n) \div 2 + (Row(n) \div 2) * w) * 2
    BY <1>1, <1>3, PairOf DEF FrameUV
  <1>5. PairAt(X(n), Row(n)) = (X(n) \div 2 + (Row(n) \div 2) * w) * 2
    BY <1>1, <1>3 DEF PairAt
  <1>6. StickerUV(n) = (I(n) \div 2 + (J(n) \div 2) * s) * 2 + StickerYSize
    BY <1>2, <1>3, PairOf DEF StickerUV
  <1>7. DataAt(X(n), Row(n)) = StickerYSize + (I(n) \div 2) * 2 + (J(n) \div 2) * (2 * s)
    BY <1>2, <1>3 DEF DataAt
  <1>8. I(n) \div 2 \in Int /\ (J(n) \div 2) * s \in Int /\ StickerYSize \in Int
        /\ (J(n) \div 2) * (2 * s) = 2 * ((J(n) \div 2) * s)
    BY <1>2, <1>3, Sizes
  <1>. QED  BY <1>4, <1>5, <1>6, <1>7, <1>8

LEMMA CopyPixelColours ==
  ASSUME TypeInv, ColouredSoFar, ~captured, P + Side <= Width, CopyPixel,
         NEW x \in 0 .. Width - 1, NEW row \in 0 .. Height - 1,
         OpaqueAt(x, row), StickerAt(x, row) < k + 1
  PROVE  /\ chroma'[PairAt(x, row)] = DataAt(x, row) + 1
         /\ chroma'[PairAt(x, row) + 1] = DataAt(x, row)
  <1>1. /\ k \in Nat /\ k < StickerYSize /\ Painted(k) /\ part \in Int \X Int
        /\ DOMAIN chroma = 0 .. UVSize - 1
        /\ chroma' = [chroma EXCEPT ![FrameUV(k)] = StickerUV(k) + 1,
                                    ![FrameUV(k) + 1] = StickerUV(k)]
    BY DEF CopyPixel, Copying, TypeInv, PixelsTypeOK
  <1>2. /\ X(k) \in Nat /\ Row(k) \in Nat /\ FrameUV(k) % 2 = 0 /\ FrameUV(k) \in Int
    BY <1>1, RoundInPlanes
  <1>3. X(k) \in 0 .. Width - 1
    <2>1. P \in Int /\ Side \in Nat /\ X(k) \in P .. P + Side - 1 /\ Width \in Nat
      BY <1>1, PixelOfRound, Corner, PixelsAssumption DEF InBox
    <2>. QED  BY <1>2, <2>1
  <1>4. /\ PairAt(x, row) \in 0 .. UVSize - 2 /\ PairAt(x, row) % 2 = 0
        /\ UVSize \in Nat
    BY PairInPlane, Sizes
  <1>5. FrameUV(k) = PairAt(X(k), Row(k)) /\ StickerUV(k) = DataAt(X(k), Row(k))
    BY <1>1, RoundPair
  <1>6. x \in Int /\ row \in Int
    BY PixelsAssumption
  <1>7. CASE PairAt(x, row) = PairAt(X(k), Row(k))
    <2>1. DataAt(x, row) = DataAt(X(k), Row(k))
      <3>1. x \div 2 = X(k) \div 2 /\ row \div 2 = Row(k) \div 2
        BY <1>2, <1>3, <1>6, <1>7, PairUnique
      <3>. QED  BY <1>1, <1>2, <1>6, <3>1, BlockData
    <2>2. PairAt(x, row) \in DOMAIN chroma /\ PairAt(x, row) + 1 \in DOMAIN chroma
      BY <1>1, <1>4
    <2>3. PairAt(x, row) = FrameUV(k) /\ DataAt(x, row) = StickerUV(k)
      BY <1>5, <1>7, <2>1
    <2>. QED  BY <1>1, <1>4, <2>2, <2>3
  <1>8. CASE PairAt(x, row) # PairAt(X(k), Row(k))
    <2>1. StickerAt(x, row) # k /\ StickerAt(x, row) \in Int
      BY <1>1, <1>6, <1>8, RoundOfPixel, Sizes DEF OpaqueAt
    <2>2. /\ chroma[PairAt(x, row)] = DataAt(x, row) + 1
          /\ chroma[PairAt(x, row) + 1] = DataAt(x, row)
      <3>1. StickerAt(x, row) < k
        BY <1>1, <2>1
      <3>. QED  BY <3>1 DEF ColouredSoFar
    <2>3. /\ PairAt(x, row) \notin {FrameUV(k), FrameUV(k) + 1}
          /\ PairAt(x, row) + 1 \notin {FrameUV(k), FrameUV(k) + 1}
      BY <1>2, <1>4, <1>5, <1>8
    <2>4. PairAt(x, row) \in DOMAIN chroma /\ PairAt(x, row) + 1 \in DOMAIN chroma
      BY <1>1, <1>4
    <2>. QED  BY <1>1, <2>2, <2>3, <2>4
  <1>. QED  BY <1>7, <1>8

LEMMA ColourStep == TypeInv /\ ColourInv /\ [Next]_vars => ColourInv'
  <1>. SUFFICES ASSUME TypeInv, ColourInv, [Next]_vars PROVE ColourInv'
    OBVIOUS
  <1>1. CASE CopyPixel \/ SkipPixel
    <2>1. /\ k < StickerYSize /\ k' = k + 1 /\ k \in Nat /\ drawing # "dot" /\ Copying
          /\ part \in Int \X Int
          /\ UNCHANGED <<drawing, part, paint, captured>>
      BY <1>1 DEF CopyPixel, SkipPixel, Copying, TypeInv, PixelsTypeOK
    <2>2. ~captured
      BY <2>1 DEF ColourInv, Drawn
    <2>3. P' = P /\ Q' = Q
      BY <2>1 DEF P, Q
    <2>4. ASSUME P + Side <= Width PROVE ColouredSoFar'
      <3>. SUFFICES ASSUME NEW x \in 0 .. Width - 1, NEW row \in 0 .. Height - 1,
                           OpaqueAt(x, row)', StickerAt(x, row)' < k'
                    PROVE  /\ chroma'[PairAt(x, row)] = DataAt(x, row)' + 1
                           /\ chroma'[PairAt(x, row) + 1] = DataAt(x, row)'
        BY <2>1, <2>2 DEF ColouredSoFar, PairAt
      <3>1. ColouredSoFar
        BY <2>1, <2>4 DEF ColourInv
      <3>2. /\ OpaqueAt(x, row) /\ StickerAt(x, row) < k + 1
            /\ DataAt(x, row)' = DataAt(x, row)
        BY <2>1, <2>3 DEF OpaqueAt, StickerAt, InBox, DataAt, StickerYSize
      <3>3. CASE CopyPixel
        BY <2>2, <2>4, <3>1, <3>2, <3>3, CopyPixelColours
      <3>4. CASE SkipPixel
        <4>1. x \in Int /\ row \in Int /\ chroma' = chroma /\ ~Painted(k)
          BY <3>4, PixelsAssumption DEF SkipPixel
        <4>2. /\ StickerAt(x, row) \in 0 .. StickerYSize - 1
              /\ X(StickerAt(x, row)) = x /\ Row(StickerAt(x, row)) = row
          BY <2>1, <3>2, <4>1, RoundOfPixel DEF OpaqueAt
        <4>3. StickerAt(x, row) # k
          BY <2>1, <3>2, <4>1, <4>2, PaintsPixel
        <4>4. StickerAt(x, row) < k
          BY <2>1, <3>2, <4>2, <4>3, Sizes
        <4>. QED  BY <2>2, <3>1, <3>2, <4>1, <4>4 DEF ColouredSoFar
      <3>. QED  BY <1>1, <3>3, <3>4
    <2>. QED  BY <2>1, <2>2, <2>3, <2>4 DEF ColourInv
  <1>2. CASE Capture
    <2>1. /\ captured' /\ ~captured /\ Drawn
          /\ UNCHANGED <<drawing, part, paint, k>>
          /\ chroma' = Swapped(chroma)
      BY <1>2 DEF Capture
    <2>2. Drawn'
      BY <2>1 DEF Drawn, Copying, Dotting, StickerYSize, DotRounds
    <2>3. P' = P /\ Q' = Q
      BY <2>1 DEF P, Q
    <2>4. ASSUME drawing # "dot", P + Side <= Width PROVE ColouredSoFar'
      <3>. SUFFICES ASSUME NEW x \in 0 .. Width - 1, NEW row \in 0 .. Height - 1,
                           OpaqueAt(x, row)', StickerAt(x, row)' < k'
                    PROVE  /\ chroma'[PairAt(x, row)] = DataAt(x, row)'
                           /\ chroma'[PairAt(x, row) + 1] = DataAt(x, row)' + 1
        BY <2>1 DEF ColouredSoFar, PairAt
      <3>1. /\ OpaqueAt(x, row) /\ StickerAt(x, row) < k
            /\ DataAt(x, row)' = DataAt(x, row)
        BY <2>1, <2>3 DEF OpaqueAt, StickerAt, InBox, DataAt, StickerYSize
      <3>2. /\ chroma[PairAt(x, row)] = DataAt(x, row) + 1
            /\ chroma[PairAt(x, row) + 1] = DataAt(x, row)
        BY <2>1, <2>4, <3>1 DEF ColourInv, ColouredSoFar
      <3>3. chroma' = [n \in 0 .. UVSize - 1 |->
                         IF n % 2 = 0 THEN chroma[n + 1] ELSE chroma[n - 1]]
        BY <2>1 DEF Swapped, TypeInv, PixelsTypeOK
      <3>. DEFINE pair == PairAt(x, row)
      <3>4. /\ pair \in 0 .. UVSize - 2 /\ pair % 2 = 0 /\ UVSize \in Nat
        BY PairInPlane, Sizes
      <3>. HIDE DEF pair
      <3>5. /\ pair \in 0 .. UVSize - 1 /\ pair + 1 \in 0 .. UVSize - 1
            /\ (pair + 1) % 2 # 0 /\ (pair + 1) - 1 = pair
        BY <3>4
      <3>6. chroma'[pair] = chroma[pair + 1] /\ chroma'[pair + 1] = chroma[pair]
        BY <3>3, <3>4, <3>5
      <3>. QED  BY <3>1, <3>2, <3>6 DEF pair
    <2>. QED  BY <2>1, <2>2, <2>3, <2>4 DEF ColourInv
  <1>3. CASE DrawDot \/ SkipDot
    BY <1>3 DEF DrawDot, SkipDot, Dotting, ColourInv, Drawn
  <1>4. CASE UNCHANGED vars
    BY <1>4 DEF vars, ColourInv, ColouredSoFar, Drawn, Copying, Dotting, OpaqueAt,
                StickerAt, InBox, P, Q, ToEven, PairAt, DataAt, StickerYSize, DotRounds
  <1>. QED  BY <1>1, <1>2, <1>3, <1>4 DEF Next

(* The chroma of a photo is that of the sticker's own pixels, in the order *)
(* of its file, for every size and landmark: the copy loop exchanges the   *)
(* bytes of each pair and the capture exchanges them back.                 *)
THEOREM ColoursSafe == Spec => []PhotoColours
  <1>1. Init => ColourInv
    <2>. SUFFICES ASSUME Init PROVE ColourInv
      OBVIOUS
    <2>1. part \in Int \X Int /\ k = 0 /\ ~captured
      BY PixelsAssumption DEF Init
    <2>2. ASSUME NEW x \in 0 .. Width - 1, NEW row \in 0 .. Height - 1, OpaqueAt(x, row)
          PROVE  ~(StickerAt(x, row) < k)
      <3>1. StickerAt(x, row) \in 0 .. StickerYSize - 1
        BY <2>1, <2>2, RoundOfPixel, PixelsAssumption DEF OpaqueAt
      <3>. QED  BY <2>1, <3>1, Sizes
    <2>. QED  BY <2>1, <2>2 DEF ColourInv, ColouredSoFar
  <1>2. TypeInv /\ ColourInv => PhotoColours
    <2>. SUFFICES ASSUME TypeInv, ColourInv, captured, drawing # "dot", P + Side <= Width,
                         NEW x \in 0 .. Width - 1, NEW row \in 0 .. Height - 1,
                         OpaqueAt(x, row)
                  PROVE  /\ chroma[PairAt(x, row)] = DataAt(x, row)
                         /\ chroma[PairAt(x, row) + 1] = DataAt(x, row) + 1
      BY DEF PhotoColours
    <2>1. k >= StickerYSize /\ part \in Int \X Int /\ k \in Nat
      BY Sizes DEF ColourInv, Drawn, Copying, TypeInv, PixelsTypeOK
    <2>2. StickerAt(x, row) \in 0 .. StickerYSize - 1
      BY <2>1, RoundOfPixel, PixelsAssumption DEF OpaqueAt
    <2>3. StickerAt(x, row) < k
      BY <2>1, <2>2, Sizes
    <2>. QED  BY <2>3 DEF ColourInv, ColouredSoFar
  <1>. QED  BY <1>1, <1>2, ColourStep, TypeInvariant, PTL DEF Spec

-------------------------------------------------------------------------------
(* The seventh round of a dot draws the landmark itself.                   *)

DotInv ==
  drawing = "dot" /\ k > 6 =>
    \A n \in 0 .. YSize - 1 : Turned(n) = <<part[2], part[1]>> => luma[n] = Dot

LEMMA DotOnLandmark ==
  ASSUME part \in Int \X Int, NEW n \in 0 .. YSize - 1, Turned(n) = <<part[2], part[1]>>
  PROVE  DotIndex(6) = n /\ ~DotSkipped(6)
  <1>1. Width \in Nat \ {0} /\ Height \in Int /\ n \in Int
    BY PixelsAssumption
  <1>2. part[1] \in Int /\ part[2] \in Int
    OBVIOUS
  <1>3. n % Width = part[2] /\ (Height - n \div Width) - 1 = part[1]
    BY DEF Turned
  <1>4. n \div Width \in Int /\ n = (n \div Width) * Width + (n % Width)
    BY <1>1, DivMod
  <1>5. 6 % 4 = 2 /\ 6 \div 4 = 1
    OBVIOUS
  <1>. DEFINE r == n \div Width
  <1>6. DotIndex(6) = (part[2] - 2) + (r - 1) * Width + 2 + 1 * Width
    BY <1>1, <1>2, <1>3, <1>4, <1>5 DEF DotIndex
  <1>7. r \in Int /\ n = r * Width + part[2]
    BY <1>3, <1>4
  <1>. HIDE DEF r
  <1>8. (r - 1) * Width = r * Width - Width /\ r * Width \in Int
    BY <1>1, <1>7
  <1>9. DotIndex(6) = n
    BY <1>1, <1>2, <1>6, <1>7, <1>8
  <1>. QED  BY <1>9, Sizes DEF DotSkipped

LEMMA DotInvStep == TypeInv /\ DotInv /\ [Next]_vars => DotInv'
  <1>. SUFFICES ASSUME TypeInv, DotInv, [Next]_vars,
                       drawing' = "dot", k' > 6,
                       NEW n \in 0 .. YSize - 1, Turned(n) = <<part'[2], part'[1]>>
                PROVE  luma'[n] = Dot
    BY DEF DotInv, Dot, Turned, YSize
  <1>1. /\ part \in Int \X Int /\ k \in Nat
        /\ luma \in [0 .. YSize -> {Frame, Dot} \cup 0 .. StickerYSize - 1]
        /\ n \in 0 .. YSize
    BY Sizes DEF TypeInv, PixelsTypeOK
  <1>2. CASE DrawDot
    <2>1. /\ part' = part /\ k' = k + 1 /\ drawing = "dot"
          /\ luma' = [luma EXCEPT ![DotIndex(k)] = Dot]
      BY <1>2 DEF DrawDot
    <2>2. CASE k = 6
      BY <1>1, <2>1, <2>2, DotOnLandmark
    <2>3. CASE k # 6
      <3>1. luma[n] = Dot
        BY <1>1, <2>1, <2>3 DEF DotInv
      <3>. QED  BY <1>1, <2>1, <3>1
    <2>. QED  BY <2>2, <2>3
  <1>3. CASE SkipDot
    <2>1. part' = part /\ k' = k + 1 /\ drawing = "dot" /\ luma' = luma /\ DotSkipped(k)
      BY <1>3 DEF SkipDot
    <2>2. k # 6
      BY <1>1, <2>1, DotOnLandmark
    <2>. QED  BY <1>1, <2>1, <2>2 DEF DotInv
  <1>4. CASE UNCHANGED <<drawing, part, k, luma>>
    BY <1>4 DEF DotInv
  <1>5. CASE CopyPixel \/ SkipPixel
    BY <1>5 DEF CopyPixel, SkipPixel, Copying
  <1>. QED  BY <1>2, <1>3, <1>4, <1>5 DEF Next, vars, Capture

(* A dot covers the byte that face_landmark had turned into its landmark,  *)
(* and a sticker's middle is less than two pixels away from it, for every  *)
(* size: the formulas of imageutils.cpp and landmark.cpp undo the turn of  *)
(* view.cpp.                                                               *)
THEOREM LandmarkSafe == Spec => []OnLandmark
  <1>1. Init => DotInv
    BY DEF Init, DotInv
  <1>2. TypeInv /\ DotInv => OnLandmark
    <2>. SUFFICES ASSUME TypeInv, DotInv, Drawn,
                         NEW n \in 0 .. YSize - 1, Turned(n) = <<part[2], part[1]>>
                  PROVE  /\ drawing = "dot" => luma[n] = Dot
                         /\ drawing # "dot" =>
                              /\ (n % Width) - P - Side \div 2 \in {-1, 0}
                              /\ n \div Width - Q - Side \div 2 \in {-2, -1}
      BY DEF OnLandmark
    <2>1. part[1] \in Int /\ part[2] \in Int /\ k \in Nat
      BY DEF TypeInv, PixelsTypeOK
    <2>2. n % Width = part[2] /\ (Height - n \div Width) - 1 = part[1]
      BY DEF Turned
    <2>3. Height \in Int /\ Side \div 2 \in Int /\ n \div Width \in Int
      BY DivMod, PixelsAssumption
    <2>4. ASSUME NEW z \in Int PROVE z - ToEven(z) \in {-1, 0}
      BY DEF ToEven
    <2>5. (part[2] - Side \div 2) - P \in {-1, 0}
      BY <2>1, <2>3, <2>4 DEF P
    <2>6. (Height - part[1] - Side \div 2) - Q \in {-1, 0}
      BY <2>1, <2>3, <2>4 DEF Q
    <2>7. P \in Int /\ Q \in Int
      BY Corner DEF TypeInv, PixelsTypeOK
    <2>8. (n % Width) - P - Side \div 2 \in {-1, 0}
      BY <2>1, <2>2, <2>3, <2>5, <2>7
    <2>9. n \div Width - Q - Side \div 2 \in {-2, -1}
      BY <2>1, <2>2, <2>3, <2>6, <2>7
    <2>10. ASSUME drawing = "dot" PROVE luma[n] = Dot
      <3>1. k > 6
        BY <2>1, <2>10 DEF Drawn, Dotting, DotRounds
      <3>. QED  BY <2>10, <3>1 DEF DotInv
    <2>. QED  BY <2>8, <2>9, <2>10
  <1>. QED  BY <1>1, <1>2, DotInvStep, TypeInvariant, PTL DEF Spec

===============================================================================
