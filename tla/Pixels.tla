-------------------------------- MODULE Pixels --------------------------------
(***************************************************************************)
(* Drawing into one preview frame: the copy loops of imageutils.cpp, the   *)
(* dots of draw_landmark, and what a capture does to the chroma plane      *)
(* before it encodes the frame.                                            *)
(*                                                                         *)
(* The frame has an unpadded luma plane of Width x Height bytes and an     *)
(* interleaved chroma plane of half that size.  The camera delivers it     *)
(* lying on its side: face_landmark turns it, so a landmark's second       *)
(* coordinate runs along the rows of the frame and its first one against   *)
(* its columns.  A byte is represented by where it comes from: the frame   *)
(* itself, a dot, or an index of the sticker's data.                       *)
(***************************************************************************)
EXTENDS Integers

CONSTANTS
  Width, Height,        \* the frame, 176 x 144 in the source
  Side,                 \* the sticker's width and height
  Reach                 \* bound: how far off the image a landmark may lie

(* The files are square and even, and so is the preview, which is not      *)
(* narrower than a dot.                                                    *)
ASSUME PixelsAssumption ==
  /\ Width \in Nat /\ Width >= 4 /\ Width % 2 = 0
  /\ Height \in Nat \ {0} /\ Height % 2 = 0
  /\ Side \in Nat \ {0} /\ Side % 2 = 0
  /\ Reach \in Nat

VARIABLES
  drawing,              \* which loop runs
  part,                 \* the landmark, shape.part(i)
  paint,                \* the brightness of each pixel of the sticker
  k,                    \* the rounds done
  luma,
  chroma,
  last,                 \* history: the indices the last round used
  captured              \* the frame was prepared for a photo

vars == <<drawing, part, paint, k, luma, chroma, last, captured>>

YSize == Width * Height
UVSize == YSize \div 2
StickerYSize == Side * Side
StickerSize == StickerYSize + StickerYSize \div 2

Frame == -1
Dot == -2

Brightness == {"dark", "mid", "bright"}

(* The pixel of the turned image that byte n of the luma plane becomes:    *)
(* its row and its column.                                                 *)
Turned(n) == <<n % Width, (Height - n \div Width) - 1>>

-------------------------------------------------------------------------------
(* The copy loop of _image_util_yuvcpy and _image_util_santacpy, called    *)
(* with p = part(1) and q = height - part(0).                              *)

(* Mutant of ToEven: positions are left as they are.                       *)
AnyParity(n) == n

ToEven(n) == IF n % 2 # 0 THEN n + 1 ELSE n

P == ToEven(part[2] - Side \div 2)

(* Mutant of Q: the landmark is not turned back.                           *)
QTurned == ToEven(part[1] - Side \div 2)

Q == ToEven(Height - part[1] - Side \div 2)

I(n) == n % Side
J(n) == n \div Side
X(n) == P + I(n)
Row(n) == Q + J(n)

(* Mutant of FrameY: rows and columns exchanged.                           *)
FrameYTransposed(n) == Row(n) + X(n) * Width

(* pt, ptpt, pti and ptipti of round n.                                    *)
FrameY(n) == X(n) + Row(n) * Width

FrameUV(n) == (X(n) \div 2 + ((Row(n) \div 2) * Width) \div 2) * 2
StickerY(n) == I(n) + J(n) * Side

(* Mutant of StickerUV: an index of the chroma plane alone.                *)
StickerUVPlane(n) == (I(n) \div 2 + ((J(n) \div 2) * Side) \div 2) * 2

StickerUV(n) == (I(n) \div 2 + ((J(n) \div 2) * Side) \div 2) * 2 + StickerYSize

(* Hats, ears, noses and glasses leave out what is bright, the beard what  *)
(* is dark; the tests of the chroma next to that are always true.          *)
Opaque(n) ==
  paint[StickerY(n)] # IF drawing = "beard" THEN "dark" ELSE "bright"

(* Mutant of Skipped: a position left of the frame is not skipped.         *)
SkippedAbove(n) == Row(n) < 0

Skipped(n) == X(n) < 0 \/ Row(n) < 0

(* Mutant of FitsPlanes: the chroma index is not tested.                   *)
FitsLuma(n) == FrameY(n) < YSize

FitsPlanes(n) == FrameY(n) < YSize /\ FrameUV(n) < UVSize

(* Everything that lets a round write.                                     *)
Painted(n) ==
  /\ ~Skipped(n)
  /\ StickerUV(n) < StickerSize
  /\ Opaque(n)
  /\ FitsPlanes(n)

Copying == drawing \in {"hat", "beard"} /\ k < StickerYSize

CopyPixel ==
  /\ Copying
  /\ Painted(k)
  /\ luma' = [luma EXCEPT ![FrameY(k)] = StickerY(k)]
  /\ chroma' = [chroma EXCEPT ![FrameUV(k)] = StickerUV(k) + 1,
                              ![FrameUV(k) + 1] = StickerUV(k)]
  /\ last' = [y |-> FrameY(k), uv |-> FrameUV(k), data |-> StickerUV(k)]
  /\ k' = k + 1
  /\ UNCHANGED <<drawing, part, paint, captured>>

SkipPixel ==
  /\ Copying
  /\ ~Painted(k)
  /\ k' = k + 1
  /\ UNCHANGED <<drawing, part, paint, luma, chroma, last, captured>>

-------------------------------------------------------------------------------
(* One dot of draw_landmark.                                               *)

DotRounds == 16

DotIndex(n) ==
  (part[2] - 2) + (Height - part[1] - 2) * Width + (n % 4) + (n \div 4) * Width

(* Mutant of DotSkipped: only the end of the plane is tested.              *)
DotSkippedPast(n) == DotIndex(n) > YSize

DotSkipped(n) == DotIndex(n) > YSize \/ DotIndex(n) < 0

Dotting == drawing = "dot" /\ k < DotRounds

DrawDot ==
  /\ Dotting
  /\ ~DotSkipped(k)
  /\ luma' = [luma EXCEPT ![DotIndex(k)] = Dot]
  /\ last' = [last EXCEPT !.y = DotIndex(k)]
  /\ k' = k + 1
  /\ UNCHANGED <<drawing, part, paint, chroma, captured>>

SkipDot ==
  /\ Dotting
  /\ DotSkipped(k)
  /\ k' = k + 1
  /\ UNCHANGED <<drawing, part, paint, luma, chroma, last, captured>>

-------------------------------------------------------------------------------

Drawn == ~Copying /\ ~Dotting

(* A capture exchanges the bytes of every chroma pair.                     *)
Swapped(c) == [n \in DOMAIN c |-> IF n % 2 = 0 THEN c[n + 1] ELSE c[n - 1]]

Capture ==
  /\ Drawn /\ ~captured
  /\ chroma' = Swapped(chroma)
  /\ captured' = TRUE
  /\ UNCHANGED <<drawing, part, paint, k, luma, last>>

(* Stickers as the runs paint them: plain ones, one that only its outline  *)
(* leaves out, and one with all three kinds of pixels side by side.        *)
Paints ==
  {[n \in 0 .. StickerYSize - 1 |-> b] : b \in Brightness}
  \cup {[n \in 0 .. StickerYSize - 1 |->
           IF n % Side \in {0, Side - 1} \/ n \div Side \in {0, Side - 1}
           THEN "bright" ELSE "dark"],
        [n \in 0 .. StickerYSize - 1 |->
           CASE n % 3 = 0 -> "dark" [] n % 3 = 1 -> "mid" [] OTHER -> "bright"]}

(* Cell YSize of luma stands for the byte after the plane.                 *)
Init ==
  /\ drawing \in {"hat", "beard", "dot"}
  /\ part \in (-Reach .. Height + Reach) \X (-Reach .. Width + Reach)
  /\ paint \in Paints
  /\ k = 0
  /\ luma = [n \in 0 .. YSize |-> Frame]
  /\ chroma = [n \in 0 .. UVSize - 1 |-> Frame]
  /\ last = [y |-> 0, uv |-> 0, data |-> StickerYSize]
  /\ captured = FALSE

Next == CopyPixel \/ SkipPixel \/ DrawDot \/ SkipDot \/ Capture

Spec == Init /\ [][Next]_vars

-------------------------------------------------------------------------------
(* Properties.                                                             *)

(* Every byte comes from where a byte can come from.                       *)
PixelsTypeOK ==
  /\ drawing \in {"hat", "beard", "dot"}
  /\ part \in Int \X Int
  /\ paint \in [0 .. StickerYSize - 1 -> Brightness]
  /\ k \in Nat
  /\ luma \in [0 .. YSize -> {Frame, Dot} \cup 0 .. StickerYSize - 1]
  /\ chroma \in [0 .. UVSize - 1 -> {Frame} \cup StickerYSize .. StickerSize - 1]
  /\ captured \in BOOLEAN

(* Wherever the landmark lies, a sticker's copy writes inside both planes, *)
(* both bytes of a pair included, and reads inside the sticker's data: one *)
(* test of two indices has to do for two planes and a position that may    *)
(* lie outside on three sides.                                             *)
CopyInPlanes ==
  drawing # "dot" =>
    /\ last.y \in 0 .. YSize - 1
    /\ last.uv \in 0 .. UVSize - 2 /\ last.uv % 2 = 0
    /\ last.data \in StickerYSize .. StickerSize - 2

(* A dot leaves the plane by one byte at most, and of a landmark that the  *)
(* frame's rows reach only where the plane ends: within a dot of the last  *)
(* row and of one of its ends.                                             *)
DotNearPlane ==
  drawing = "dot" =>
    /\ last.y \in 0 .. YSize
    /\ last.y = YSize /\ part[2] \in 0 .. Width - 1
         => part[1] \in -2 .. 2 /\ part[2] \in {0, 1, 2, Width - 1}

(* A pixel of the sticker's box, in the coordinates of the frame.          *)
InBox(x, row) == x \in P .. P + Side - 1 /\ row \in Q .. Q + Side - 1

StickerAt(x, row) == (x - P) + (row - Q) * Side

OpaqueAt(x, row) ==
  InBox(x, row) /\ paint[StickerAt(x, row)] # IF drawing = "beard" THEN "dark" ELSE "bright"

(* A sticker that does not reach past the right edge is placed exactly:    *)
(* its opaque pixels that fall on the frame cover it, nothing else does,   *)
(* also when it hangs over the other three edges.                          *)
PlacedExactly ==
  Drawn /\ drawing # "dot" /\ P + Side <= Width =>
    \A x \in 0 .. Width - 1, row \in 0 .. Height - 1 :
      luma[x + row * Width] =
        IF OpaqueAt(x, row) THEN StickerAt(x, row) ELSE Frame

(* The chroma pair of a place, and of the sticker's pixel on it.           *)
PairAt(x, row) == (x \div 2) * 2 + (row \div 2) * Width

DataAt(x, row) ==
  StickerYSize + ((x - P) \div 2) * 2 + ((row - Q) \div 2) * Side

(* Its colours are those of its own pixels: a chroma pair comes from the   *)
(* block of the sticker that the luma of its four pixels comes from, which *)
(* needs positions that were made even, and in a photo the two bytes stand *)
(* in the order in which the sticker's file was decoded.                   *)
PhotoColours ==
  captured /\ drawing # "dot" /\ P + Side <= Width =>
    \A x \in 0 .. Width - 1, row \in 0 .. Height - 1 :
      OpaqueAt(x, row) =>
        /\ chroma[PairAt(x, row)] = DataAt(x, row)
        /\ chroma[PairAt(x, row) + 1] = DataAt(x, row) + 1

(* What reaches past the right edge comes out at the left one, but only in *)
(* the rows of the box and the row after it, unless the landmark lies a    *)
(* whole width beyond the edge.                                            *)
RowsBounded ==
  drawing # "dot" /\ P + Side <= 2 * Width =>
    \A x \in 0 .. Width - 1, row \in 0 .. Height - 1 :
      luma[x + row * Width] # Frame => row \in Q .. Q + Side

(* A dot covers the byte that face_landmark had turned into its landmark,  *)
(* and a sticker's middle, give or take two pixels, lies on it: turning    *)
(* the frame and placing on it use different formulas.                     *)
OnLandmark ==
  Drawn =>
    \A n \in 0 .. YSize - 1 :
      Turned(n) = <<part[2], part[1]>> =>
        /\ drawing = "dot" => luma[n] = Dot
        /\ drawing # "dot" =>
             /\ (n % Width) - P - Side \div 2 \in {-1, 0}
             /\ n \div Width - Q - Side \div 2 \in {-2, -1}

===============================================================================
