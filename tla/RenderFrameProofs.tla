-------------------------- MODULE RenderFrameProofs --------------------------
(***************************************************************************)
(* Proofs about RenderFrame, for every call a host can make: any window,   *)
(* any image in memory, any parameters.  First come facts about the        *)
(* rectangles and views of FrameWindow: clipping, and that the pixels of   *)
(* an image that passes validateOutputView lie apart.                      *)
(***************************************************************************)
EXTENDS RenderFrame, SequenceTheorems, TLAPS

-----------------------------------------------------------------------------
(* FrameWindow *)

(* The coordinates of a rectangle are integers. *)
LEMMA RectCoordinates ==
  ASSUME NEW r \in Rects
  PROVE  /\ r.x1 \in Int /\ r.y1 \in Int /\ r.x2 \in Int /\ r.y2 \in Int
         /\ Width(r) \in Nat /\ Height(r) \in Nat
BY DEF Rects, Width, Height, Larger

(* Clipping a render window to the bounds of an image (clipToBounds) leaves *)
(* exactly the pixels that are in both, whatever the two rectangles are.    *)
THEOREM IntersectContains ==
  ASSUME NEW a \in Rects, NEW b \in Rects, NEW x \in Int, NEW y \in Int
  PROVE  Contains(Intersect(a, b), x, y) <=> Contains(a, x, y) /\ Contains(b, x, y)
<1> DEFINE r == Rect(Larger(a.x1, b.x1), Larger(a.y1, b.y1),
                     Smaller(a.x2, b.x2), Smaller(a.y2, b.y2))
<1>1. /\ r \in Rects
      /\ Contains(r, x, y) <=> Contains(a, x, y) /\ Contains(b, x, y)
  BY RectCoordinates DEF Rects, Rect, Larger, Smaller, Contains
<1>2. CASE IsEmpty(r)
  <2>1. ~Contains(r, x, y)
    BY <1>1, <1>2, RectCoordinates DEF IsEmpty, Width, Height, Larger, Contains
  <2>2. ~Contains(Rect(r.x1, r.y1, r.x1, r.y1), x, y)
    BY <1>1, RectCoordinates DEF Contains, Rect
  <2> QED  BY <1>1, <1>2, <2>1, <2>2 DEF Intersect
<1>3. CASE ~IsEmpty(r)
  BY <1>1, <1>3 DEF Intersect
<1> QED  BY <1>2, <1>3

(* A clipped rectangle is a rectangle. *)
LEMMA IntersectRect ==
  ASSUME NEW a \in Rects, NEW b \in Rects
  PROVE  Intersect(a, b) \in Rects
BY RectCoordinates DEF Intersect, Rects, Rect, Larger, Smaller, IsEmpty, Width, Height

(* The loops over a window visit the pixels that contains() says are in it. *)
LEMMA PixelsContained ==
  ASSUME NEW r \in Rects, NEW p
  PROVE  p \in Pixels(r) <=> /\ p \in Int \X Int
                             /\ Contains(r, p[1], p[2])
<1>1. ASSUME p \in Pixels(r)
      PROVE  p \in Int \X Int /\ Contains(r, p[1], p[2])
  <2>1. /\ p \in Columns(r) \X Lines(r)
        /\ p[1] \in Columns(r) /\ p[2] \in Lines(r)
    BY <1>1 DEF Pixels
  <2> QED  BY <2>1, RectCoordinates DEF Columns, Lines, Contains
<1>2. ASSUME p \in Int \X Int, Contains(r, p[1], p[2])
      PROVE  p \in Pixels(r)
  <2>1. p = <<p[1], p[2]>> /\ p[1] \in Int /\ p[2] \in Int
    BY <1>2
  <2>2. p[1] \in Columns(r) /\ p[2] \in Lines(r)
    BY <1>2, <2>1, RectCoordinates DEF Columns, Lines, Contains
  <2> QED  BY <2>1, <2>2 DEF Pixels
<1> QED  BY <1>1, <1>2

(* The pixels a window is clipped to are those it shares with the image. *)
LEMMA ClippedPixels ==
  ASSUME NEW a \in Rects, NEW b \in Rects
  PROVE  Pixels(Intersect(a, b)) = Pixels(a) \cap Pixels(b)
<1> SUFFICES ASSUME NEW p
             PROVE  p \in Pixels(Intersect(a, b)) <=> p \in Pixels(a) /\ p \in Pixels(b)
  OBVIOUS
<1>1. p \in Int \X Int => p[1] \in Int /\ p[2] \in Int
  OBVIOUS
<1>2. /\ p \in Pixels(a) <=> p \in Int \X Int /\ Contains(a, p[1], p[2])
      /\ p \in Pixels(b) <=> p \in Int \X Int /\ Contains(b, p[1], p[2])
      /\ p \in Pixels(Intersect(a, b))
           <=> p \in Int \X Int /\ Contains(Intersect(a, b), p[1], p[2])
  BY PixelsContained, IntersectRect
<1> QED  BY <1>1, <1>2, IntersectContains

-----------------------------------------------------------------------------

(* A pixel is a whole number of bytes wide, and so is its distance. *)
LEMMA AddressIsInteger ==
  ASSUME NEW v \in Views, NEW x \in Int, NEW y \in Int
  PROVE  /\ PixelStride(v) \in Nat
         /\ v.rowBytes \in Int /\ v.bounds \in Rects
         /\ PixelAddress(v, x, y) \in Int
         /\ PixelBytes(v, x, y) \subseteq Int
<1>1. /\ v.bounds \in Rects /\ v.rowBytes \in Int
      /\ v.components \in Components /\ v.depth \in Depths
  BY DEF Views
<1>2. ComponentCount(v.components) \in {0, 1, 3, 4}
  BY <1>1 DEF Components, ComponentCount
<1>3. BytesPerComponent(v.depth) \in {0, 1, 2, 4}
  BY <1>1 DEF Depths, BytesPerComponent
<1>4. PixelStride(v) \in Nat
  BY <1>2, <1>3 DEF PixelStride
<1>5. /\ (y - v.bounds.y1) * v.rowBytes \in Int
      /\ (x - v.bounds.x1) * PixelStride(v) \in Int
  BY <1>1, <1>4, RectCoordinates
<1>6. PixelAddress(v, x, y) \in Int
  BY <1>5 DEF PixelAddress
<1>7. PixelBytes(v, x, y) \subseteq Int
  BY <1>4, <1>6 DEF PixelBytes
<1> QED  BY <1>1, <1>4, <1>6, <1>7

(* Multiplication by a natural number keeps the order. *)
LEMMA TimesKeepsOrder ==
  ASSUME NEW a \in Int, NEW b \in Int, NEW s \in Nat, a <= b
  PROVE  a * s <= b * s
OBVIOUS

(* Two pixels of a line: the one further right starts after the other.     *)
(* Two lines: a stride that holds the bounds keeps them apart, whichever   *)
(* way the image lies in memory.                                           *)
LEMMA LinesApart ==
  ASSUME NEW dy \in Nat \ {0}, NEW r \in Int, NEW w \in Nat \ {0}, NEW s \in Nat,
         NEW dx \in Int, -w < dx, dx < w, Magnitude(r) >= w * s
  PROVE  \/ dy * r + dx * s >= s
         \/ dy * r + dx * s <= -s
<1>1. /\ (1 - w) * s <= dx * s
      /\ dx * s <= (w - 1) * s
  BY TimesKeepsOrder, 1 - w <= dx, dx <= w - 1
<1>2. /\ (1 - w) * s = s - w * s
      /\ (w - 1) * s = w * s - s
      /\ w * s \in Nat /\ dx * s \in Int /\ dy * r \in Int
  OBVIOUS
<1>3. CASE r >= 0
  <2>1. 1 * r <= dy * r
    BY <1>3
  <2> QED  BY <1>1, <1>2, <1>3, <2>1 DEF Magnitude
<1>4. CASE r < 0
  <2>1. dy * r <= 1 * r
    BY <1>4
  <2> QED  BY <1>1, <1>2, <1>4, <2>1 DEF Magnitude
<1> QED  BY <1>3, <1>4

(* The distance of the addresses of two pixels. *)
LEMMA AddressDistance ==
  ASSUME NEW v \in Views, NEW x \in Int, NEW y \in Int, NEW x2 \in Int, NEW y2 \in Int
  PROVE  PixelAddress(v, x2, y2) - PixelAddress(v, x, y)
           = (y2 - y) * v.rowBytes + (x2 - x) * PixelStride(v)
<1> DEFINE s == PixelStride(v)
           r == v.rowBytes
           x0 == v.bounds.x1
           y0 == v.bounds.y1
<1>1. s \in Int /\ r \in Int /\ x0 \in Int /\ y0 \in Int
  <2>1. PixelStride(v) \in Nat /\ v.rowBytes \in Int /\ v.bounds \in Rects
    BY AddressIsInteger
  <2>2. v.bounds.x1 \in Int /\ v.bounds.y1 \in Int
    BY <2>1, RectCoordinates
  <2> QED  BY <2>1, <2>2
<1> HIDE DEF s, r, x0, y0
<1>2. ((y2 - y0) * r + (x2 - x0) * s) - ((y - y0) * r + (x - x0) * s)
        = (y2 - y) * r + (x2 - x) * s
  BY <1>1
<1> QED  BY <1>2 DEF PixelAddress, s, r, x0, y0

(* Two pixels that start at least a pixel apart share no byte. *)
LEMMA BytesApart ==
  ASSUME NEW v \in Views, NEW x \in Int, NEW y \in Int, NEW x2 \in Int, NEW y2 \in Int,
         \/ PixelAddress(v, x2, y2) - PixelAddress(v, x, y) >= PixelStride(v)
         \/ PixelAddress(v, x2, y2) - PixelAddress(v, x, y) <= -PixelStride(v)
  PROVE  PixelBytes(v, x, y) \cap PixelBytes(v, x2, y2) = {}
BY AddressIsInteger DEF PixelBytes

(* No byte of an image that passes validateOutputView belongs to two        *)
(* pixels: writePixel never damages a pixel it is not asked to write,       *)
(* whether lines are padded or stored upside down.                          *)
THEOREM PixelsApart ==
  ASSUME NEW v \in Views, RowBytesCanHoldBounds(v),
         NEW x \in Int, NEW y \in Int, NEW x2 \in Int, NEW y2 \in Int,
         Contains(v.bounds, x, y), Contains(v.bounds, x2, y2),
         <<x, y>> # <<x2, y2>>
  PROVE  PixelBytes(v, x, y) \cap PixelBytes(v, x2, y2) = {}
<1> DEFINE s == PixelStride(v)
           r == v.rowBytes
           w == Width(v.bounds)
<1>1. /\ s \in Nat /\ r \in Int /\ w \in Nat \ {0}
      /\ -w < x2 - x /\ x2 - x < w
  BY AddressIsInteger, RectCoordinates DEF Contains, Width, Larger
<1>2. Magnitude(r) >= w * s
  BY DEF RowBytesCanHoldBounds
<1>3. ASSUME \/ (y2 - y) * r + (x2 - x) * s >= s
             \/ (y2 - y) * r + (x2 - x) * s <= -s
      PROVE  PixelBytes(v, x, y) \cap PixelBytes(v, x2, y2) = {}
  <2>1. PixelAddress(v, x2, y2) - PixelAddress(v, x, y)
          = (y2 - y) * v.rowBytes + (x2 - x) * PixelStride(v)
    BY AddressDistance
  <2>2. \/ PixelAddress(v, x2, y2) - PixelAddress(v, x, y) >= PixelStride(v)
        \/ PixelAddress(v, x2, y2) - PixelAddress(v, x, y) <= -PixelStride(v)
    BY <1>3, <2>1
  <2> QED  BY <2>2, BytesApart
<1> HIDE DEF s, r, w
<1>4. CASE y = y2
  <2>1. (y2 - y) * r + (x2 - x) * s = (x2 - x) * s
    BY <1>1, <1>4
  <2>2. CASE x < x2
    <3>1. 1 * s <= (x2 - x) * s
      <4>1. 1 <= x2 - x
        BY <2>2
      <4> QED  BY <1>1, <4>1, TimesKeepsOrder
    <3> QED  BY <1>1, <1>3, <2>1, <3>1
  <2>3. CASE x2 < x
    <3>1. (x2 - x) * s <= (-1) * s
      <4>1. x2 - x <= -1
        BY <2>3
      <4> QED  BY <1>1, <4>1, TimesKeepsOrder
    <3> QED  BY <1>1, <1>3, <2>1, <3>1
  <2> QED  BY <1>4, <2>2, <2>3
<1>5. CASE y < y2
  <2>1. y2 - y \in Nat \ {0}
    BY <1>5
  <2>2. \/ (y2 - y) * r + (x2 - x) * s >= s
        \/ (y2 - y) * r + (x2 - x) * s <= -s
    <3> DEFINE dy == y2 - y
               dx == x2 - x
    <3>1. dy \in Nat \ {0} /\ dx \in Int /\ -w < dx /\ dx < w
      BY <1>1, <2>1
    <3> HIDE DEF dy, dx
    <3>2. dy * r + dx * s >= s \/ dy * r + dx * s <= -s
      BY <1>1, <1>2, <3>1, LinesApart
    <3> QED  BY <3>2 DEF dy, dx
  <2> QED  BY <1>3, <2>2
<1>6. CASE y2 < y
  <2>1. y - y2 \in Nat \ {0} /\ -w < x - x2 /\ x - x2 < w
    BY <1>1, <1>6
  <2>2. \/ (y - y2) * r + (x - x2) * s >= s
        \/ (y - y2) * r + (x - x2) * s <= -s
    <3> DEFINE dy == y - y2
               dx == x - x2
    <3>1. dy \in Nat \ {0} /\ dx \in Int /\ -w < dx /\ dx < w
      BY <1>1, <2>1
    <3> HIDE DEF dy, dx
    <3>2. dy * r + dx * s >= s \/ dy * r + dx * s <= -s
      BY <1>1, <1>2, <3>1, LinesApart
    <3> QED  BY <3>2 DEF dy, dx
  <2>3. (y - y2) * r + (x - x2) * s = -((y2 - y) * r + (x2 - x) * s)
    BY <1>1
  <2> QED  BY <1>1, <1>3, <2>2, <2>3
<1> QED  BY <1>4, <1>5, <1>6

(* A view that validateOutputView or validateInputView accepts and that has *)
(* pixels has a stride that holds its bounds.                               *)
LEMMA AcceptedStride ==
  ASSUME NEW v \in Views, NEW f, Validated(v, f) \in Successes,
         NEW x \in Int, NEW y \in Int, Contains(v.bounds, x, y)
  PROVE  RowBytesCanHoldBounds(v) /\ v.data
<1>1. Width(v.bounds) > 0
  BY RectCoordinates DEF Views, Contains, Width, Larger
<1>2. v.data
  BY DEF Validated, Successes, Views
<1> QED  BY <1>1, <1>2 DEF Validated, Successes

-----------------------------------------------------------------------------
(* RenderFrame *)

(* The places of a call, and what is known there of what is drawn, of the  *)
(* panel and of the parameters that led there.                             *)
PlaceInv ==
  /\ frame \in FrameType
  /\ step \in {"begin", "infer", "readback"} => kind = "none" /\ memory = <<>>
  /\ step = "begin" => panel.guide = "old"
  /\ step \in {"infer", "readback"} =>
       /\ frame.hasMode /\ frame.bundle /\ frame.choices.mode \in OutputModesOfInference
       /\ ~IsEmpty(frame.window)
  /\ step \in {"infer", "readback", "writing"} => panel.guide = Hint.status
  /\ step = "readback" => panel.lastError \in {"", "diagnostic"}
  /\ step = "writing" =>
       \/ kind = "copied" /\ ~frame.hasMode
       \/ kind = "hint" /\ frame.hasMode /\ frame.choices.mode = 3
       \/ /\ kind = "keyed" /\ frame.hasMode /\ frame.choices.mode \in OutputModesOfInference
          /\ panel.lastError \in {"", "diagnostic"}

HintInv ==
  /\ kind = "hint" => panel.guide = Hint.status
  /\ kind = "hint" => \A b \in DOMAIN memory : \E p \in Target : memory[b][1] = Hint.values[p]

FrameInv ==
  TypeOK /\ PlaceInv /\ OnlyTheWindow /\ HintInv /\ NoStaleError /\ OpaqueFrames

-----------------------------------------------------------------------------
(* What the operators of the module return. *)

LEMMA FrameFields ==
  ASSUME frame \in FrameType
  PROVE  /\ frame.window \in Rects /\ frame.out \in Views /\ frame.source \in Views
         /\ frame.out.bounds \in Rects
         /\ frame.choices.mode \in 0 .. 5 /\ frame.choices.hint \in 0 .. 3
         /\ frame.outputStatus \in {"OK", "Failed"}
         /\ frame.sourceStatus \in {"OK", "Failed", "ErrBadHandle"}
         /\ frame.hasMode \in BOOLEAN /\ frame.bundle \in BOOLEAN
         /\ WriteWindow \in Rects /\ WriteWindow.y1 \in Int
         /\ Pixels(WriteWindow) = Target
         /\ Target \subseteq Pixels(frame.window)
<1>1. frame.window \in Rects /\ frame.out \in Views /\ frame.out.bounds \in Rects
  BY DEF FrameType, Views
<1>2. /\ frame.choices.mode \in 0 .. 5 /\ frame.choices.hint \in 0 .. 3
      /\ frame.outputStatus \in {"OK", "Failed"}
      /\ frame.sourceStatus \in {"OK", "Failed", "ErrBadHandle"}
      /\ frame.hasMode \in BOOLEAN /\ frame.bundle \in BOOLEAN /\ frame.source \in Views
  BY DEF FrameType
<1>3. WriteWindow \in Rects /\ Pixels(WriteWindow) = Target
  BY <1>1, IntersectRect, ClippedPixels DEF WriteWindow, Target
<1>4. WriteWindow.y1 \in Int /\ Target \subseteq Pixels(frame.window)
  BY <1>3, RectCoordinates DEF Target
<1> QED  BY <1>1, <1>2, <1>3, <1>4

(* The host gets one of the statuses of OpenFX. *)
LEMMA StatusesReturned ==
  ASSUME NEW s \in FormatStatus, NEW v
  PROVE  OfxStatus(s) \in Statuses /\ ImageView(v, s) \in Statuses
BY DEF FormatStatus, Successes, OfxStatus, ImageView, Statuses

LEMMA FormatStatuses ==
  ASSUME NEW v
  PROVE  /\ InputFormatStatus(v) \in FormatStatus
         /\ OutputFormatStatus(v) \in FormatStatus
         /\ ValidateOutputView(v) \in FormatStatus
<1>1. /\ InputFormatStatus(v) \in FormatStatus
      /\ OutputFormatStatus(v) \in FormatStatus
  BY DEF InputFormatStatus, InputDepthStatus, OutputFormatStatus, FormatStatus, Successes
<1>2. ASSUME NEW f \in FormatStatus
      PROVE  Validated(v, f) \in FormatStatus
  <2>1. CASE ~v.data
    BY <2>1 DEF Validated, FormatStatus
  <2>2. CASE v.data /\ f \notin Successes
    BY <1>2, <2>2 DEF Validated
  <2>3. CASE v.data /\ f \in Successes
    BY <1>2, <2>3 DEF Validated, FormatStatus
  <2> QED  BY <2>1, <2>2, <2>3
<1> QED  BY <1>1, <1>2 DEF ValidateOutputView

LEMMA FillStatuses ==
  ASSUME NEW what
  PROVE  OfxStatus(FillStatus(what)) \in Statuses
BY FormatStatuses, StatusesReturned DEF FillStatus

(* A hint that warns exactly if it is made of the fallback. *)
Honest(h, window) ==
  /\ h.status \in HintStatus
  /\ \A p \in Pixels(window) : h.status \in Warnings <=> h.values[p] = Fallback

LEMMA FallbackIsHonest ==
  ASSUME NEW window, NEW status \in Warnings
  PROVE  Honest(FallbackHint(window, status), window)
BY DEF Honest, FallbackHint, HintStatus

LEMMA ExtractedIsHonest ==
  ASSUME NEW image \in {"source alpha", "hint red", "hint alpha"}, NEW v, NEW window,
         NEW channel, NEW status \in HintStatus \ Warnings
  PROVE  Honest(ExtractChannel(image, v, window, channel, status), window)
<1>1. CASE /\ ValidateHintView(v, channel) \in Successes
           /\ \A p \in Pixels(window) : Contains(v.bounds, p[1], p[2])
  <2>1. \A p : <<image, p[1], p[2]>> # Fallback
    BY DEF Fallback
  <2> QED  BY <1>1, <2>1 DEF ExtractChannel, Honest
<1>2. CASE ~ /\ ValidateHintView(v, channel) \in Successes
             /\ \A p \in Pixels(window) : Contains(v.bounds, p[1], p[2])
  <2>1. ExtractChannel(image, v, window, channel, status)
          = FallbackHint(window, "invalid_hint_fallback")
    BY <1>2 DEF ExtractChannel
  <2>2. "invalid_hint_fallback" \in Warnings
    BY DEF Warnings
  <2> QED  BY <2>1, <2>2, FallbackIsHonest
<1> QED  BY <1>1, <1>2

(* The hint of the call, wherever it comes from. *)
LEMMA HintTruth == Honest(Hint, frame.window)
<1>1. /\ {"rough_fallback_used", "missing_hint_fallback"} \subseteq Warnings
      /\ {"external_present", "source_alpha_used", "red_channel_used"} \subseteq HintStatus \ Warnings
  BY DEF Warnings, HintStatus
<1>2. CASE frame.choices.hint = 1
  BY <1>1, <1>2, FallbackIsHonest, ExtractedIsHonest DEF Hint, ResolveAlphaHint
<1>3. CASE frame.choices.hint = 2
  BY <1>1, <1>3, FallbackIsHonest, ExtractedIsHonest DEF Hint, ResolveAlphaHint
<1>4. CASE frame.choices.hint = 3
  BY <1>1, <1>4, FallbackIsHonest DEF Hint, ResolveAlphaHint
<1>5. CASE frame.choices.hint \notin {1, 2, 3}
  BY <1>1, <1>5, FallbackIsHonest, ExtractedIsHonest DEF Hint, ResolveAlphaHint
<1> QED  BY <1>2, <1>3, <1>4, <1>5

-----------------------------------------------------------------------------
(* Writing. *)

LEMMA WrittenByPixels ==
  ASSUME NEW what, NEW pixels, NEW b \in DOMAIN Written(what, pixels)
  PROVE  \E p \in pixels : /\ b \in PixelBytes(frame.out, p[1], p[2])
                           /\ Written(what, pixels)[b][1] = Pixel(what, p)
<1> DEFINE Bytes(p) == PixelBytes(frame.out, p[1], p[2])
           P == CHOOSE q \in pixels : b \in Bytes(q)
<1>1. \E q \in pixels : b \in Bytes(q)
  BY DEF Written
<1>2. P \in pixels /\ b \in Bytes(P)
  BY <1>1
<1>3. Written(what, pixels)[b] = <<Pixel(what, P), b - PixelAddress(frame.out, P[1], P[2])>>
  BY DEF Written
<1>4. Written(what, pixels)[b][1] = Pixel(what, P)
  BY <1>3
<1> QED  BY <1>2, <1>4

(* What an action may do to the bytes: write some pixels of the target. *)
Draws(what, pixels) ==
  /\ pixels \subseteq Target
  /\ memory' \in {memory, Over(Written(what, pixels), memory)}

LEMMA DrawnBytes ==
  ASSUME NEW what, NEW pixels, Draws(what, pixels), NEW b \in DOMAIN memory'
  PROVE  \/ b \in DOMAIN memory /\ memory'[b] = memory[b]
         \/ \E p \in Target : /\ b \in PixelBytes(frame.out, p[1], p[2])
                              /\ memory'[b][1] = Pixel(what, p)
<1> DEFINE W == Written(what, pixels)
<1>1. CASE memory' = memory
  BY <1>1
<1>2. CASE memory' = Over(W, memory) /\ b \in DOMAIN W
  <2>1. memory'[b] = W[b]
    BY <1>2 DEF Over
  <2> QED  BY <1>2, <2>1, WrittenByPixels DEF Draws
<1>3. CASE memory' = Over(W, memory) /\ b \notin DOMAIN W
  BY <1>3 DEF Over
<1> QED  BY <1>1, <1>2, <1>3 DEF Draws

LEMMA DrawnInWindow ==
  ASSUME frame \in FrameType, frame' = frame, OnlyTheWindow,
         NEW what, NEW pixels, Draws(what, pixels)
  PROVE  OnlyTheWindow' /\ (DOMAIN memory' \subseteq Int)
<1>1. OnlyTheWindow'
  BY DrawnBytes DEF OnlyTheWindow, Target
<1>2. ASSUME NEW b \in DOMAIN memory'
      PROVE  b \in Int
  <2>1. PICK p \in Target : b \in PixelBytes(frame.out, p[1], p[2])
    BY <1>1 DEF OnlyTheWindow, Target
  <2>2. p[1] \in Int /\ p[2] \in Int
    <3>1. p \in Int \X Int
      BY <2>1, FrameFields, PixelsContained
    <3> QED  BY <3>1
  <2> QED  BY <2>1, <2>2, FrameFields, AddressIsInteger
<1> QED  BY <1>1, <1>2

(* The pixels of status frames and of checker composites are opaque. *)
LEMMA DrawnOpaque ==
  ASSUME frame' = frame, OpaqueFrames, NEW what, NEW pixels, Draws(what, pixels),
         frame.hasMode /\ frame.sourceStatus = "OK"
           /\ OutputPremultiplication(frame.choices.mode) = "opaque"
           => what = "status" \/ (what = "keyed" /\ frame.choices.mode = 4)
  PROVE  OpaqueFrames'
<1>1. \A p : Pixel("status", p)[1] = "status"
  BY DEF Pixel
<1>2. frame.choices.mode = 4 => \A p : Pixel("keyed", p)[1] = "checker"
  BY DEF Pixel, KeyedPixel
<1> QED  BY <1>1, <1>2, DrawnBytes DEF OpaqueFrames

(* Filling the window draws pixels of the target and ends the call. *)
LEMMA FillDraws ==
  ASSUME frame \in FrameType, NEW what, Fill(what)
  PROVE  /\ Draws(what, Pixels(WriteWindow))
         /\ kind' = what /\ step' = "done" /\ line' = line
         /\ result' \in Statuses
BY FrameFields, FillStatuses DEF Fill, Draws, Return

-----------------------------------------------------------------------------
(* The steps. *)

(* A call that is over keeps its promises about the panel if it did not ask *)
(* for an inference, or if it cleared the panel or showed the failure.      *)
LEMMA PanelAtEnd ==
  ASSUME frame' = frame,
         \/ panel'.guide = "old" \/ result' = "ErrUnknown"
         \/ ~frame.hasMode \/ ~frame.bundle
         \/ frame.choices.mode \notin OutputModesOfInference
         \/ kind' = "status" /\ panel'.lastError = "failure"
         \/ kind' = "keyed" /\ panel'.lastError \in {"", "diagnostic"}
  PROVE  NoStaleError'
BY DEF NoStaleError

(* A call that goes on makes no promise yet. *)
LEMMA NotYetDone ==
  ASSUME step' # "done"
  PROVE  NoStaleError'
BY DEF NoStaleError

LEMMA InitFrameInv == Init => FrameInv
<1> SUFFICES ASSUME Init PROVE FrameInv
  OBVIOUS
<1>1. frame \in FrameType
  BY FramesAssumption DEF Init
<1>2. DOMAIN memory = {}
  BY DEF Init
<1>3. TypeOK
  <2>1. reply \in Replies
    BY DEF Init, Replies
  <2>2. /\ step \in {"begin", "infer", "readback", "writing", "done"}
        /\ kind \in Kinds /\ result \in Statuses
    BY DEF Init, Kinds, Statuses
  <2>3. line \in Int
    BY DEF Init
  <2>4. aborted \in BOOLEAN
    BY DEF Init
  <2>5. panel \in [state : {"old", "ready", "error", "cancelled"},
                   lastError : {"old", "", "diagnostic", "failure"},
                   guide : HintStatus \cup {"old"}]
    BY DEF Init
  <2> QED  BY <1>1, <1>2, <2>1, <2>2, <2>3, <2>4, <2>5 DEF TypeOK
<1> QED
  BY <1>1, <1>2, <1>3
     DEF Init, FrameInv, PlaceInv, OnlyTheWindow, HintInv, NoStaleError, OpaqueFrames

(* A step that ends the call with a filled window: the status frame, or a  *)
(* transparent one if there is no source.                                  *)
LEMMA FilledKeepsInv ==
  ASSUME FrameInv, NEW what \in {"status", "clear"}, Fill(what),
         frame' = frame, aborted' = aborted, reply' = reply,
         what = "clear" => frame.sourceStatus = "Failed",
         panel' \in [state : {"old", "ready", "error", "cancelled"},
                     lastError : {"old", "", "diagnostic", "failure"},
                     guide : HintStatus \cup {"old"}],
         NoStaleError'
  PROVE  FrameInv'
<1>1. /\ Draws(what, Pixels(WriteWindow))
      /\ kind' = what /\ step' = "done" /\ line' = line /\ result' \in Statuses
  BY FillDraws DEF FrameInv, PlaceInv
<1>2. OnlyTheWindow' /\ DOMAIN memory' \subseteq Int
  BY <1>1, DrawnInWindow DEF FrameInv, PlaceInv
<1>3. OpaqueFrames'
  <2>1. what = "clear" => frame.sourceStatus # "OK"
    OBVIOUS
  <2> QED  BY <1>1, <2>1, DrawnOpaque DEF FrameInv
<1>4. TypeOK'
  BY <1>1, <1>2 DEF FrameInv, TypeOK, Kinds
<1>5. PlaceInv' /\ HintInv'
  BY <1>1 DEF FrameInv, PlaceInv, HintInv
<1> QED  BY <1>2, <1>3, <1>4, <1>5 DEF FrameInv

LEMMA RefuseStep ==
  ASSUME FrameInv, Refuse
  PROVE  FrameInv'
<1>1. result' \in Statuses
  BY FrameFields, FormatStatuses, StatusesReturned
     DEF FrameInv, PlaceInv, Refuse, Return, Refused, OfxStatus, Successes, Statuses
<1>2. NoStaleError'
  BY PanelAtEnd DEF FrameInv, PlaceInv, Refuse, Call
<1>3. TypeOK'
  BY <1>1 DEF FrameInv, TypeOK, Refuse, Return, Call
<1>4. PlaceInv' /\ HintInv' /\ OnlyTheWindow' /\ OpaqueFrames'
  BY DEF FrameInv, PlaceInv, HintInv, OnlyTheWindow, OpaqueFrames, Target,
         Refuse, Return, Call
<1> QED  BY <1>2, <1>3, <1>4 DEF FrameInv

LEMMA BadSourceStep ==
  ASSUME FrameInv, BadSource
  PROVE  FrameInv'
<1>1. result' \in Statuses
  <2>1. frame.sourceStatus \in Statuses
    BY FrameFields DEF FrameInv, PlaceInv, Statuses
  <2> QED  BY <2>1, FormatStatuses, StatusesReturned DEF BadSource, Return, SourceView
<1>2. NoStaleError'
  BY PanelAtEnd DEF FrameInv, PlaceInv, BadSource, Call
<1>3. TypeOK'
  BY <1>1 DEF FrameInv, TypeOK, BadSource, Return, Call
<1>4. PlaceInv' /\ HintInv' /\ OnlyTheWindow' /\ OpaqueFrames'
  BY DEF FrameInv, PlaceInv, HintInv, OnlyTheWindow, OpaqueFrames, Target,
         BadSource, Return, Call
<1> QED  BY <1>2, <1>3, <1>4 DEF FrameInv

LEMMA StatusRenderStep ==
  ASSUME FrameInv, StatusRender
  PROVE  FrameInv'
<1>1. /\ frame' = frame /\ aborted' = aborted /\ reply' = reply
      /\ Fill("status") /\ frame.choices.mode \notin OutputModesOfInference
  BY DEF StatusRender, Call, OutputModesOfInference
<1>2. panel' \in [state : {"old", "ready", "error", "cancelled"},
                  lastError : {"old", "", "diagnostic", "failure"},
                  guide : HintStatus \cup {"old"}]
  BY DEF FrameInv, TypeOK, StatusRender, Panel
<1>3. NoStaleError'
  BY <1>1, PanelAtEnd
<1> QED  BY <1>1, <1>2, <1>3, FilledKeepsInv

LEMMA ProbeFailsStep ==
  ASSUME FrameInv, ProbeFails
  PROVE  FrameInv'
<1>1. /\ frame' = frame /\ aborted' = aborted /\ reply' = reply /\ panel' = panel
      /\ Fill("status") /\ ~frame.hasMode
  BY DEF ProbeFails, Call
<1>2. NoStaleError'
  BY <1>1, PanelAtEnd
<1> QED  BY <1>1, <1>2, FilledKeepsInv DEF FrameInv, TypeOK

LEMMA NoSourceStep ==
  ASSUME FrameInv, NoSource
  PROVE  FrameInv'
<1>1. /\ frame' = frame /\ aborted' = aborted /\ reply' = reply /\ panel' = panel
      /\ Fill("clear") /\ frame.sourceStatus = "Failed" /\ panel.guide = "old"
  BY DEF NoSource, Call, FrameInv, PlaceInv
<1>2. NoStaleError'
  BY <1>1, PanelAtEnd
<1> QED  BY <1>1, <1>2, FilledKeepsInv DEF FrameInv, TypeOK

(* The panel after a hint was resolved. *)
LEMMA ShownGuide ==
  ASSUME TypeOK
  PROVE  LET shown == [panel EXCEPT !.guide = Hint.status]
         IN /\ shown \in [state : {"old", "ready", "error", "cancelled"},
                          lastError : {"old", "", "diagnostic", "failure"},
                          guide : HintStatus \cup {"old"}]
            /\ shown.guide = Hint.status
BY HintTruth DEF TypeOK, Honest

LEMMA DispatchStep ==
  ASSUME FrameInv, Dispatch
  PROVE  FrameInv'
<1> DEFINE shown == [panel EXCEPT !.guide = Hint.status]
<1>1. /\ frame' = frame /\ aborted' = aborted /\ reply' = reply /\ panel' = shown
      /\ step = "begin" /\ kind = "none" /\ memory = <<>> /\ ~IsStatusRender
      /\ frame \in FrameType
  BY DEF Dispatch, Call, FrameInv, PlaceInv, Probed
<1>2. /\ shown \in [state : {"old", "ready", "error", "cancelled"},
                    lastError : {"old", "", "diagnostic", "failure"},
                    guide : HintStatus \cup {"old"}]
      /\ shown.guide = Hint.status
  BY ShownGuide DEF FrameInv
<1>3. Hint' = Hint
  BY <1>1 DEF Hint, HintView
<1> HIDE DEF shown
<1>4. CASE /\ frame.hasMode /\ frame.choices.mode # 3 /\ ~frame.bundle
           /\ Fill("status")
  <2>1. NoStaleError'
    BY <1>1, <1>4, PanelAtEnd
  <2> QED  BY <1>1, <1>2, <1>4, <2>1, FilledKeepsInv
<1>5. ASSUME NEW what, StartWriting(what),
             \/ what = "copied" /\ ~frame.hasMode
             \/ what = "hint" /\ frame.hasMode /\ frame.choices.mode = 3
      PROVE  FrameInv'
  <2>1. /\ step' = "writing" /\ kind' = what /\ line' \in Int
        /\ memory' = <<>> /\ result' = result
    BY <1>1, <1>5, FrameFields DEF StartWriting
  <2>2. TypeOK'
    BY <1>1, <1>2, <1>5, <2>1 DEF FrameInv, TypeOK, Kinds
  <2>3. DOMAIN memory' = {}
    BY <2>1
  <2>4. HintInv' /\ OnlyTheWindow' /\ OpaqueFrames'
    BY <1>1, <1>2, <1>3, <2>1, <2>3 DEF HintInv, OnlyTheWindow, OpaqueFrames
  <2>5. PlaceInv'
    BY <1>1, <1>2, <1>3, <1>5, <2>1 DEF PlaceInv
  <2> QED  BY <2>1, <2>2, <2>4, <2>5, NotYetDone DEF FrameInv
<1>6. CASE /\ frame.hasMode /\ frame.choices.mode # 3 /\ frame.bundle
           /\ step' = "infer" /\ UNCHANGED <<kind, line, memory, result>>
  <2>1. frame.choices.mode \in OutputModesOfInference
    BY <1>1, <1>6, FrameFields DEF IsStatusRender, OutputModesOfInference
  <2>2. TypeOK'
    BY <1>1, <1>2, <1>6 DEF FrameInv, TypeOK
  <2>3. DOMAIN memory' = {}
    BY <1>1, <1>6
  <2>4. HintInv' /\ OnlyTheWindow' /\ OpaqueFrames'
    BY <1>1, <1>2, <1>3, <1>6, <2>3 DEF HintInv, OnlyTheWindow, OpaqueFrames
  <2>5. ~IsEmpty(frame.window)
    BY DEF Dispatch, Probed, Accepted
  <2>6. PlaceInv'
    BY <1>1, <1>2, <1>3, <1>6, <2>1, <2>5 DEF PlaceInv
  <2> QED  BY <1>6, <2>2, <2>4, <2>6, NotYetDone DEF FrameInv
<1> QED  BY <1>4, <1>5, <1>6 DEF Dispatch

(* A failure or a cancellation draws the status frame and tells the panel. *)
LEMMA FailureFrameStep ==
  ASSUME FrameInv, NEW state \in {"error", "cancelled"}, FailureFrame(state),
         UNCHANGED <<Call, reply>>
  PROVE  FrameInv'
<1>1. /\ frame' = frame /\ aborted' = aborted /\ reply' = reply
      /\ Fill("status") /\ panel' = Panel(state)
  BY DEF FailureFrame, Call
<1>2. /\ panel' \in [state : {"old", "ready", "error", "cancelled"},
                     lastError : {"old", "", "diagnostic", "failure"},
                     guide : HintStatus \cup {"old"}]
      /\ panel'.lastError = "failure"
  BY <1>1 DEF FrameInv, TypeOK, Panel
<1>3. kind' = "status"
  BY <1>1 DEF Fill
<1>4. NoStaleError'
  BY <1>1, <1>2, <1>3, PanelAtEnd
<1> QED  BY <1>1, <1>2, <1>4, FilledKeepsInv

LEMMA InferAnswersStep ==
  ASSUME FrameInv, InferAnswers
  PROVE  FrameInv'
<1>1. /\ frame' = frame /\ aborted' = aborted /\ step = "infer" /\ step' = "readback"
      /\ UNCHANGED <<kind, line, memory, result>> /\ reply' \in Replies
  BY DEF InferAnswers, Call
<1>2. /\ panel' \in [state : {"old", "ready", "error", "cancelled"},
                     lastError : {"old", "", "diagnostic", "failure"},
                     guide : HintStatus \cup {"old"}]
      /\ panel'.lastError \in {"", "diagnostic"} /\ panel'.guide = panel.guide
  BY DEF FrameInv, TypeOK, InferAnswers
<1>3. Hint' = Hint
  BY <1>1 DEF Hint, HintView
<1>4. TypeOK'
  BY <1>1, <1>2 DEF FrameInv, TypeOK
<1>5. PlaceInv' /\ HintInv' /\ OnlyTheWindow' /\ OpaqueFrames'
  BY <1>1, <1>2, <1>3 DEF FrameInv, PlaceInv, HintInv, OnlyTheWindow, OpaqueFrames, Target
<1> QED  BY <1>1, <1>4, <1>5, NotYetDone DEF FrameInv

LEMMA ReadBackStep ==
  ASSUME FrameInv, ReadBack
  PROVE  FrameInv'
<1>1. CASE OutputsRead
  <2>1. /\ step = "readback" /\ UNCHANGED <<Call, reply, panel>> /\ step' = "writing"
        /\ kind' = "keyed" /\ line' = WriteWindow.y1 /\ UNCHANGED <<memory, result>>
    BY <1>1 DEF ReadBack, StartWriting
  <2>2. line' \in Int
    BY <2>1, FrameFields DEF FrameInv, PlaceInv
  <2>3. Hint' = Hint
    BY <2>1 DEF Hint, HintView, Call
  <2>4. TypeOK'
    BY <2>1, <2>2 DEF FrameInv, TypeOK, Kinds, Call
  <2>5. PlaceInv' /\ HintInv' /\ OnlyTheWindow' /\ OpaqueFrames'
    BY <2>1, <2>3 DEF FrameInv, PlaceInv, HintInv, OnlyTheWindow, OpaqueFrames, Target, Call
  <2> QED  BY <2>1, <2>4, <2>5, NotYetDone DEF FrameInv
<1>2. CASE ~OutputsRead
  BY <1>2, FailureFrameStep DEF ReadBack
<1> QED  BY <1>1, <1>2

(* While lines are written, what is known of the call if the mode is one   *)
(* whose output is opaque, and what the panel says.                        *)
LEMMA WhileWriting ==
  ASSUME FrameInv, step = "writing"
  PROVE  /\ \/ ~frame.hasMode
            \/ frame.choices.mode \notin OutputModesOfInference
            \/ kind = "keyed" /\ panel.lastError \in {"", "diagnostic"}
         /\ frame.hasMode /\ frame.choices.mode \in {4, 5}
              => kind = "keyed" /\ frame.choices.mode = 4
<1>1. 3 \notin OutputModesOfInference /\ 5 \notin OutputModesOfInference /\ 3 \notin {4, 5}
  BY DEF OutputModesOfInference
<1>2. CASE kind = "copied" /\ ~frame.hasMode
  BY <1>2
<1>3. CASE kind = "hint" /\ frame.hasMode /\ frame.choices.mode = 3
  BY <1>1, <1>3
<1>4. CASE /\ kind = "keyed" /\ frame.hasMode
           /\ frame.choices.mode \in OutputModesOfInference
           /\ panel.lastError \in {"", "diagnostic"}
  <2>1. frame.choices.mode # 5
    BY <1>1, <1>4
  <2> QED  BY <1>4, <2>1
<1> QED  BY <1>2, <1>3, <1>4 DEF FrameInv, PlaceInv

LEMMA WriteLineStep ==
  ASSUME FrameInv, WriteLine
  PROVE  FrameInv'
<1>1. /\ frame' = frame /\ aborted' = aborted /\ UNCHANGED <<kind, panel, reply>>
      /\ step = "writing" /\ memory' = Over(Written(kind, Writable), memory)
      /\ frame \in FrameType
  BY DEF WriteLine, Call, FrameInv, PlaceInv
<1>2. \/ line' = line + 1 /\ step' = "writing" /\ result' = result
      \/ line' = line /\ step' = "done" /\ result' = "Failed"
  BY <1>1 DEF WriteLine, Return
<1>3. Draws(kind, Writable)
  BY <1>1, FrameFields DEF Draws, Writable, Linewise
<1>4. OnlyTheWindow' /\ DOMAIN memory' \subseteq Int
  BY <1>1, <1>3, DrawnInWindow DEF FrameInv
<1>5. OpaqueFrames'
  <2>1. frame.choices.mode \in 0 .. 5
    BY <1>1, FrameFields
  <2>2. OutputPremultiplication(frame.choices.mode) = "opaque"
          => frame.choices.mode \in {4, 5}
    BY <2>1 DEF OutputPremultiplication
  <2>3. frame.hasMode /\ frame.choices.mode \in {4, 5}
          => kind = "keyed" /\ frame.choices.mode = 4
    BY <1>1, WhileWriting
  <2>4. OpaqueFrames
    BY DEF FrameInv
  <2> QED  BY <1>1, <1>3, <2>2, <2>3, <2>4, DrawnOpaque
<1>6. Hint' = Hint /\ Target' = Target
  BY <1>1 DEF Hint, HintView, Target
<1>7. TypeOK'
  <2>1. line \in Int /\ result \in Statuses
    BY DEF FrameInv, TypeOK
  <2>2. line' \in Int
    BY <1>2, <2>1
  <2>3. result' \in Statuses /\ step' \in {"begin", "infer", "readback", "writing", "done"}
    BY <1>2, <2>1 DEF Statuses
  <2> QED  BY <1>1, <1>4, <2>2, <2>3 DEF FrameInv, TypeOK
<1>8. PlaceInv'
  BY <1>1, <1>2, <1>6 DEF FrameInv, PlaceInv
<1>9. HintInv'
  <2>1. \A p : Pixel("hint", p) = Hint.values[p]
    BY DEF Pixel
  <2> QED  BY <1>1, <1>3, <1>6, <2>1, DrawnBytes DEF FrameInv, HintInv
<1>10. NoStaleError'
  <2>1. CASE step' = "writing"
    BY <2>1, NotYetDone
  <2>2. CASE step' = "done"
    BY <1>1, WhileWriting, PanelAtEnd
  <2> QED  BY <1>2, <2>1, <2>2
<1> QED  BY <1>4, <1>5, <1>7, <1>8, <1>9, <1>10 DEF FrameInv

LEMMA TempRootMissingStep ==
  ASSUME FrameInv, TempRootMissing
  PROVE  FrameInv'
<1>1. /\ UNCHANGED <<Call, kind, line, memory, panel, reply>>
      /\ step = "infer" /\ step' = "done" /\ result' = "ErrUnknown"
  BY DEF TempRootMissing, Return
<1>2. Hint' = Hint /\ Target' = Target
  BY <1>1 DEF Hint, HintView, Target, Call
<1>3. TypeOK'
  BY <1>1 DEF FrameInv, TypeOK, Statuses, Call
<1>4. PlaceInv' /\ HintInv' /\ OnlyTheWindow' /\ OpaqueFrames'
  BY <1>1, <1>2 DEF FrameInv, PlaceInv, HintInv, OnlyTheWindow, OpaqueFrames, Call
<1>5. NoStaleError'
  BY <1>1, PanelAtEnd DEF Call
<1> QED  BY <1>3, <1>4, <1>5 DEF FrameInv

LEMMA LinesEndStep ==
  ASSUME FrameInv, LinesEnd
  PROVE  FrameInv'
<1>1. /\ UNCHANGED <<Call, kind, line, memory, panel, reply>>
      /\ step = "writing" /\ step' = "done" /\ result' = "OK"
  BY DEF LinesEnd, Return
<1>2. Hint' = Hint /\ Target' = Target
  BY <1>1 DEF Hint, HintView, Target, Call
<1>3. TypeOK'
  BY <1>1 DEF FrameInv, TypeOK, Statuses, Call
<1>4. PlaceInv' /\ HintInv' /\ OnlyTheWindow' /\ OpaqueFrames'
  BY <1>1, <1>2 DEF FrameInv, PlaceInv, HintInv, OnlyTheWindow, OpaqueFrames, Call
<1>5. NoStaleError'
  BY <1>1, WhileWriting, PanelAtEnd DEF Call
<1> QED  BY <1>3, <1>4, <1>5 DEF FrameInv

LEMMA LinesAbortedStep ==
  ASSUME FrameInv, LinesAborted
  PROVE  FrameInv'
<1>1. CASE kind = "keyed"
  BY <1>1, FailureFrameStep DEF LinesAborted
<1>2. CASE kind # "keyed"
  <2>1. /\ frame' = frame /\ aborted' = aborted /\ reply' = reply /\ panel' = panel
        /\ Fill("status") /\ step = "writing"
    BY <1>2 DEF LinesAborted, Call
  <2>2. NoStaleError'
    BY <1>2, <2>1, WhileWriting, PanelAtEnd
  <2> QED  BY <2>1, <2>2, FilledKeepsInv DEF FrameInv, TypeOK
<1> QED  BY <1>1, <1>2

LEMMA OtherStep ==
  ASSUME FrameInv, HostAborts \/ UNCHANGED vars
  PROVE  FrameInv'
<1>1. /\ UNCHANGED <<frame, step, kind, line, memory, panel, reply, result>>
      /\ aborted' \in BOOLEAN
  BY DEF HostAborts, vars, FrameInv, TypeOK
<1>2. Hint' = Hint /\ Target' = Target
  BY <1>1 DEF Hint, HintView, Target
<1>3. TypeOK'
  BY <1>1 DEF FrameInv, TypeOK
<1>4. PlaceInv' /\ HintInv' /\ OnlyTheWindow' /\ OpaqueFrames' /\ NoStaleError'
  BY <1>1, <1>2
     DEF FrameInv, PlaceInv, HintInv, OnlyTheWindow, OpaqueFrames, NoStaleError
<1> QED  BY <1>3, <1>4 DEF FrameInv

(* Every reachable state satisfies the invariant. *)
THEOREM Invariance == Spec => []FrameInv
<1>1. Init => FrameInv
  BY InitFrameInv
<1>2. FrameInv /\ [Next]_vars => FrameInv'
  <2> SUFFICES ASSUME FrameInv, [Next]_vars PROVE FrameInv'
    OBVIOUS
  <2>1. CASE Refuse  BY <2>1, RefuseStep
  <2>2. CASE StatusRender  BY <2>2, StatusRenderStep
  <2>3. CASE ProbeFails  BY <2>3, ProbeFailsStep
  <2>4. CASE NoSource  BY <2>4, NoSourceStep
  <2>5. CASE BadSource  BY <2>5, BadSourceStep
  <2>6. CASE Dispatch  BY <2>6, DispatchStep
  <2>7. CASE InferFails  BY <2>7, FailureFrameStep DEF InferFails
  <2>8. CASE InferAnswers  BY <2>8, InferAnswersStep
  <2>9. CASE ReadBack  BY <2>9, ReadBackStep
  <2>10. CASE ReadBackAborted  BY <2>10, FailureFrameStep DEF ReadBackAborted
  <2>11. CASE WriteLine  BY <2>11, WriteLineStep
  <2>12. CASE LinesEnd  BY <2>12, LinesEndStep
  <2>13. CASE LinesAborted  BY <2>13, LinesAbortedStep
  <2>14. CASE HostAborts \/ UNCHANGED vars  BY <2>14, OtherStep
  <2>15. CASE TempRootMissing  BY <2>15, TempRootMissingStep
  <2> QED
    BY <2>1, <2>2, <2>3, <2>4, <2>5, <2>6, <2>7, <2>8, <2>9, <2>10, <2>11, <2>12,
       <2>13, <2>14, <2>15 DEF Next
<1> QED  BY <1>1, <1>2, PTL DEF Spec

(* The variables keep their types, whatever the host asks for. *)
THEOREM TypeCorrect == Spec => []TypeOK
<1>1. FrameInv => TypeOK
  BY DEF FrameInv
<1> QED  BY <1>1, Invariance, PTL

(* No call writes outside of the render window or of the host's image.     *)
THEOREM WritesOnlyTheWindow == Spec => []OnlyTheWindow
<1>1. FrameInv => OnlyTheWindow
  BY DEF FrameInv
<1> QED  BY <1>1, Invariance, PTL

(* The guide status in the panel is true of every pixel that is shown.     *)
THEOREM GuideIsHonest == Spec => []GuideHonest
<1>1. FrameInv => GuideHonest
  BY FrameFields, HintTruth DEF FrameInv, PlaceInv, HintInv, GuideHonest, Honest
<1> QED  BY <1>1, Invariance, PTL

(* No error of an earlier call survives a call that asked for an inference *)
(* and had a place for its files.                                          *)
THEOREM PanelIsCurrent == Spec => []NoStaleError
<1>1. FrameInv => NoStaleError
  BY DEF FrameInv
<1> QED  BY <1>1, Invariance, PTL

(* What was declared opaque is.                                            *)
THEOREM DeclaredOpaque == Spec => []OpaqueFrames
<1>1. FrameInv => OpaqueFrames
  BY DEF FrameInv
<1> QED  BY <1>1, Invariance, PTL

-----------------------------------------------------------------------------
(* Frame blobs. *)

(* The words of a blob: the seven of the header, then the values. *)
LEMMA BlobWords ==
  ASSUME NEW b \in Rects, NEW channels \in Int, NEW n \in Nat, NEW values,
         values = [k \in 1 .. n |-> values[k]]
  PROVE  LET file == FrameBlob(b, channels, values)
         IN /\ Len(file) = HeaderWords + n
            /\ HeaderRead(file) /\ BoundsOf(file) = b /\ file[HeaderWords] = channels
            /\ \A k \in 1 .. n : file[HeaderWords + k] = values[k]
<1> DEFINE S == {"CKFB"} \cup Int \cup {values[k] : k \in 1 .. n}
           h == Header(b, channels)
           file == FrameBlob(b, channels, values)
<1>1. h \in Seq(S) /\ Len(h) = 7
  BY RectCoordinates DEF Header
<1>2. /\ h[1] = "CKFB" /\ h[2] = 1 /\ h[3] = b.x1 /\ h[4] = b.y1 /\ h[5] = b.x2
      /\ h[6] = b.y2 /\ h[7] = channels
  BY DEF Header
<1>3. values \in Seq(S) /\ Len(values) = n
  <2>1. values \in [1 .. n -> S]
    OBVIOUS
  <2> QED  BY <2>1, LenProperties
<1> HIDE DEF S, h
<1>4. file = h \o values
  BY DEF FrameBlob, h
<1>5. ASSUME NEW m \in Nat, Len(h) = m
      PROVE  /\ Len(file) = m + n
             /\ \A k \in 1 .. m : file[k] = h[k]
             /\ \A k \in 1 .. n : file[m + k] = values[k]
  <2>1. Len(h \o values) = m + n
    BY <1>1, <1>3, <1>5, ConcatProperties
  <2>2. \A k \in 1 .. m + n : (h \o values)[k] = IF k <= m THEN h[k] ELSE values[k - m]
    BY <1>1, <1>3, <1>5, ConcatProperties
  <2>3. \A k \in 1 .. m : k \in 1 .. m + n /\ k <= m
    OBVIOUS
  <2>4. \A k \in 1 .. n : m + k \in 1 .. m + n /\ ~(m + k <= m) /\ (m + k) - m = k
    OBVIOUS
  <2> QED  BY <1>4, <2>1, <2>2, <2>3, <2>4
<1> HIDE DEF file
<1>6. /\ Len(file) = 7 + n
      /\ \A k \in 1 .. 7 : file[k] = h[k]
      /\ \A k \in 1 .. n : file[7 + k] = values[k]
  BY <1>1, <1>5
<1>7. /\ file[1] = "CKFB" /\ file[2] = 1 /\ file[3] = b.x1 /\ file[4] = b.y1
      /\ file[5] = b.x2 /\ file[6] = b.y2 /\ file[7] = channels
  BY <1>2, <1>6
<1>8. BoundsOf(file) = b
  BY <1>7 DEF BoundsOf, Rect, Rects
<1>9. HeaderRead(file)
  BY <1>6, <1>7 DEF HeaderRead, HeaderWords
<1> QED  BY <1>6, <1>7, <1>8, <1>9 DEF HeaderWords, file

(* A window that is not empty has pixels, and they fill its lines. *)
LEMMA WindowSize ==
  ASSUME NEW w \in Rects, ~IsEmpty(w)
  PROVE  /\ Width(w) \in Nat \ {0} /\ Height(w) \in Nat \ {0}
         /\ Width(w) = w.x2 - w.x1 /\ Height(w) = w.y2 - w.y1
         /\ PixelCount(w) \in Nat
         /\ \A channels \in Nat : FrameBlobValueCount(w, channels) \in Nat
<1>1. /\ Width(w) \in Nat \ {0} /\ Height(w) \in Nat \ {0}
      /\ Width(w) = w.x2 - w.x1 /\ Height(w) = w.y2 - w.y1
  BY RectCoordinates DEF IsEmpty, Width, Height, Larger
<1>2. PixelCount(w) \in Nat
  BY <1>1 DEF PixelCount
<1>3. \A channels \in Nat : FrameBlobValueCount(w, channels) \in Nat
  BY <1>2 DEF FrameBlobValueCount
<1> QED  BY <1>1, <1>2, <1>3

(* The blob of an image has the shape the sidecar expects. *)
LEMMA BlobAccepted ==
  ASSUME NEW w \in Rects, ~IsEmpty(w), PixelCount(w) <= MaxPixels,
         NEW channels \in Channels, NEW image
  PROVE  ServerReadFrameBlob(FrameBlob(w, channels, BlobValues(w, channels, image)), w, channels)
<1> DEFINE n == FrameBlobValueCount(w, channels)
           values == BlobValues(w, channels, image)
           file == FrameBlob(w, channels, values)
<1>1. channels \in Nat /\ n \in Nat
  BY WindowSize DEF Channels
<1>2. values = [k \in 1 .. n |-> values[k]]
  BY DEF BlobValues
<1> HIDE DEF n, values
<1>3. channels \in Int
  BY <1>1
<1>4. /\ Len(file) = HeaderWords + n
      /\ HeaderRead(file) /\ BoundsOf(file) = w /\ file[HeaderWords] = channels
  BY <1>1, <1>2, <1>3, BlobWords
<1> QED  BY <1>4 DEF ServerReadFrameBlob, ShapeRead, n, values

-----------------------------------------------------------------------------
(* The request. *)

(* Both lists of tokens hold every token the plugin can send. *)
LEMMA TokensKnown ==
  /\ \A k \in 0 .. 5 : OutputModeToken(k) \in KnownOutputModes \cap OUTPUT_MODES
  /\ \A k \in 0 .. 2 : ScreenColorToken(k) \in KnownScreenColors \cap SCREEN_COLORS
  /\ \A k \in 0 .. 2 : QualityToken(k) \in KnownQualities \cap QUALITIES
  /\ \A k \in 0 .. 2 : InputColorSpaceToken(k) \in KnownInputColorSpaces \cap INPUT_COLOR_SPACES
  /\ \A k \in 0 .. 3 : AlphaHintSourceToken(k) \in KnownAlphaHintSources \cap ALPHA_HINT_SOURCES
  /\ \A k \in 0 .. 4 : BackendToken(k) \in KnownBackends \cap BACKENDS
<1>1. \A k \in 0 .. 5 : OutputModeToken(k) \in KnownOutputModes \cap OUTPUT_MODES
  BY DEF OutputModeToken, KnownOutputModes, OUTPUT_MODES
<1>2. \A k \in 0 .. 2 : ScreenColorToken(k) \in KnownScreenColors \cap SCREEN_COLORS
  BY DEF ScreenColorToken, KnownScreenColors, SCREEN_COLORS
<1>3. \A k \in 0 .. 2 : QualityToken(k) \in KnownQualities \cap QUALITIES
  BY DEF QualityToken, KnownQualities, QUALITIES
<1>4. \A k \in 0 .. 2 : InputColorSpaceToken(k) \in KnownInputColorSpaces \cap INPUT_COLOR_SPACES
  BY DEF InputColorSpaceToken, KnownInputColorSpaces, INPUT_COLOR_SPACES
<1>5. \A k \in 0 .. 3 : AlphaHintSourceToken(k) \in KnownAlphaHintSources \cap ALPHA_HINT_SOURCES
  BY DEF AlphaHintSourceToken, KnownAlphaHintSources, ALPHA_HINT_SOURCES
<1>6. \A k \in 0 .. 4 : BackendToken(k) \in KnownBackends \cap BACKENDS
  BY DEF BackendToken, KnownBackends, BACKENDS
<1> QED  BY <1>1, <1>2, <1>3, <1>4, <1>5, <1>6

LEMMA StrengthRange ==
  ASSUME NEW d
  PROVE  d \in 0 .. 10 * Unit <=> d \in Int /\ 0 <= d /\ d <= 1000000
<1>1. Unit \in Nat /\ 10 * Unit = 1000000
  BY DEF Unit
<1> HIDE DEF Unit
<1>2. d \in 0 .. 10 * Unit <=> d \in Int /\ 0 <= d /\ d <= 10 * Unit
  BY <1>1
<1> QED  BY <1>1, <1>2

LEMMA StrengthAllowed ==
  ASSUME NEW d \in Int, 0 <= d, d <= 1000000
  PROVE  IsValidDespillStrength(d)
<1>1. Unit \in Nat /\ 10 * Unit = 1000000
  BY DEF Unit
<1> QED  BY <1>1 DEF IsValidDespillStrength

(* The text of a despill strength in range is in range, and formatting it  *)
(* again changes nothing: the sidecar hashes what the plugin hashed.       *)
LEMMA DespillText ==
  ASSUME NEW d \in 0 .. 10 * Unit
  PROVE  /\ FormatContractDouble(d) \in Int
         /\ FormatContractDouble(d) >= 0 /\ FormatContractDouble(d) <= 10000
         /\ NormalizedDespill(FormatContractDouble(d)) = FormatContractDouble(d)
<1>1. d \in Int /\ 0 <= d /\ d <= 1000000
  BY StrengthRange
<1>2. (d + 50) \div 100 \in Int /\ (d + 50) \div 100 >= 0 /\ (d + 50) \div 100 <= 10000
  BY <1>1, SMT
<1>3. /\ FormatContractDouble(d) \in Int
      /\ FormatContractDouble(d) >= 0 /\ FormatContractDouble(d) <= 10000
  BY <1>2 DEF FormatContractDouble
<1>4. \A n \in Int : (n * 100 + 50) \div 100 = n
  BY SMT
<1>5. \A n \in Int : NormalizedDespill(n) = n
  BY <1>4 DEF NormalizedDespill, FormatContractDouble
<1> QED  BY <1>3, <1>5

LEMMA ContractValid ==
  ASSUME frame \in FrameType, ~IsEmpty(frame.window)
  PROVE  /\ ValidInferRequestContract(TheContract)
         /\ ValidateInferPayload(InferRequest(TheContract))
<1> DEFINE c == frame.choices
           w == frame.window
           k == TheContract
           p == Payload(k)
<1>1. /\ c.mode \in 0 .. 5 /\ c.screen \in 0 .. 2 /\ c.quality \in 0 .. 2
      /\ c.colors \in 0 .. 2 /\ c.hint \in 0 .. 3 /\ c.backend \in 0 .. 4
      /\ c.despill \in 0 .. 10 * Unit /\ w \in Rects
  BY DEF FrameType
<1>2. w.x2 > w.x1 /\ w.y2 > w.y1
  BY <1>1, WindowSize, RectCoordinates
<1>3. /\ DOMAIN k = INFER_REQUIRED_FIELDS
      /\ k.render_window_x1 = w.x1 /\ k.render_window_y1 = w.y1
      /\ k.render_window_x2 = w.x2 /\ k.render_window_y2 = w.y2
      /\ k.source_frame_blob_path[1] = k.alpha_hint_frame_blob_path[1]
      /\ k.alpha_hint_source = AlphaHintSourceToken(c.hint)
      /\ k.screen_color = ScreenColorToken(c.screen)
      /\ k.quality = QualityToken(c.quality)
      /\ k.input_color_space = InputColorSpaceToken(c.colors)
      /\ k.despill_strength = c.despill
      /\ k.backend = BackendToken(c.backend)
      /\ k.output_mode = OutputModeToken(c.mode)
  BY DEF TheContract, Contract, INFER_REQUIRED_FIELDS
<1> HIDE DEF c, w, k
<1>4. ValidInferRequestContract(k)
  <2>1. IsValidDespillStrength(k.despill_strength)
    BY <1>1, <1>3, StrengthRange, StrengthAllowed
  <2> QED  BY <1>1, <1>2, <1>3, <2>1, TokensKnown DEF ValidInferRequestContract
<1>5. /\ p = [f \in INFER_REQUIRED_FIELDS |->
                IF f = "despill_strength" THEN FormatContractDouble(k[f]) ELSE k[f]]
  BY <1>3 DEF Payload
<1>6. /\ p.render_window_x1 = w.x1 /\ p.render_window_y1 = w.y1
      /\ p.render_window_x2 = w.x2 /\ p.render_window_y2 = w.y2
      /\ p.source_frame_blob_path[1] = p.alpha_hint_frame_blob_path[1]
      /\ p.alpha_hint_source = AlphaHintSourceToken(c.hint)
      /\ p.screen_color = ScreenColorToken(c.screen)
      /\ p.quality = QualityToken(c.quality)
      /\ p.input_color_space = InputColorSpaceToken(c.colors)
      /\ p.despill_strength = FormatContractDouble(c.despill)
      /\ p.backend = BackendToken(c.backend)
      /\ p.output_mode = OutputModeToken(c.mode)
  BY <1>3, <1>5 DEF INFER_REQUIRED_FIELDS
<1>7. InferRequest(k).fields = p /\ InferRequest(k).request_hash = p
  BY DEF InferRequest
<1> HIDE DEF p
<1>8. /\ p.despill_strength \in Int
      /\ p.despill_strength >= 0 /\ p.despill_strength <= 10000
      /\ NormalizedDespill(p.despill_strength) = p.despill_strength
  BY <1>1, <1>6, DespillText
<1>9. [p EXCEPT !.despill_strength = NormalizedDespill(@)] = p
  BY <1>5, <1>8
<1>10. ValidateInferPayload(InferRequest(k))
  BY <1>1, <1>2, <1>5, <1>6, <1>7, <1>8, <1>9, TokensKnown DEF ValidateInferPayload
<1> QED  BY <1>4, <1>10 DEF k

(* The sidecar takes whatever the plugin sends it. *)
THEOREM RequestsAreAccepted == Spec => []RequestsAccepted
<1>1. FrameInv => RequestsAccepted
  <2> SUFFICES ASSUME FrameInv, step = "infer", PixelCount(frame.window) <= MaxPixels
               PROVE  RequestAccepted
    BY DEF RequestsAccepted
  <2>1. frame \in FrameType /\ frame.window \in Rects /\ ~IsEmpty(frame.window)
    BY FrameFields DEF FrameInv, PlaceInv
  <2>2. /\ ServerReadFrameBlob(SourceBlob, frame.window, 4)
        /\ ServerReadFrameBlob(HintBlob, frame.window, 1)
    BY <2>1, BlobAccepted DEF SourceBlob, HintBlob, Channels
  <2> QED  BY <2>1, <2>2, ContractValid DEF RequestAccepted
<1> QED  BY <1>1, Invariance, PTL

-----------------------------------------------------------------------------
(* The place of a pixel in a blob, and in a file that comes back. *)

(* The number of a pixel in a window gives its line and its column back. *)
LEMMA LineAndColumn ==
  ASSUME NEW w \in Nat \ {0}, NEW a \in Nat, a < w, NEW b \in Nat
  PROVE  (b * w + a) \div w = b /\ (b * w + a) % w = a
<1> DEFINE n == b * w + a
           q == n \div w
           r == n % w
<1>1. n \in Nat
  OBVIOUS
<1> HIDE DEF n
<1>2. q \in Int /\ r \in Int /\ 0 <= r /\ r < w /\ n = w * q + r
  BY <1>1
<1> HIDE DEF q, r
<1>3. w * q = q * w
  BY <1>2
<1>4. q * w + r = b * w + a
  BY <1>2, <1>3 DEF n
<1>5. CASE q <= b - 1
  <2>1. q * w <= (b - 1) * w
    BY <1>2, <1>5, TimesKeepsOrder
  <2>2. (b - 1) * w = b * w - w
    OBVIOUS
  <2> QED  BY <1>2, <1>4, <2>1, <2>2
<1>6. CASE q >= b + 1
  <2>1. (b + 1) * w <= q * w
    BY <1>2, <1>6, TimesKeepsOrder
  <2>2. (b + 1) * w = b * w + w
    OBVIOUS
  <2> QED  BY <1>2, <1>4, <2>1, <2>2
<1>7. q = b /\ r = a
  BY <1>2, <1>4, <1>5, <1>6
<1> QED  BY <1>7 DEF n, q, r

(* The number of a pixel of a window, counted line by line. *)
Number(w, p) == (p[2] - w.y1) * Width(w) + (p[1] - w.x1)

LEMMA NumberOfPixel ==
  ASSUME NEW w \in Rects, NEW p \in Pixels(w)
  PROVE  /\ Number(w, p) \in Nat /\ Number(w, p) < PixelCount(w)
         /\ PixelAt(w, Number(w, p)) = p
         /\ ~IsEmpty(w) /\ Contains(w, p[1], p[2])
<1> DEFINE a == p[1] - w.x1
           b == p[2] - w.y1
           i == b * Width(w) + a
<1>1. /\ p \in Int \X Int /\ Contains(w, p[1], p[2])
      /\ p = <<p[1], p[2]>> /\ p[1] \in Int /\ p[2] \in Int
  <2>1. p \in Int \X Int /\ Contains(w, p[1], p[2])
    BY PixelsContained
  <2> QED  BY <2>1
<1>2. /\ a \in Nat /\ a < Width(w) /\ b \in Nat /\ b <= Height(w) - 1
      /\ Width(w) \in Nat \ {0} /\ Height(w) \in Nat \ {0}
      /\ ~IsEmpty(w)
  BY <1>1, RectCoordinates DEF Contains, Width, Height, Larger, IsEmpty
<1>3. p[1] = w.x1 + a /\ p[2] = w.y1 + b
  BY <1>1, RectCoordinates
<1> HIDE DEF a, b
<1>4. i \in Nat
  BY <1>2
<1>5. i < PixelCount(w)
  <2>1. b * Width(w) <= (Height(w) - 1) * Width(w)
    BY <1>2, TimesKeepsOrder
  <2>2. (Height(w) - 1) * Width(w) = Width(w) * Height(w) - Width(w)
    BY <1>2
  <2>3. b * Width(w) \in Int /\ Width(w) * Height(w) \in Int
    BY <1>2
  <2> QED  BY <1>2, <2>1, <2>2, <2>3 DEF PixelCount
<1>6. i \div Width(w) = b /\ i % Width(w) = a
  BY <1>2, LineAndColumn
<1> HIDE DEF i
<1>7. PixelAt(w, i) = p
  BY <1>1, <1>3, <1>6 DEF PixelAt
<1>8. Number(w, p) = i
  BY DEF Number, i, a, b
<1> QED  BY <1>1, <1>2, <1>4, <1>5, <1>7, <1>8

(* Where the values of a pixel lie. *)
LEMMA ValuePlace ==
  ASSUME NEW w \in Rects, NEW p \in Pixels(w), NEW channels \in Channels,
         NEW c \in 0 .. channels - 1
  PROVE  LET i == Number(w, p)
             k == i * channels + c + 1
         IN /\ channels \in Nat /\ i \in Nat /\ FrameBlobValueCount(w, channels) \in Nat
            /\ k \in 1 .. FrameBlobValueCount(w, channels)
            /\ (k - 1) \div channels = i /\ (k - 1) % channels = c
            /\ BlobOffset(w, channels, p[1], p[2], c) = k - 1
<1> DEFINE i == Number(w, p)
           k == i * channels + c + 1
           n == PixelCount(w)
<1>1. /\ channels \in Nat \ {0} /\ c \in Nat /\ c < channels
  BY DEF Channels
<1>2. i \in Nat /\ i < n /\ ~IsEmpty(w)
  BY NumberOfPixel
<1>3. n \in Nat /\ FrameBlobValueCount(w, channels) \in Nat
      /\ FrameBlobValueCount(w, channels) = n * channels
  BY <1>1, <1>2, WindowSize DEF FrameBlobValueCount
<1>4. BlobOffset(w, channels, p[1], p[2], c) = i * channels + c
  BY DEF BlobOffset, Number
<1> HIDE DEF i, n
<1>5. i * channels \in Nat
  BY <1>1, <1>2
<1>6. k - 1 = i * channels + c /\ k \in Nat /\ k >= 1
  BY <1>1, <1>5
<1>7. k <= n * channels
  <2>1. i * channels <= (n - 1) * channels
    BY <1>1, <1>2, <1>3, TimesKeepsOrder
  <2>2. (n - 1) * channels = n * channels - channels /\ n * channels \in Nat
    BY <1>1, <1>3
  <2> QED  BY <1>1, <1>5, <2>1, <2>2
<1>8. (k - 1) \div channels = i /\ (k - 1) % channels = c
  BY <1>1, <1>2, <1>6, LineAndColumn
<1> HIDE DEF k
<1>9. k \in 1 .. FrameBlobValueCount(w, channels)
  BY <1>3, <1>6, <1>7
<1> QED  BY <1>1, <1>2, <1>3, <1>4, <1>6, <1>8, <1>9 DEF i, k

(* An input blob holds at the place of a pixel what the image holds there. *)
LEMMA BlobHolds ==
  ASSUME NEW w \in Rects, NEW p \in Pixels(w), NEW image
  PROVE  /\ FrameBlob(w, 4, BlobValues(w, 4, image))[HeaderWords + 1 + 4 * Number(w, p)] = image[p]
         /\ FrameBlob(w, 1, BlobValues(w, 1, image))[HeaderWords + 1 + Number(w, p)] = image[p]
<1> DEFINE i == Number(w, p)
<1>1. ASSUME NEW channels \in Channels
      PROVE  FrameBlob(w, channels, BlobValues(w, channels, image))
               [HeaderWords + (i * channels + 0 + 1)] = image[p]
  <2> DEFINE n == FrameBlobValueCount(w, channels)
             k == i * channels + 0 + 1
             values == BlobValues(w, channels, image)
  <2>1. 0 \in 0 .. channels - 1 /\ channels \in Int
    BY DEF Channels
  <2>2. /\ n \in Nat /\ k \in 1 .. n /\ (k - 1) \div channels = i
    BY <2>1, ValuePlace
  <2>3. values = [j \in 1 .. n |-> values[j]]
    BY DEF BlobValues
  <2>4. values[k] = image[PixelAt(w, i)]
    BY <2>2 DEF BlobValues
  <2>5. PixelAt(w, i) = p
    BY NumberOfPixel
  <2> HIDE DEF n, k, values
  <2>6. \A j \in 1 .. n : FrameBlob(w, channels, values)[HeaderWords + j] = values[j]
    BY <2>1, <2>2, <2>3, BlobWords
  <2>7. FrameBlob(w, channels, values)[HeaderWords + k] = values[k]
    BY <2>2, <2>6
  <2> QED  BY <2>4, <2>5, <2>7 DEF k, values
<1>2. i \in Nat
  BY NumberOfPixel
<1> HIDE DEF i
<1>3. /\ HeaderWords + (i * 4 + 0 + 1) = HeaderWords + 1 + 4 * i
      /\ HeaderWords + (i * 1 + 0 + 1) = HeaderWords + 1 + i
  BY <1>2 DEF HeaderWords
<1>4. 4 \in Channels /\ 1 \in Channels
  BY DEF Channels
<1> QED  BY <1>1, <1>3, <1>4 DEF i

(* What the sidecar makes of a pixel it makes of the source and the hint   *)
(* of that very pixel.                                                      *)
LEMMA KeyedFromItsPlace ==
  ASSUME frame \in FrameType, NEW p \in Pixels(frame.window), NEW name, NEW c
  PROVE  KeyedValue(name, Number(frame.window, p), c)
           = <<name, c, SourcePixel(p), Hint.values[p]>>
<1> DEFINE w == frame.window
           i == Number(w, p)
           source == [q \in Pixels(w) |-> SourcePixel(q)]
<1>1. w \in Rects /\ source[p] = SourcePixel(p)
  BY FrameFields
<1>2. SourceBlob[HeaderWords + 1 + 4 * i] = source[p]
  BY <1>1, BlobHolds DEF SourceBlob
<1>3. HintBlob[HeaderWords + 1 + i] = Hint.values[p]
  BY <1>1, BlobHolds DEF HintBlob
<1> QED  BY <1>1, <1>2, <1>3 DEF KeyedValue

(* So it is read back from an output blob that was not spoilt. *)
LEMMA ExactValue ==
  ASSUME frame \in FrameType, NEW p \in Pixels(frame.window), NEW name \in Outputs,
         NEW c \in 0 .. OutputChannels(name) - 1
  PROVE  BlobValue(ExactBlob(name), p[1], p[2], c) = <<name, c, SourcePixel(p), Hint.values[p]>>
<1> DEFINE w == frame.window
           channels == OutputChannels(name)
           n == FrameBlobValueCount(w, channels)
           i == Number(w, p)
           k == i * channels + c + 1
           values == [j \in 1 .. n |-> KeyedValue(name, (j - 1) \div channels, (j - 1) % channels)]
           file == FrameBlob(w, channels, values)
<1>1. w \in Rects /\ channels \in Channels /\ channels \in Int
  BY FrameFields DEF Outputs, OutputChannels, Channels
<1>2. /\ n \in Nat /\ k \in 1 .. n /\ i \in Nat
      /\ (k - 1) \div channels = i /\ (k - 1) % channels = c
      /\ BlobOffset(w, channels, p[1], p[2], c) = k - 1
  BY <1>1, ValuePlace
<1>3. values = [j \in 1 .. n |-> values[j]]
  OBVIOUS
<1>4. values[k] = KeyedValue(name, i, c)
  BY <1>2
<1>5. Contains(w, p[1], p[2])
  BY <1>1, NumberOfPixel
<1>6. ExactBlob(name) = file
  BY DEF ExactBlob
<1>7. file = FrameBlob(w, channels, values)
  OBVIOUS
<1>8. w \in Rects /\ channels \in Int /\ n \in Nat
  BY <1>1, <1>2
<1> HIDE DEF n, k, values, file, w, channels, i
<1>9. /\ BoundsOf(file) = w /\ file[HeaderWords] = channels
      /\ \A j \in 1 .. n : file[HeaderWords + j] = values[j]
  BY <1>3, <1>7, <1>8, BlobWords
<1>10. HeaderWords + 1 + (k - 1) = HeaderWords + k /\ c < channels
  BY <1>1, <1>2 DEF HeaderWords, channels
<1>11. BlobValue(file, p[1], p[2], c) = values[k]
  BY <1>2, <1>5, <1>9, <1>10 DEF BlobValue
<1> QED  BY <1>4, <1>6, <1>11, KeyedFromItsPlace DEF i, w

(* A blob is a sequence of its words. *)
LEMMA BlobSequence ==
  ASSUME NEW b \in Rects, NEW channels \in Int, NEW n \in Nat, NEW values,
         values = [k \in 1 .. n |-> values[k]]
  PROVE  \E S : FrameBlob(b, channels, values) \in Seq(S)
<1> DEFINE S == {"CKFB"} \cup Int \cup {values[k] : k \in 1 .. n}
<1>1. Header(b, channels) \in Seq(S)
  BY RectCoordinates DEF Header
<1>2. values \in Seq(S)
  <2>1. values \in [1 .. n -> S]
    OBVIOUS
  <2> QED  BY <2>1
<1> HIDE DEF S
<1>3. FrameBlob(b, channels, values) \in Seq(S)
  BY <1>1, <1>2, ConcatProperties DEF FrameBlob
<1> QED  BY <1>3

(* The four ways to spoil a blob show in its header or in its length. *)
LEMMA SpoiltBlob ==
  ASSUME NEW w \in Rects, ~IsEmpty(w), NEW channels \in Channels, NEW S,
         NEW file \in Seq(S), Len(file) = HeaderWords + FrameBlobValueCount(w, channels)
  PROVE  /\ ~ReadFrameBlob(SubSeq(file, 1, Len(file) - 1), w, channels)
         /\ \A z : ~ReadFrameBlob(Append(file, z), w, channels)
         /\ \A b \in Rects, other \in Int : b # w \/ other # channels =>
              ~ReadFrameBlob(Header(b, other) \o SubSeq(file, HeaderWords + 1, Len(file)),
                             w, channels)
<1> DEFINE n == FrameBlobValueCount(w, channels)
           tail == SubSeq(file, HeaderWords + 1, Len(file))
<1>1. n \in Nat /\ n >= 1
  <2>1. channels \in Nat \ {0}
    BY DEF Channels
  <2>4. n \in Nat /\ Width(w) \in Nat \ {0} /\ Height(w) \in Nat \ {0}
    BY <2>1, WindowSize
  <2>2. Width(w) * Height(w) >= 1
    BY <2>4
  <2>3. (Width(w) * Height(w)) * channels >= 1
    <3>1. Width(w) * Height(w) \in Nat
      BY <2>4
    <3>2. 1 * channels <= (Width(w) * Height(w)) * channels
      BY <2>1, <2>2, <3>1, TimesKeepsOrder
    <3> QED  BY <2>1, <3>1, <3>2
  <2> QED  BY <2>3, <2>4 DEF FrameBlobValueCount, PixelCount
<1> HIDE DEF n
<1>2. Len(file) = 7 + n
  BY DEF n, HeaderWords
<1>3. Len(SubSeq(file, 1, Len(file) - 1)) # 7 + n
  BY <1>1, <1>2, SubSeqProperties
<1>4. \A z : Len(Append(file, z)) # 7 + n
  BY <1>1, <1>2
<1>5. tail \in Seq(S) /\ Len(tail) = n
  BY <1>1, <1>2, SubSeqProperties DEF HeaderWords
<1>6. tail = [k \in 1 .. n |-> tail[k]]
  BY <1>1, <1>5
<1> HIDE DEF tail
<1>7. ASSUME NEW b \in Rects, NEW other \in Int, b # w \/ other # channels
      PROVE  ~ReadFrameBlob(Header(b, other) \o tail, w, channels)
  <2>1. FrameBlob(b, other, tail) = Header(b, other) \o tail
    BY DEF FrameBlob
  <2>2. /\ BoundsOf(FrameBlob(b, other, tail)) = b
        /\ FrameBlob(b, other, tail)[HeaderWords] = other
    <3>1. b \in Rects /\ other \in Int /\ n \in Nat /\ tail = [k \in 1 .. n |-> tail[k]]
      BY <1>1, <1>6
    <3> QED  BY ONLY <3>1, BlobWords
  <2> QED  BY <1>7, <2>1, <2>2 DEF ReadFrameBlob
<1>8. HeaderWords + n = 7 + n
  BY DEF HeaderWords
<1> QED  BY <1>3, <1>4, <1>7, <1>8 DEF ReadFrameBlob, n, tail

LEMMA ExactBlobShape ==
  ASSUME frame \in FrameType, ~IsEmpty(frame.window), NEW name \in Outputs
  PROVE  /\ OutputChannels(name) \in Channels
         /\ \E S : ExactBlob(name) \in Seq(S)
         /\ Len(ExactBlob(name)) = HeaderWords + FrameBlobValueCount(frame.window, OutputChannels(name))
<1> DEFINE w == frame.window
           channels == OutputChannels(name)
           n == FrameBlobValueCount(w, channels)
           values == [j \in 1 .. n |-> KeyedValue(name, (j - 1) \div channels, (j - 1) % channels)]
<1>1. w \in Rects /\ channels \in Channels
  BY FrameFields DEF Outputs, OutputChannels, Channels
<1>2. n \in Nat /\ channels \in Int
  BY <1>1, WindowSize DEF Channels
<1>3. values = [j \in 1 .. n |-> values[j]]
  OBVIOUS
<1>4. ExactBlob(name) = FrameBlob(w, channels, values)
  BY DEF ExactBlob
<1> HIDE DEF n, values, w, channels
<1>5. Len(FrameBlob(w, channels, values)) = HeaderWords + n
  BY <1>1, <1>2, <1>3, BlobWords
<1>6. \E S : FrameBlob(w, channels, values) \in Seq(S)
  BY <1>1, <1>2, <1>3, BlobSequence
<1> QED  BY <1>1, <1>4, <1>5, <1>6 DEF n, w, channels

(* The plugin refuses every spoilt output blob. *)
LEMMA SpoiltOutputRefused ==
  ASSUME frame \in FrameType, ~IsEmpty(frame.window), reply \in Replies,
         NEW name \in Outputs, reply[1] = name
  PROVE  ~ReadFrameBlob(OutputBlob(name), frame.window, OutputChannels(name))
<1> DEFINE w == frame.window
           channels == OutputChannels(name)
           exact == ExactBlob(name)
<1>1. w \in Rects /\ channels \in Channels
  BY FrameFields, ExactBlobShape
<1>2. PICK S : exact \in Seq(S)
  BY ExactBlobShape
<1>3. Len(exact) = HeaderWords + FrameBlobValueCount(w, channels)
  BY ExactBlobShape
<1>4. reply[2] \in Spoils
  BY DEF Replies, Outputs
<1>5. Rect(w.x1 + 1, w.y1, w.x2 + 1, w.y2) \in Rects /\ Rect(w.x1 + 1, w.y1, w.x2 + 1, w.y2) # w
  BY <1>1, RectCoordinates DEF Rect, Rects
<1>6. (IF name = "alpha" THEN 3 ELSE 1) \in Int /\ (IF name = "alpha" THEN 3 ELSE 1) # channels
  BY DEF OutputChannels, Outputs
<1>7. channels \in Int
  BY <1>1 DEF Channels
<1> DEFINE wider == Rect(w.x1 + 1, w.y1, w.x2 + 1, w.y2)
           fewer == IF name = "alpha" THEN 3 ELSE 1
           tail == SubSeq(exact, HeaderWords + 1, Len(exact))
<1>8. OutputBlob(name) = CASE reply[2] = "short" -> SubSeq(exact, 1, Len(exact) - 1)
            [] reply[2] = "long" -> Append(exact, Zero)
            [] reply[2] = "shifted" -> Header(wider, channels) \o tail
            [] reply[2] = "thin" -> Header(w, fewer) \o tail
  BY DEF OutputBlob
<1> HIDE DEF w, channels, exact, wider, fewer
<1>9. /\ ~ReadFrameBlob(SubSeq(exact, 1, Len(exact) - 1), w, channels)
      /\ ~ReadFrameBlob(Append(exact, Zero), w, channels)
      /\ ~ReadFrameBlob(Header(wider, channels) \o tail, w, channels)
      /\ ~ReadFrameBlob(Header(w, fewer) \o tail, w, channels)
  <2>1. ~IsEmpty(w) /\ wider \in Rects /\ wider # w /\ fewer \in Int /\ fewer # channels
    BY <1>5, <1>6 DEF w, channels, wider, fewer
  <2> QED  BY <1>1, <1>2, <1>3, <1>7, <2>1, SpoiltBlob
<1> HIDE DEF tail
<1>10. ~ReadFrameBlob(OutputBlob(name), w, channels)
  BY <1>4, <1>8, <1>9 DEF Spoils
<1> QED  BY <1>10 DEF w, channels

(* What a call draws at a pixel, from the source and the hint there. *)
Keyed(mode, source, hint) ==
  LET K(name, c) == <<name, c, source, hint>>
  IN CASE mode = 0 -> <<"rgba", [c \in 0 .. 3 |-> K("processed", c)]>>
       [] mode = 1 -> <<"matte", [c \in 0 .. 0 |-> K("alpha", 0)]>>
       [] mode = 2 -> <<"straight", [c \in 0 .. 3 |-> IF c < 3 THEN K("straight", c)
                                                      ELSE K("alpha", 0)]>>
       [] mode = 4 -> <<"checker", [c \in 0 .. 3 |-> IF c < 3 THEN K("processed", c)
                                                     ELSE K("alpha", 0)]>>

Look(what, mode, source, hint) ==
  CASE what = "copied" -> source
    [] what = "hint" -> hint
    [] what = "keyed" -> Keyed(mode, source, hint)
    [] what = "status" -> <<"status", 0, 0>>
    [] what = "clear" -> Zero

(* A frame that was read back is keyed with the pixels at their places. *)
LEMMA KeyedInPlace ==
  ASSUME frame \in FrameType, NEW p \in Pixels(frame.window),
         frame.choices.mode \in OutputModesOfInference,
         reply[1] \notin OutputModeNeeds(frame.choices.mode)
  PROVE  KeyedPixel(p) = Keyed(frame.choices.mode, SourcePixel(p), Hint.values[p])
<1> DEFINE V(name, c) == BlobValue(OutputBlob(name), p[1], p[2], c)
           K(name, c) == <<name, c, SourcePixel(p), Hint.values[p]>>
           mode == frame.choices.mode
<1>1. ASSUME NEW name \in Outputs, name \in OutputModeNeeds(mode),
             NEW c \in 0 .. OutputChannels(name) - 1
      PROVE  V(name, c) = K(name, c)
  <2>1. OutputBlob(name) = ExactBlob(name)
    BY <1>1 DEF OutputBlob
  <2> QED  BY <1>1, <2>1, ExactValue
<1>2. /\ OutputChannels("processed") = 4 /\ OutputChannels("straight") = 3
      /\ OutputChannels("alpha") = 1
      /\ "processed" \in Outputs /\ "straight" \in Outputs /\ "alpha" \in Outputs
  BY DEF OutputChannels, Outputs
<1>3. mode \in {0, 4} => \A c \in 0 .. 3 : V("processed", c) = K("processed", c)
  BY <1>1, <1>2 DEF OutputModeNeeds
<1>4. mode = 2 => \A c \in 0 .. 3 : c < 3 => V("straight", c) = K("straight", c)
  BY <1>1, <1>2 DEF OutputModeNeeds
<1>5. mode \in {1, 2, 4} => V("alpha", 0) = K("alpha", 0)
  BY <1>1, <1>2 DEF OutputModeNeeds
<1> HIDE DEF V, K, mode
<1>6. KeyedPixel(p) =
        CASE mode = 0 -> <<"rgba", [c \in 0 .. 3 |-> V("processed", c)]>>
          [] mode = 1 -> <<"matte", [c \in 0 .. 0 |-> V("alpha", c)]>>
          [] mode = 2 -> <<"straight", [c \in 0 .. 3 |-> IF c < 3 THEN V("straight", c)
                                                         ELSE V("alpha", 0)]>>
          [] mode = 4 -> <<"checker", [c \in 0 .. 3 |-> IF c < 3 THEN V("processed", c)
                                                        ELSE V("alpha", 0)]>>
  BY DEF KeyedPixel, V, mode
<1>7. Keyed(mode, SourcePixel(p), Hint.values[p]) =
        CASE mode = 0 -> <<"rgba", [c \in 0 .. 3 |-> K("processed", c)]>>
          [] mode = 1 -> <<"matte", [c \in 0 .. 0 |-> K("alpha", 0)]>>
          [] mode = 2 -> <<"straight", [c \in 0 .. 3 |-> IF c < 3 THEN K("straight", c)
                                                         ELSE K("alpha", 0)]>>
          [] mode = 4 -> <<"checker", [c \in 0 .. 3 |-> IF c < 3 THEN K("processed", c)
                                                        ELSE K("alpha", 0)]>>
  BY DEF Keyed, K
<1>8. mode \in {0, 1, 2, 4}
  BY DEF mode, OutputModesOfInference
<1>9. CASE mode = 0
  <2>1. [c \in 0 .. 3 |-> V("processed", c)] = [c \in 0 .. 3 |-> K("processed", c)]
    BY <1>3, <1>9
  <2> QED  BY <1>6, <1>7, <1>9, <2>1 DEF mode
<1>10. CASE mode = 1
  <2>1. [c \in 0 .. 0 |-> V("alpha", c)] = [c \in 0 .. 0 |-> K("alpha", 0)]
    <3>1. \A c \in 0 .. 0 : c = 0
      OBVIOUS
    <3> QED  BY <1>5, <1>10, <3>1
  <2> QED  BY <1>6, <1>7, <1>10, <2>1 DEF mode
<1>11. CASE mode = 2
  <2>1. [c \in 0 .. 3 |-> IF c < 3 THEN V("straight", c) ELSE V("alpha", 0)]
          = [c \in 0 .. 3 |-> IF c < 3 THEN K("straight", c) ELSE K("alpha", 0)]
    BY <1>4, <1>5, <1>11
  <2> QED  BY <1>6, <1>7, <1>11, <2>1 DEF mode
<1>12. CASE mode = 4
  <2>1. [c \in 0 .. 3 |-> IF c < 3 THEN V("processed", c) ELSE V("alpha", 0)]
          = [c \in 0 .. 3 |-> IF c < 3 THEN K("processed", c) ELSE K("alpha", 0)]
    BY <1>3, <1>5, <1>12
  <2> QED  BY <1>6, <1>7, <1>12, <2>1 DEF mode
<1> QED  BY <1>8, <1>9, <1>10, <1>11, <1>12

-----------------------------------------------------------------------------
(* The whole frame. *)

(* The frame the call draws, pixel by pixel. *)
Image == [p \in Target |-> Look(kind, frame.choices.mode, SourcePixel(p), Hint.values[p])]

(* A pixel of an image in memory is all there. *)
Holds(v, bytes, image, p) ==
  \A b \in PixelBytes(v, p[1], p[2]) :
    b \in DOMAIN bytes /\ bytes[b] = <<image[p], b - PixelAddress(v, p[1], p[2])>>

(* The lines above the next one are whole, and a frame that is keyed was   *)
(* read back unspoilt.                                                      *)
WholeInv ==
  /\ kind = "keyed" =>
       /\ frame.choices.mode \in OutputModesOfInference
       /\ reply[1] \notin OutputModeNeeds(frame.choices.mode)
  /\ step = "writing" => \A p \in Target : p[2] < line => Holds(frame.out, memory, Image, p)
  /\ step = "done" /\ result = "OK" /\ kind # "none" =>
       \A p \in Target : Holds(frame.out, memory, Image, p)

(* A byte of the target belongs to one pixel. *)
LEMMA OneOwner ==
  ASSUME frame \in FrameType, ValidateOutputView(frame.out) \in Successes,
         NEW p \in Target, NEW q \in Target,
         NEW b, b \in PixelBytes(frame.out, p[1], p[2]), b \in PixelBytes(frame.out, q[1], q[2])
  PROVE  p = q
<1>1. frame.out \in Views /\ frame.out.bounds \in Rects
  BY FrameFields
<1>2. /\ p = <<p[1], p[2]>> /\ p[1] \in Int /\ p[2] \in Int
      /\ q = <<q[1], q[2]>> /\ q[1] \in Int /\ q[2] \in Int
      /\ Contains(frame.out.bounds, p[1], p[2]) /\ Contains(frame.out.bounds, q[1], q[2])
  <2>1. /\ p \in Int \X Int /\ Contains(frame.out.bounds, p[1], p[2])
        /\ q \in Int \X Int /\ Contains(frame.out.bounds, q[1], q[2])
    BY <1>1, PixelsContained DEF Target
  <2> QED  BY <2>1
<1>3. RowBytesCanHoldBounds(frame.out)
  BY <1>1, <1>2, AcceptedStride DEF ValidateOutputView
<1> QED  BY <1>1, <1>2, <1>3, PixelsApart

(* What is written for some pixels is there at each of their bytes. *)
LEMMA WrittenAtPixel ==
  ASSUME frame \in FrameType, ValidateOutputView(frame.out) \in Successes,
         NEW what, NEW pixels, pixels \subseteq Target, NEW p \in pixels,
         NEW b \in PixelBytes(frame.out, p[1], p[2])
  PROVE  /\ b \in DOMAIN Written(what, pixels)
         /\ Written(what, pixels)[b]
              = <<Pixel(what, p), b - PixelAddress(frame.out, p[1], p[2])>>
<1> DEFINE Bytes(q) == PixelBytes(frame.out, q[1], q[2])
           P == CHOOSE q \in pixels : b \in Bytes(q)
<1>1. P \in pixels /\ b \in Bytes(P)
  OBVIOUS
<1>2. b \in DOMAIN Written(what, pixels)
  BY DEF Written
<1>3. Written(what, pixels)[b] = <<Pixel(what, P), b - PixelAddress(frame.out, P[1], P[2])>>
  BY <1>2 DEF Written
<1>4. P = p
  BY <1>1, OneOwner
<1> QED  BY <1>2, <1>3, <1>4

(* The image does not change while the call and what it draws stay. *)
LEMMA SameImage ==
  ASSUME frame' = frame, kind' = kind
  PROVE  Image' = Image
<1>1. Hint' = Hint /\ Target' = Target
  BY DEF Hint, HintView, Target
<1>2. \A p : SourcePixel(p)' = SourcePixel(p)
  BY DEF SourcePixel, InSource
<1> QED  BY <1>1, <1>2 DEF Image, SourcePixel, InSource

(* What is drawn at a pixel is what the image has there. *)
LEMMA PixelOfImage ==
  ASSUME frame \in FrameType, WholeInv, NEW p \in Target, kind # "none", kind \in Kinds
  PROVE  Pixel(kind, p) = Image[p]
<1>1. Image[p] = Look(kind, frame.choices.mode, SourcePixel(p), Hint.values[p])
  BY DEF Image
<1>2. CASE kind = "keyed"
  <2>1. KeyedPixel(p) = Keyed(frame.choices.mode, SourcePixel(p), Hint.values[p])
    BY <1>2, KeyedInPlace DEF WholeInv, Target
  <2> QED  BY <1>1, <1>2, <2>1 DEF Pixel, Look
<1>3. CASE kind # "keyed"
  BY <1>1, <1>3 DEF Pixel, Look, Kinds
<1> QED  BY <1>2, <1>3

(* Filling the window draws the image it announces, if the host is told    *)
(* that all is well.                                                        *)
LEMMA FillIsWhole ==
  ASSUME FrameInv, NEW what \in {"status", "clear"}, Fill(what),
         frame' = frame, reply' = reply
  PROVE  WholeInv'
<1>1. /\ kind' = what /\ step' = "done" /\ frame \in FrameType
      /\ result' = OfxStatus(FillStatus(what))
  BY DEF Fill, Return, FrameInv, PlaceInv
<1>2. Target' = Target
  BY DEF Target
<1>3. SUFFICES ASSUME result' = "OK", NEW p \in Target
               PROVE  Holds(frame.out, memory', Image', p)
  BY <1>1, <1>2 DEF WholeInv
<1>4. Image'[p] = Pixel(what, p)
  BY <1>1, <1>2 DEF Image, Look, Pixel
<1>5. FillStatus(what) \in Successes
  BY <1>1, <1>3, FillStatuses DEF OfxStatus, FormatStatus
<1>6. memory' = Over(Written(what, Pixels(WriteWindow)), memory) /\ Pixels(WriteWindow) = Target
  BY <1>1, <1>5, FrameFields DEF Fill
<1>7. ValidateOutputView(frame.out) \in Successes
  <2>1. ~IsEmpty(WriteWindow)
    BY <1>1, <1>3, <1>6, NumberOfPixel, FrameFields
  <2> QED  BY <1>5, <2>1 DEF FillStatus
<1>8. ASSUME NEW b \in PixelBytes(frame.out, p[1], p[2])
      PROVE  b \in DOMAIN memory' /\ memory'[b] = <<Image'[p], b - PixelAddress(frame.out, p[1], p[2])>>
  <2>1. /\ b \in DOMAIN Written(what, Target)
        /\ Written(what, Target)[b] = <<Pixel(what, p), b - PixelAddress(frame.out, p[1], p[2])>>
    BY <1>1, <1>3, <1>7, WrittenAtPixel
  <2> QED  BY <1>4, <1>6, <2>1 DEF Over
<1> QED  BY <1>8 DEF Holds

(* A step that starts to write leaves nothing to show yet. *)
LEMMA StartIsWhole ==
  ASSUME FrameInv, frame' = frame, step' = "writing", line' = WriteWindow.y1,
         kind' = "keyed" => /\ frame.choices.mode \in OutputModesOfInference
                            /\ reply'[1] \notin OutputModeNeeds(frame.choices.mode)
  PROVE  WholeInv'
<1>1. frame \in FrameType /\ WriteWindow \in Rects /\ Pixels(WriteWindow) = Target
  BY FrameFields DEF FrameInv, PlaceInv
<1>2. \A p \in Target : ~(p[2] < WriteWindow.y1)
  <2> SUFFICES ASSUME NEW p \in Target PROVE ~(p[2] < WriteWindow.y1)
    OBVIOUS
  <2>1. p \in Int \X Int /\ Contains(WriteWindow, p[1], p[2])
    BY <1>1, PixelsContained
  <2> QED  BY <1>1, <2>1, RectCoordinates DEF Contains
<1>3. Target' = Target
  BY DEF Target
<1> QED  BY <1>2, <1>3 DEF WholeInv

LEMMA WriteLineIsWhole ==
  ASSUME FrameInv, WholeInv, WriteLine
  PROVE  WholeInv'
<1>1. /\ frame' = frame /\ kind' = kind /\ reply' = reply /\ step = "writing"
      /\ memory' = Over(Written(kind, Writable), memory)
      /\ frame \in FrameType /\ kind \in Kinds /\ kind # "none" /\ line \in Int
  BY DEF WriteLine, Call, FrameInv, PlaceInv, TypeOK
<1>2. Image' = Image /\ Target' = Target
  BY <1>1, SameImage DEF Target
<1>3. CASE Writable # Linewise
  <2>1. step' = "done" /\ result' = "Failed"
    BY <1>3 DEF WriteLine, Return
  <2> QED  BY <1>1, <2>1 DEF WholeInv
<1>4. CASE Writable = Linewise
  <2>1. line' = line + 1 /\ step' = "writing"
    BY <1>1, <1>4 DEF WriteLine
  <2>2. Linewise \subseteq Target /\ Linewise = {p \in Target : p[2] = line}
    BY <1>1, FrameFields DEF Linewise
  <2>3. ASSUME NEW p \in Target, p[2] < line + 1, NEW b \in PixelBytes(frame.out, p[1], p[2])
        PROVE  /\ b \in DOMAIN memory'
               /\ memory'[b] = <<Image[p], b - PixelAddress(frame.out, p[1], p[2])>>
    <3>1. p[2] \in Int
      <4>1. p \in Int \X Int
        BY <1>1, FrameFields, PixelsContained
      <4> QED  BY <4>1
    <3>2. CASE p[2] = line
      <4>1. p \in Linewise
        BY <2>2, <3>2
      <4>2. ValidateOutputView(frame.out) \in Successes
        BY <1>4, <4>1 DEF Writable
      <4>3. /\ b \in DOMAIN Written(kind, Linewise)
            /\ Written(kind, Linewise)[b]
                 = <<Pixel(kind, p), b - PixelAddress(frame.out, p[1], p[2])>>
        BY <1>1, <2>2, <2>3, <4>1, <4>2, WrittenAtPixel
      <4>4. Pixel(kind, p) = Image[p]
        BY <1>1, PixelOfImage
      <4> QED  BY <1>1, <1>4, <4>3, <4>4 DEF Over
    <3>3. CASE p[2] < line
      <4>1. /\ b \in DOMAIN memory
            /\ memory[b] = <<Image[p], b - PixelAddress(frame.out, p[1], p[2])>>
        BY <1>1, <2>3, <3>3 DEF WholeInv, Holds
      <4>2. b \notin DOMAIN Written(kind, Linewise)
        <5> SUFFICES ASSUME b \in DOMAIN Written(kind, Linewise) PROVE FALSE
          OBVIOUS
        <5>1. PICK q \in Linewise : b \in PixelBytes(frame.out, q[1], q[2])
          BY WrittenByPixels
        <5>2. ValidateOutputView(frame.out) \in Successes
          BY <1>4, <5>1 DEF Writable
        <5>3. q \in Target /\ q[2] = line
          BY <2>2, <5>1
        <5>4. p = q
          BY <1>1, <2>3, <5>1, <5>2, <5>3, OneOwner
        <5> QED  BY <1>1, <3>3, <5>3, <5>4
      <4> QED  BY <1>1, <1>4, <4>1, <4>2 DEF Over
    <3> QED  BY <1>1, <2>3, <3>1, <3>2, <3>3
  <2>4. \A p \in Target : p[2] < line + 1 => Holds(frame.out, memory', Image, p)
    BY <2>3 DEF Holds
  <2> QED  BY <1>1, <1>2, <2>1, <2>4 DEF WholeInv
<1> QED  BY <1>3, <1>4

LEMMA LinesEndIsWhole ==
  ASSUME FrameInv, WholeInv, LinesEnd
  PROVE  WholeInv'
<1>1. /\ frame' = frame /\ kind' = kind /\ reply' = reply /\ memory' = memory
      /\ step = "writing" /\ step' = "done" /\ line >= WriteWindow.y2
      /\ frame \in FrameType /\ line \in Int
  BY DEF LinesEnd, Return, Call, FrameInv, PlaceInv, TypeOK
<1>2. Image' = Image /\ Target' = Target
  BY <1>1, SameImage DEF Target
<1>3. \A p \in Target : p[2] < line
  <2> SUFFICES ASSUME NEW p \in Target PROVE p[2] < line
    OBVIOUS
  <2>1. WriteWindow \in Rects /\ p \in Pixels(WriteWindow)
    BY <1>1, FrameFields
  <2>2. p \in Int \X Int /\ Contains(WriteWindow, p[1], p[2])
    BY <2>1, PixelsContained
  <2> QED  BY <1>1, <2>1, <2>2, RectCoordinates DEF Contains
<1> QED  BY <1>1, <1>2, <1>3 DEF WholeInv

LEMMA ReadBackIsWhole ==
  ASSUME FrameInv, WholeInv, ReadBack
  PROVE  WholeInv'
<1>1. /\ frame' = frame /\ reply' = reply /\ frame \in FrameType /\ step = "readback"
      /\ reply \in Replies /\ ~IsEmpty(frame.window)
      /\ frame.choices.mode \in OutputModesOfInference
  BY DEF ReadBack, Call, FrameInv, PlaceInv, TypeOK
<1>2. CASE OutputsRead
  <2>1. reply[1] \notin OutputModeNeeds(frame.choices.mode)
    <3> SUFFICES ASSUME reply[1] \in OutputModeNeeds(frame.choices.mode) PROVE FALSE
      OBVIOUS
    <3>1. reply[1] \in Outputs
      BY DEF OutputModeNeeds, Outputs
    <3>2. ReadFrameBlob(OutputBlob(reply[1]), frame.window, OutputChannels(reply[1]))
      BY <1>2 DEF OutputsRead
    <3> QED  BY <1>1, <3>1, <3>2, SpoiltOutputRefused
  <2>2. step' = "writing" /\ line' = WriteWindow.y1
    BY <1>2 DEF ReadBack, StartWriting
  <2> QED  BY <1>1, <2>1, <2>2, StartIsWhole
<1>3. CASE ~OutputsRead
  BY <1>1, <1>3, FillIsWhole DEF ReadBack, FailureFrame
<1> QED  BY <1>2, <1>3

LEMMA DispatchIsWhole ==
  ASSUME FrameInv, WholeInv, Dispatch
  PROVE  WholeInv'
<1>1. frame' = frame /\ reply' = reply /\ kind = "none"
  BY DEF Dispatch, Call, FrameInv, PlaceInv
<1>2. CASE Fill("status")
  BY <1>1, <1>2, FillIsWhole
<1>3. ASSUME NEW what \in {"copied", "hint"}, StartWriting(what)
      PROVE  WholeInv'
  <2>1. step' = "writing" /\ kind' # "keyed" /\ line' = WriteWindow.y1
    BY <1>3 DEF StartWriting
  <2> QED  BY <1>1, <2>1, StartIsWhole
<1>4. CASE step' = "infer" /\ kind' = kind
  BY <1>1, <1>4 DEF WholeInv
<1> QED  BY <1>2, <1>3, <1>4 DEF Dispatch

(* The steps that draw nothing. *)
LEMMA OtherIsWhole ==
  ASSUME FrameInv, WholeInv,
         Refuse \/ BadSource \/ TempRootMissing \/ InferAnswers \/ HostAborts \/ UNCHANGED vars
  PROVE  WholeInv'
<1>1. CASE Refuse \/ BadSource \/ TempRootMissing \/ InferAnswers
  <2>1. kind' = "none" /\ step' # "writing"
    BY <1>1 DEF Refuse, BadSource, TempRootMissing, InferAnswers, Return, FrameInv, PlaceInv
  <2> QED  BY <2>1 DEF WholeInv
<1>2. CASE HostAborts \/ UNCHANGED vars
  <2>1. UNCHANGED <<frame, step, kind, line, memory, reply, result>>
    BY <1>2 DEF HostAborts, vars
  <2>2. Image' = Image /\ Target' = Target
    BY <2>1, SameImage DEF Target
  <2> QED  BY <2>1, <2>2 DEF WholeInv
<1> QED  BY <1>1, <1>2

(* When the host is told that all is well, the window holds one frame, and *)
(* every pixel of a keyed one comes from its place.                        *)
THEOREM FrameIsWhole == Spec => []WholeFrame
<1>1. Init => WholeInv
  BY DEF Init, WholeInv
<1>2. FrameInv /\ WholeInv /\ [Next]_vars => WholeInv'
  <2> SUFFICES ASSUME FrameInv, WholeInv, [Next]_vars PROVE WholeInv'
    OBVIOUS
  <2>1. ASSUME StatusRender \/ ProbeFails \/ NoSource \/ InferFails \/ ReadBackAborted
        PROVE  WholeInv'
    <3>1. /\ frame' = frame /\ reply' = reply
          /\ Fill("status") \/ Fill("clear")
      BY <2>1 DEF StatusRender, ProbeFails, NoSource, InferFails, ReadBackAborted,
                  FailureFrame, Call
    <3> QED  BY <3>1, FillIsWhole
  <2>2. CASE Dispatch  BY <2>2, DispatchIsWhole
  <2>3. CASE ReadBack  BY <2>3, ReadBackIsWhole
  <2>4. CASE WriteLine  BY <2>4, WriteLineIsWhole
  <2>5. CASE LinesEnd  BY <2>5, LinesEndIsWhole
  <2>6. CASE LinesAborted
    <3>1. frame' = frame /\ reply' = reply /\ Fill("status")
      BY <2>6 DEF LinesAborted, FailureFrame, Call
    <3> QED  BY <3>1, FillIsWhole
  <2>7. CASE Refuse \/ BadSource \/ TempRootMissing \/ InferAnswers \/ HostAborts \/ UNCHANGED vars
    BY <2>7, OtherIsWhole
  <2> QED  BY <2>1, <2>2, <2>3, <2>4, <2>5, <2>6, <2>7 DEF Next
<1>3. FrameInv /\ WholeInv => WholeFrame
  <2> SUFFICES ASSUME FrameInv, WholeInv, step = "done", result = "OK", kind # "none",
                      NEW p \in Target, NEW b \in PixelBytes(frame.out, p[1], p[2])
               PROVE  /\ b \in DOMAIN memory
                      /\ memory[b] = <<Seen(p), b - PixelAddress(frame.out, p[1], p[2])>>
    BY DEF WholeFrame
  <2>1. /\ b \in DOMAIN memory
        /\ memory[b] = <<Image[p], b - PixelAddress(frame.out, p[1], p[2])>>
    BY DEF WholeInv, Holds
  <2>2. Image[p] = Seen(p)
    <3>1. Image[p] = Look(kind, frame.choices.mode, SourcePixel(p), Hint.values[p])
      BY DEF Image
    <3>2. CASE kind = "keyed"
      <4>1. Look(kind, frame.choices.mode, SourcePixel(p), Hint.values[p])
              = Keyed(frame.choices.mode, SourcePixel(p), Hint.values[p])
        BY <3>2 DEF Look
      <4> QED  BY <3>1, <3>2, <4>1 DEF Seen, Keyed
    <3>3. CASE kind # "keyed"
      <4>1. Seen(p) = Pixel(kind, p)
        BY <3>3 DEF Seen
      <4>2. frame \in FrameType /\ kind \in Kinds
        BY DEF FrameInv, PlaceInv, TypeOK
      <4> QED  BY <4>1, <4>2, PixelOfImage
    <3> QED  BY <3>2, <3>3
  <2> QED  BY <2>1, <2>2
<1> QED  BY <1>1, <1>2, <1>3, Invariance, PTL DEF Spec
=============================================================================
