---------------------------- MODULE FrameWindow ----------------------------
(***************************************************************************)
(* Rectangles, pixel formats, image views and alpha hints of the plugin    *)
(* (src/core): which pixels a window holds, at which bytes of an image a   *)
(* pixel lies, and where the alpha hint of a frame comes from.             *)
(*                                                                         *)
(* Coordinates are unbounded integers: a host's images are far from the    *)
(* ends of int.  A colour is a token; only where it came from matters.     *)
(***************************************************************************)
EXTENDS Integers

Rect(x1, y1, x2, y2) == [x1 |-> x1, y1 |-> y1, x2 |-> x2, y2 |-> y2]
Rects == [x1 : Int, y1 : Int, x2 : Int, y2 : Int]

Larger(a, b) == IF a < b THEN b ELSE a
Smaller(a, b) == IF a < b THEN a ELSE b

Width(r) == Larger(0, r.x2 - r.x1)
Height(r) == Larger(0, r.y2 - r.y1)
IsEmpty(r) == Width(r) = 0 \/ Height(r) = 0

Contains(r, x, y) == x >= r.x1 /\ x < r.x2 /\ y >= r.y1 /\ y < r.y2

\* An empty intersection is normalised to a point.
Intersect(a, b) ==
  LET r == Rect(Larger(a.x1, b.x1), Larger(a.y1, b.y1),
                Smaller(a.x2, b.x2), Smaller(a.y2, b.y2))
  IN IF IsEmpty(r) THEN Rect(r.x1, r.y1, r.x1, r.y1) ELSE r

\* The pixels the loops "for y1 <= y < y2, for x1 <= x < x2" visit.
Columns(r) == r.x1 .. r.x2 - 1
Lines(r) == r.y1 .. r.y2 - 1
Pixels(r) == Columns(r) \X Lines(r)

-----------------------------------------------------------------------------
(* Pixel formats. *)

Components == {"Unknown", "Alpha", "RGB", "RGBA"}
Depths == {"Unknown", "Byte", "Short", "Half", "Float"}

ComponentCount(components) ==
  CASE components = "Alpha" -> 1
    [] components = "RGB" -> 3
    [] components = "RGBA" -> 4
    [] OTHER -> 0

BytesPerComponent(depth) ==
  CASE depth = "Byte" -> 1
    [] depth \in {"Short", "Half"} -> 2
    [] depth = "Float" -> 4
    [] OTHER -> 0

Successes == {"Ok", "ByteFallback"}
FormatStatus == Successes \cup {"UnsupportedComponents", "UnsupportedPixelDepth",
                                "UnsupportedFielding", "MissingData", "InvalidRowBytes"}

InputDepthStatus(depth) ==
  CASE depth = "Byte" -> "ByteFallback"
    [] depth \in {"Half", "Float"} -> "Ok"
    [] OTHER -> "UnsupportedPixelDepth"

InputFormatStatus(v) ==
  IF v.components \in {"RGB", "RGBA"} THEN InputDepthStatus(v.depth)
                                      ELSE "UnsupportedComponents"

OutputFormatStatus(v) ==
  IF v.components \notin {"RGB", "RGBA"} THEN "UnsupportedComponents"
  ELSE IF v.depth \in {"Half", "Float"} THEN "Ok" ELSE "UnsupportedPixelDepth"

AlphaHintInputStatus(v) ==
  IF v.components = "Alpha" THEN InputDepthStatus(v.depth) ELSE InputFormatStatus(v)

-----------------------------------------------------------------------------
(* Image views.  Addresses are relative to the data pointer of the view,   *)
(* which is the first pixel of its first line; rowBytes may be negative.   *)

Views == [data : BOOLEAN, bounds : Rects, rowBytes : Int,
          components : Components, depth : Depths]

MaxInt == 2147483647

PixelStride(v) == ComponentCount(v.components) * BytesPerComponent(v.depth)

Magnitude(n) == IF n < 0 THEN -n ELSE n

RowBytesCanHoldBounds(v) ==
  LET minimum == Width(v.bounds) * PixelStride(v)
  IN /\ v.rowBytes # 0
     /\ minimum <= MaxInt
     /\ Magnitude(v.rowBytes) >= minimum

\* What a validation says of a view whose format has this status.
Validated(v, formatStatus) ==
  CASE ~v.data -> "MissingData"
    [] v.data /\ formatStatus \notin Successes -> formatStatus
    [] v.data /\ formatStatus \in Successes ->
         IF Width(v.bounds) > 0 /\ ~RowBytesCanHoldBounds(v) THEN "InvalidRowBytes"
                                                             ELSE formatStatus

ValidateInputView(v) == Validated(v, InputFormatStatus(v))
ValidateOutputView(v) == Validated(v, OutputFormatStatus(v))

PixelAddress(v, x, y) ==
  (y - v.bounds.y1) * v.rowBytes + (x - v.bounds.x1) * PixelStride(v)

\* The bytes writePixel writes for a pixel: all its components.
PixelBytes(v, x, y) ==
  PixelAddress(v, x, y) .. PixelAddress(v, x, y) + PixelStride(v) - 1

-----------------------------------------------------------------------------
(* Alpha hints.  A hint is one token for each pixel of the render window:  *)
(* the value of an image at a pixel, or the fallback.                      *)

Fallback == <<"one", 0, 0>>
Warnings == {"rough_fallback_used", "missing_hint_fallback", "invalid_hint_fallback"}

HintStatus == Warnings \cup {"external_present", "source_alpha_used", "red_channel_used"}

FallbackHint(window, status) ==
  [status |-> status, values |-> [p \in Pixels(window) |-> Fallback]]

CanReadChannel(v, channel) ==
  IF channel = "alpha" THEN v.components \in {"Alpha", "RGBA"}
                       ELSE v.components \in {"RGB", "RGBA"}

ValidateHintView(v, channel) ==
  IF v.data /\ ~CanReadChannel(v, channel) THEN "UnsupportedComponents"
  ELSE Validated(v, AlphaHintInputStatus(v))

\* Mutant of ExtractChannel: only the pixels outside of the image fall back.
ExtractChannel_PixelByPixel(image, v, window, channel, status) ==
  IF ValidateHintView(v, channel) \in Successes
  THEN [status |-> status,
        values |-> [p \in Pixels(window) |->
                      IF Contains(v.bounds, p[1], p[2]) THEN <<image, p[1], p[2]>>
                                                        ELSE Fallback]]
  ELSE FallbackHint(window, "invalid_hint_fallback")

\* One pixel of the window outside of the image invalidates the whole hint.
ExtractChannel(image, v, window, channel, status) ==
  IF /\ ValidateHintView(v, channel) \in Successes
     /\ \A p \in Pixels(window) : Contains(v.bounds, p[1], p[2])
  THEN [status |-> status,
        values |-> [p \in Pixels(window) |-> <<image, p[1], p[2]>>]]
  ELSE FallbackHint(window, "invalid_hint_fallback")

\* alphaHintSourceFromChoice and resolveAlphaHint; "hint" has a view only if
\* the host has an image for the hint clip.
ResolveAlphaHint(choice, source, hint, window) ==
  CASE choice = 1 ->
         IF source.components \in {"Alpha", "RGBA"}
         THEN ExtractChannel("source alpha", source, window, "alpha", "source_alpha_used")
         ELSE FallbackHint(window, "missing_hint_fallback")
    [] choice = 2 ->
         IF hint.there THEN ExtractChannel("hint red", hint.view, window, "red", "red_channel_used")
                       ELSE FallbackHint(window, "missing_hint_fallback")
    [] choice = 3 -> FallbackHint(window, "rough_fallback_used")
    [] OTHER ->
         IF hint.there THEN ExtractChannel("hint alpha", hint.view, window, "alpha", "external_present")
                       ELSE FallbackHint(window, "missing_hint_fallback")
=============================================================================
