----------------------------- MODULE FrameBlob -----------------------------
(***************************************************************************)
(* Frame blobs, the files in which the plugin and the sidecar hand frames  *)
(* to each other: writeFrameBlob and readFrameBlob of the plugin,          *)
(* _write_frame_blob and _read_frame_blob of the sidecar.                  *)
(*                                                                         *)
(* A file is a sequence of words of four bytes: the magic, the version,    *)
(* the bounds, the number of channels, then one word for each channel of   *)
(* each pixel, line after line.  Both sides write a coordinate as the      *)
(* same 32 bits.  A file that ends inside of a word is read like one that  *)
(* lacks the word, or, after the last word, like one that has another.     *)
(***************************************************************************)
EXTENDS FrameWindow, Sequences

CONSTANT MaxPixels   \* _MAX_STUB_PIXELS, the largest frame the sidecar reads

ASSUME MaxPixelsAssumption == MaxPixels \in Nat \ {0}

Channels == {1, 3, 4}
HeaderWords == 7

Header(bounds, channels) ==
  <<"CKFB", 1, bounds.x1, bounds.y1, bounds.x2, bounds.y2, channels>>

BoundsOf(file) == Rect(file[3], file[4], file[5], file[6])

PixelCount(bounds) == Width(bounds) * Height(bounds)
FrameBlobValueCount(bounds, channels) == PixelCount(bounds) * channels

\* Where the value of a channel of a pixel is, counted from 0.
BlobOffset(bounds, channels, x, y, c) ==
  ((y - bounds.y1) * Width(bounds) + (x - bounds.x1)) * channels + c

\* The values of a window in the order the loops of sourceBlobValues and
\* alphaBlobValues push them; pixel number i of a window is at PixelAt(w, i).
PixelAt(window, i) ==
  <<window.x1 + (i % Width(window)), window.y1 + (i \div Width(window))>>

BlobValues(window, channels, image) ==
  [k \in 1 .. FrameBlobValueCount(window, channels) |->
     image[PixelAt(window, (k - 1) \div channels)]]

\* The file the plugin and the sidecar write.
FrameBlob(bounds, channels, values) == Header(bounds, channels) \o values

-----------------------------------------------------------------------------

HeaderRead(file) ==
  Len(file) >= HeaderWords /\ file[1] = "CKFB" /\ file[2] = 1

ShapeRead(file) ==
  ~IsEmpty(BoundsOf(file)) /\ file[HeaderWords] \in Channels

\* Mutant of ReadFrameBlob: the shape of the file is taken as it is.
ReadFrameBlob_AnyShape(file, bounds, channels) ==
  /\ HeaderRead(file) /\ ShapeRead(file)
  /\ Len(file) = HeaderWords + FrameBlobValueCount(BoundsOf(file), file[HeaderWords])

\* Whether the plugin accepts an output blob; the exceptions it throws
\* otherwise all end the same way.
ReadFrameBlob(file, bounds, channels) ==
  /\ HeaderRead(file) /\ ShapeRead(file)
  /\ BoundsOf(file) = bounds /\ file[HeaderWords] = channels
  /\ Len(file) = HeaderWords + FrameBlobValueCount(bounds, channels)

\* Whether the sidecar accepts an input blob.
ServerReadFrameBlob(file, bounds, channels) ==
  /\ HeaderRead(file) /\ ShapeRead(file)
  /\ BoundsOf(file) = bounds /\ file[HeaderWords] = channels
  /\ PixelCount(bounds) <= MaxPixels
  /\ Len(file) = HeaderWords + FrameBlobValueCount(bounds, channels)

\* What a blob holds outside of its values.
Zero == <<"zero", 0, 0>>
One == <<"one", 0, 0>>

\* blobValue, of the blob that was read from a file.
BlobValue(file, x, y, c) ==
  LET bounds == BoundsOf(file)
      channels == file[HeaderWords]
  IN CASE ~Contains(bounds, x, y) -> Zero
       [] Contains(bounds, x, y) /\ c >= channels -> IF c = 3 THEN One ELSE Zero
       [] Contains(bounds, x, y) /\ c < channels ->
            file[HeaderWords + 1 + BlobOffset(bounds, channels, x, y, c)]
=============================================================================
