---------------------------- MODULE RenderFrame ----------------------------
(***************************************************************************)
(* One call of render() in src/ofx/OfxRender.cpp, byte by byte of the      *)
(* host's output image: what the plugin decides from the images and        *)
(* parameters the host gives it, the lines it writes, and the status       *)
(* parameters it leaves in its panel.                                      *)
(*                                                                         *)
(* The host may abort between any two lines.  What the sidecar does in     *)
(* between is OfxRender's subject; here it accepts or refuses the request  *)
(* and answers with output blobs, one of which may be spoilt.              *)
(***************************************************************************)
EXTENDS FrameBlob, InferContract, FiniteSets

CONSTANT Frames   \* the calls the host makes

FrameType ==
  [field : {"absent", "None", "other"},   \* kOfxImageEffectPropFieldToRender
   window : Rects,
   outputStatus : {"OK", "Failed"}, out : Views,
   sourceStatus : {"OK", "Failed", "ErrBadHandle"}, source : Views,
   hint : [there : BOOLEAN, view : Views],
   hasMode : BOOLEAN,                     \* ck_output_mode is defined
   choices : [mode : 0 .. 5, screen : 0 .. 2, quality : 0 .. 2, colors : 0 .. 2,
              hint : 0 .. 3, backend : 0 .. 4, despill : 0 .. 10 * Unit],
   bundle : BOOLEAN,                      \* the runtime bundle can be found
   probe : BOOLEAN]                       \* a status probe says "ok"

ASSUME FramesAssumption == Frames \subseteq FrameType

VARIABLES
  frame,     \* the call
  step,      \* where the call is
  kind,      \* what is being written
  line,      \* the next line to be written
  memory,    \* the bytes written so far, with the pixel value and position
  panel,     \* status parameters
  reply,     \* how the sidecar answered
  aborted,   \* the host has asked to abort
  result     \* the status the host gets

vars == <<frame, step, kind, line, memory, panel, reply, aborted, result>>

Kinds == {"none", "copied", "hint", "keyed", "status", "clear"}
Statuses == {"none", "OK", "Failed", "ErrUnsupported", "ErrBadHandle", "ErrUnknown"}
Outputs == {"processed", "straight", "alpha"}
Spoils == {"short", "long", "shifted", "thin"}
Replies == {<<"none", "exact">>} \cup (Outputs \X Spoils)

\* Mutant of WriteWindow: the render window is not clipped to the image.
WriteWindow_Unclipped == frame.window

\* The window that is written: the part of the render window in the image.
WriteWindow == Intersect(frame.window, frame.out.bounds)

TypeOK ==
  /\ frame \in FrameType
  /\ step \in {"begin", "infer", "readback", "writing", "done"}
  /\ kind \in Kinds
  /\ line \in Int
  /\ DOMAIN memory \subseteq Int
  /\ panel \in [state : {"old", "ready", "error", "cancelled"},
                lastError : {"old", "", "diagnostic", "failure"},
                guide : HintStatus \cup {"old"}]
  /\ reply \in Replies
  /\ aborted \in BOOLEAN
  /\ result \in Statuses

Init ==
  /\ frame \in Frames
  /\ step = "begin" /\ kind = "none" /\ line = 0 /\ memory = <<>>
  /\ panel = [state |-> "old", lastError |-> "old", guide |-> "old"]
  /\ reply = <<"none", "exact">>
  /\ aborted = FALSE /\ result = "none"

-----------------------------------------------------------------------------
(* What the images hold. *)

OfxStatus(formatStatus) ==
  CASE formatStatus \in Successes -> "OK"
    [] formatStatus \in {"MissingData", "InvalidRowBytes"} -> "Failed"
    [] OTHER -> "ErrUnsupported"

\* imageView, of an image whose format has this status.
ImageView(v, formatStatus) ==
  IF formatStatus \in Successes /\ ~v.data THEN "Failed" ELSE OfxStatus(formatStatus)

InvalidView ==
  [data |-> FALSE, bounds |-> Rect(0, 0, 0, 0), rowBytes |-> 0,
   components |-> "Unknown", depth |-> "Unknown"]

\* The hint image as it is given to resolveAlphaHint.
HintView ==
  [frame.hint EXCEPT !.view =
     IF ImageView(@, AlphaHintInputStatus(@)) = "OK" THEN @ ELSE InvalidView]

Hint == ResolveAlphaHint(frame.choices.hint, frame.source, HintView, frame.window)

InSource(p) == Contains(frame.source.bounds, p[1], p[2])

SourcePixel(p) == IF InSource(p) THEN <<"source", p[1], p[2]>> ELSE Zero

\* The input blobs of an inference.
SourceBlob ==
  FrameBlob(frame.window, 4, BlobValues(frame.window, 4, [p \in Pixels(frame.window) |-> SourcePixel(p)]))

HintBlob ==
  FrameBlob(frame.window, 1, BlobValues(frame.window, 1, Hint.values))

\* Channel c of the output for pixel number i, as the stub and the backends
\* compute it from what the input blobs hold for pixel number i.
KeyedValue(name, i, c) ==
  <<name, c, SourceBlob[HeaderWords + 1 + 4 * i], HintBlob[HeaderWords + 1 + i]>>

OutputChannels(name) ==
  CASE name = "processed" -> 4 [] name = "straight" -> 3 [] name = "alpha" -> 1

ExactBlob(name) ==
  LET channels == OutputChannels(name)
  IN FrameBlob(frame.window, channels,
       [k \in 1 .. FrameBlobValueCount(frame.window, channels) |->
          KeyedValue(name, (k - 1) \div channels, (k - 1) % channels)])

\* An output blob as the plugin finds it.
OutputBlob(name) ==
  LET exact == ExactBlob(name)
      w == frame.window
  IN IF reply[1] # name THEN exact
     ELSE CASE reply[2] = "short" -> SubSeq(exact, 1, Len(exact) - 1)
            [] reply[2] = "long" -> Append(exact, Zero)
            [] reply[2] = "shifted" ->
                 Header(Rect(w.x1 + 1, w.y1, w.x2 + 1, w.y2), OutputChannels(name))
                   \o SubSeq(exact, HeaderWords + 1, Len(exact))
            [] reply[2] = "thin" ->
                 Header(w, IF name = "alpha" THEN 3 ELSE 1)
                   \o SubSeq(exact, HeaderWords + 1, Len(exact))

OutputModeNeeds(mode) ==
  (IF mode \in {0, 4} THEN {"processed"} ELSE {})
    \cup (IF mode = 2 THEN {"straight"} ELSE {})
    \cup (IF mode \in {1, 2, 4} THEN {"alpha"} ELSE {})

\* The pixel written for an output mode: writeBlobRgba, writeMatte,
\* writeStraightFg, writeCheckerComp.
KeyedPixel(p) ==
  LET V(name, c) == BlobValue(OutputBlob(name), p[1], p[2], c)
      mode == frame.choices.mode
  IN CASE mode = 0 -> <<"rgba", [c \in 0 .. 3 |-> V("processed", c)]>>
       [] mode = 1 -> <<"matte", [c \in 0 .. 0 |-> V("alpha", c)]>>
       [] mode = 2 -> <<"straight", [c \in 0 .. 3 |-> IF c < 3 THEN V("straight", c)
                                                      ELSE V("alpha", 0)]>>
       [] mode = 4 -> <<"checker", [c \in 0 .. 3 |-> IF c < 3 THEN V("processed", c)
                                                     ELSE V("alpha", 0)]>>

Pixel(what, p) ==
  CASE what = "copied" -> SourcePixel(p)
    [] what = "hint" -> Hint.values[p]
    [] what = "keyed" -> KeyedPixel(p)
    [] what = "status" -> <<"status", 0, 0>>
    [] what = "clear" -> Zero

-----------------------------------------------------------------------------
(* Writing. *)

Over(f, g) ==
  [b \in DOMAIN f \cup DOMAIN g |-> IF b \in DOMAIN f THEN f[b] ELSE g[b]]

\* The bytes of some pixels, and which pixel each belongs to.
Written(what, pixels) ==
  LET Bytes(p) == PixelBytes(frame.out, p[1], p[2])
  IN [b \in UNION {Bytes(p) : p \in pixels} |->
        LET p == CHOOSE q \in pixels : b \in Bytes(q)
        IN <<Pixel(what, p), b - PixelAddress(frame.out, p[1], p[2])>>]

Return(status) == step' = "done" /\ result' = status

\* renderStatusFrame looks at the window before it looks at the row bytes,
\* fillWindowTransparent after it.
FillStatus(what) ==
  IF what = "status" /\ IsEmpty(WriteWindow) THEN OutputFormatStatus(frame.out)
                                             ELSE ValidateOutputView(frame.out)

\* The whole window is filled, line by line along increasing addresses or
\* decreasing ones; nothing stops it but an image it cannot write to.
Fill(what) ==
  /\ kind' = what
  /\ memory' = IF FillStatus(what) \in Successes
               THEN Over(Written(what, Pixels(WriteWindow)), memory) ELSE memory
  /\ Return(OfxStatus(FillStatus(what)))
  /\ UNCHANGED line

StartWriting(what) ==
  /\ step' = "writing" /\ kind' = what /\ line' = WriteWindow.y1
  /\ UNCHANGED <<memory, result>>

\* updateStatusParams with the surface of a failure or a cancellation.
Panel(state) == [panel EXCEPT !.state = state, !.lastError = "failure"]

-----------------------------------------------------------------------------
(* The decisions of render() up to the first line. *)

\* No action of the call changes these.
Call == <<frame, aborted>>

\* The refusals before anything is drawn, in the order of the code.
Refused ==
  CASE frame.field = "other" -> OfxStatus("UnsupportedFielding")
    [] frame.field # "other" /\ IsEmpty(frame.window) -> "OK"
    [] frame.field # "other" /\ ~IsEmpty(frame.window) ->
         IF frame.outputStatus # "OK" THEN frame.outputStatus
         ELSE ImageView(frame.out, OutputFormatStatus(frame.out))

Accepted ==
  /\ frame.field # "other" /\ ~IsEmpty(frame.window)
  /\ Refused = "OK"

Refuse ==
  /\ step = "begin" /\ ~Accepted
  /\ Return(Refused)
  /\ UNCHANGED <<Call, kind, line, memory, panel, reply>>

\* Output mode 5.
StatusRender ==
  /\ step = "begin" /\ Accepted
  /\ frame.hasMode /\ frame.choices.mode = 5
  /\ Fill("status")
  /\ panel' = IF ~frame.bundle THEN panel
              ELSE IF frame.probe THEN [panel EXCEPT !.state = "ready", !.lastError = ""]
              ELSE Panel("error")
  /\ UNCHANGED <<Call, reply>>

IsStatusRender == frame.hasMode /\ frame.choices.mode = 5

\* Without the output mode parameter the runtime must answer a probe before
\* the source is copied.
ProbeFails ==
  /\ step = "begin" /\ Accepted /\ ~frame.hasMode
  /\ frame.bundle /\ ~frame.probe
  /\ Fill("status")
  /\ UNCHANGED <<Call, panel, reply>>

Probed == Accepted /\ ~IsStatusRender /\ (frame.hasMode \/ ~frame.bundle \/ frame.probe)

NoSource ==
  /\ step = "begin" /\ Probed /\ frame.sourceStatus = "Failed"
  /\ Fill("clear")
  /\ UNCHANGED <<Call, panel, reply>>

SourceView ==
  IF frame.sourceStatus # "OK" THEN frame.sourceStatus
  ELSE ImageView(frame.source, InputFormatStatus(frame.source))

BadSource ==
  /\ step = "begin" /\ Probed /\ frame.sourceStatus # "Failed" /\ SourceView # "OK"
  /\ Return(SourceView)
  /\ UNCHANGED <<Call, kind, line, memory, panel, reply>>

\* The hint is resolved and shown in the panel, then the output mode decides.
Dispatch ==
  /\ step = "begin" /\ Probed /\ SourceView = "OK"
  /\ LET shown == [panel EXCEPT !.guide = Hint.status]
     IN \/ /\ ~frame.hasMode
           /\ StartWriting("copied") /\ panel' = shown
        \/ /\ frame.hasMode /\ frame.choices.mode = 3
           /\ StartWriting("hint") /\ panel' = shown
        \/ /\ frame.hasMode /\ frame.choices.mode # 3 /\ ~frame.bundle
           /\ Fill("status") /\ panel' = shown
        \/ /\ frame.hasMode /\ frame.choices.mode # 3 /\ frame.bundle
           /\ step' = "infer" /\ panel' = shown
           /\ UNCHANGED <<kind, line, memory, result>>
  /\ UNCHANGED <<Call, reply>>

-----------------------------------------------------------------------------
(* The inference, renderInferOutputMode. *)

TheContract == Contract(frame.choices, frame.window, "job")

SourceReadable ==
  \/ ValidateInputView(frame.source) \in Successes
  \/ \A p \in Pixels(frame.window) : ~InSource(p)

RequestAccepted ==
  /\ ValidInferRequestContract(TheContract)
  /\ ValidateInferPayload(InferRequest(TheContract))
  /\ ServerReadFrameBlob(SourceBlob, frame.window, 4)
  /\ ServerReadFrameBlob(HintBlob, frame.window, 1)

\* The temporary directory of the job is named before the code that turns
\* failures into status frames: if the host has none, the exception leaves
\* render(), and mainEntry reports an unknown error.
TempRootMissing ==
  /\ step = "infer"
  /\ Return("ErrUnknown")
  /\ UNCHANGED <<Call, kind, line, memory, panel, reply>>

\* Mutant of FailureFrame: a frame that fails is left transparent.
FailureFrame_Clear(state) == Fill("clear") /\ panel' = Panel(state)

\* The status frame of a failure or of a cancellation, and the panel.
FailureFrame(state) == Fill("status") /\ panel' = Panel(state)

\* Writing the input blobs, the request or the sidecar fails.
InferFails ==
  /\ step = "infer"
  /\ \/ FailureFrame("error")
     \/ aborted /\ FailureFrame("cancelled")
  /\ UNCHANGED <<Call, reply>>

\* Mutant of InferAnswers: a clean answer leaves the last error alone.
InferAnswers_KeepsError ==
  /\ step = "infer" /\ SourceReadable /\ RequestAccepted
  /\ reply' \in Replies
  /\ \E error \in {panel.lastError, "diagnostic"} : panel' = [panel EXCEPT !.lastError = error]
  /\ step' = "readback"
  /\ UNCHANGED <<Call, kind, line, memory, result>>

\* updateInferStatusParams: a clean answer clears the last error, one with
\* a downgrade or out of memory explains itself.
InferAnswers ==
  /\ step = "infer" /\ SourceReadable /\ RequestAccepted
  /\ reply' \in Replies
  /\ \E error \in {"", "diagnostic"} : panel' = [panel EXCEPT !.lastError = error]
  /\ step' = "readback"
  /\ UNCHANGED <<Call, kind, line, memory, result>>

OutputsRead ==
  \A name \in OutputModeNeeds(frame.choices.mode) :
    ReadFrameBlob(OutputBlob(name), frame.window, OutputChannels(name))

ReadBack ==
  /\ step = "readback" /\ ~aborted
  /\ IF OutputsRead THEN StartWriting("keyed") /\ UNCHANGED panel
                    ELSE FailureFrame("error")
  /\ UNCHANGED <<Call, reply>>

ReadBackAborted ==
  /\ step = "readback" /\ aborted
  /\ FailureFrame("cancelled")
  /\ UNCHANGED <<Call, reply>>

-----------------------------------------------------------------------------
(* The lines: copyWindowWithAbort and writeWindowPixels. *)

Linewise == {p \in Pixels(WriteWindow) : p[2] = line}

\* Reading the source fails at the first pixel inside of it.
Unreadable(p) ==
  kind = "copied" /\ InSource(p) /\ ValidateInputView(frame.source) \notin Successes

\* What of the line is written before a pixel fails: all, some or nothing.
Writable ==
  IF ValidateOutputView(frame.out) \notin Successes THEN {}
  ELSE {p \in Linewise : \A q \in Linewise : q[1] <= p[1] => ~Unreadable(q)}

WriteLine ==
  /\ step = "writing" /\ line < WriteWindow.y2 /\ ~aborted
  /\ memory' = Over(Written(kind, Writable), memory)
  /\ IF Writable = Linewise
     THEN line' = line + 1 /\ UNCHANGED <<step, result>>
     ELSE Return("Failed") /\ UNCHANGED line
  /\ UNCHANGED <<Call, kind, panel, reply>>

LinesEnd ==
  /\ step = "writing" /\ line >= WriteWindow.y2
  /\ Return("OK")
  /\ UNCHANGED <<Call, kind, line, memory, panel, reply>>

\* RenderCancelled is thrown between two lines.  Only the inference tells
\* the panel; the others draw the status frame.
LinesAborted ==
  /\ step = "writing" /\ line < WriteWindow.y2 /\ aborted
  /\ IF kind = "keyed" THEN FailureFrame("cancelled")
                       ELSE Fill("status") /\ UNCHANGED panel
  /\ UNCHANGED <<Call, reply>>

HostAborts ==
  /\ step # "done" /\ ~aborted
  /\ aborted' = TRUE
  /\ UNCHANGED <<frame, step, kind, line, memory, panel, reply, result>>

Next ==
  \/ Refuse \/ StatusRender \/ ProbeFails \/ NoSource \/ BadSource \/ Dispatch
  \/ TempRootMissing \/ InferFails \/ InferAnswers \/ ReadBack \/ ReadBackAborted
  \/ WriteLine \/ LinesEnd \/ LinesAborted
  \/ HostAborts

Spec == Init /\ [][Next]_vars

-----------------------------------------------------------------------------
(* What getClipPreferences tells the host about the output. *)

OutputPremultiplication(mode) ==
  CASE mode = 0 -> "premultiplied"
    [] mode \in {1, 2, 3} -> "unpremultiplied"
    [] mode \in {4, 5} -> "opaque"

-----------------------------------------------------------------------------
(* Properties. *)

Target == Pixels(frame.window) \cap Pixels(frame.out.bounds)

\* Whatever the call does, it writes no byte but those of pixels that are
\* both in the render window and in the image: not the padding of a line,
\* not the pixels next to the window, nothing outside of the buffer.
OnlyTheWindow ==
  \A b \in DOMAIN memory : \E p \in Target : b \in PixelBytes(frame.out, p[1], p[2])

\* What the host must see at a pixel, however it travelled: for a keyed
\* frame, what the sidecar made of this pixel of the source and the hint.
Seen(p) ==
  LET K(name, c) == <<name, c, SourcePixel(p), Hint.values[p]>>
      mode == frame.choices.mode
  IN IF kind # "keyed" THEN Pixel(kind, p)
     ELSE CASE mode = 0 -> <<"rgba", [c \in 0 .. 3 |-> K("processed", c)]>>
            [] mode = 1 -> <<"matte", [c \in 0 .. 0 |-> K("alpha", 0)]>>
            [] mode = 2 -> <<"straight", [c \in 0 .. 3 |-> IF c < 3 THEN K("straight", c)
                                                           ELSE K("alpha", 0)]>>
            [] mode = 4 -> <<"checker", [c \in 0 .. 3 |-> IF c < 3 THEN K("processed", c)
                                                          ELSE K("alpha", 0)]>>

\* When the host is told that all is well, every byte of the window holds
\* one and the same frame: nothing of it is missing, none of it was written
\* over by another pixel, no line is left of a frame that was given up, and
\* a keyed pixel comes from the pixel at its place.
WholeFrame ==
  step = "done" /\ result = "OK" /\ kind # "none" =>
    \A p \in Target : \A b \in PixelBytes(frame.out, p[1], p[2]) :
      /\ b \in DOMAIN memory
      /\ memory[b] = <<Seen(p), b - PixelAddress(frame.out, p[1], p[2])>>

\* The guide status in the panel tells the truth about the hint that is
\* shown or keyed with: without a warning every pixel of it comes from the
\* image, with one none does.
GuideHonest ==
  step = "done" /\ kind = "hint" =>
    \A b \in DOMAIN memory :
      (panel.guide \in Warnings) <=> (memory[b][1] = Fallback)

OutputModesOfInference == {0, 1, 2, 4}

\* A call that asked for an inference, and had a place for its files, leaves
\* no error of an earlier call in the panel, and shows an error there exactly
\* if it shows the status frame.
NoStaleError ==
  step = "done" /\ result # "ErrUnknown" /\ panel.guide # "old" /\ frame.hasMode /\ frame.bundle
    /\ frame.choices.mode \in OutputModesOfInference =>
      /\ panel.lastError # "old"
      /\ kind = "status" <=> panel.lastError = "failure"

\* The sidecar takes whatever the plugin sends it: every choice the plugin
\* offers is one the sidecar knows, the hash it computes is the one it is
\* sent, and the input blobs have the shape it expects.
RequestsAccepted ==
  step = "infer" /\ SourceReadable /\ PixelCount(frame.window) <= MaxPixels =>
    RequestAccepted

\* Where the output was declared opaque, every pixel written is, unless
\* there was no source.
OpaqueFrames ==
  frame.hasMode /\ frame.sourceStatus = "OK"
    /\ OutputPremultiplication(frame.choices.mode) = "opaque" =>
      \A b \in DOMAIN memory : memory[b][1][1] \in {"status", "checker"}
=============================================================================
