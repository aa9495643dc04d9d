--------------------------- MODULE MCRenderFrame ---------------------------
(* An instance of RenderFrame for model checking: three families of calls,  *)
(* which vary the images, the hint and the parameters.                      *)
EXTENDS RenderFrame

View(bounds, components, depth, rowBytes) ==
  [data |-> TRUE, bounds |-> bounds, rowBytes |-> rowBytes,
   components |-> components, depth |-> depth]

Square == Rect(0, 0, 2, 2)
Aside == Rect(1, 0, 3, 2)

Choices(mode, hint) ==
  [mode |-> mode, screen |-> 0, quality |-> 1, colors |-> 0, hint |-> hint,
   backend |-> 0, despill |-> 5 * Unit]

Base ==
  [field |-> "None", window |-> Square,
   outputStatus |-> "OK", out |-> View(Square, "RGB", "Half", 14),
   sourceStatus |-> "OK", source |-> View(Square, "RGBA", "Half", 16),
   hint |-> [there |-> TRUE, view |-> View(Square, "Alpha", "Byte", 2)],
   hasMode |-> TRUE, choices |-> Choices(0, 0), bundle |-> TRUE, probe |-> TRUE]

Windows == {Square, Rect(-1, 1, 2, 2), Rect(0, 0, 2, 4), Rect(5, 5, 6, 6), Rect(1, 0, 1, 2)}

\* Padded, upside down, too narrow, elsewhere, of a format that is not
\* written, without data.
Images ==
  {View(Square, "RGB", "Half", 14), View(Square, "RGBA", "Half", -16),
   View(Square, "RGB", "Half", 8), View(Aside, "RGB", "Float", 24),
   View(Square, "RGB", "Byte", 6),
   [View(Square, "RGB", "Half", 12) EXCEPT !.data = FALSE]}

Sources ==
  {View(Square, "RGBA", "Half", 16), View(Aside, "RGB", "Byte", -6),
   View(Aside, "RGB", "Half", 4), View(Square, "Alpha", "Float", 8)}

Hints ==
  {[there |-> FALSE, view |-> InvalidView]}
    \cup {[there |-> TRUE, view |-> v] :
            v \in {View(Square, "Alpha", "Byte", 2), View(Square, "RGB", "Half", 12),
                   View(Rect(0, 0, 1, 2), "RGBA", "Float", 16),
                   View(Square, "Alpha", "Short", 4)}}

ByImages ==
  {[Base EXCEPT !.window = w, !.out = o, !.source = s, !.choices.mode = m] :
     w \in Windows, o \in Images, s \in Sources, m \in 0 .. 5}
  \cup
  {[Base EXCEPT !.window = w, !.out = o, !.source = s, !.hasMode = FALSE, !.probe = pr] :
     w \in Windows, o \in Images, s \in Sources, pr \in BOOLEAN}

ByHint ==
  {[Base EXCEPT !.window = w, !.hint = h, !.source = s, !.choices = Choices(m, c)] :
     w \in {Square, Rect(-1, 1, 2, 2)}, h \in Hints, c \in 0 .. 3, m \in {1, 3},
     s \in {View(Square, "RGBA", "Half", 16), View(Square, "RGB", "Half", 12)}}

ByParameters ==
  {[Base EXCEPT !.window = Rect(0, 0, 1, 1),
                !.choices = [mode |-> 1, screen |-> s, quality |-> q, colors |-> i,
                             hint |-> 0, backend |-> b, despill |-> d]] :
     s \in 0 .. 2, q \in 0 .. 2, i \in 0 .. 2, b \in 0 .. 4,
     d \in {0, 49, 50, 5 * Unit, 10 * Unit}}

ByHost ==
  {[Base EXCEPT !.field = f, !.outputStatus = o, !.sourceStatus = s, !.bundle = b,
                !.probe = p, !.hasMode = m, !.choices.mode = c] :
     f \in {"absent", "other"}, o \in {"OK", "Failed"},
     s \in {"OK", "Failed", "ErrBadHandle"}, b \in BOOLEAN, p \in BOOLEAN,
     m \in BOOLEAN, c \in {2, 4, 5}}

MCFrames == ByImages \cup ByHint \cup ByParameters \cup ByHost
=============================================================================
