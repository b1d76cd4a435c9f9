-------------------------------- MODULE Coords --------------------------------
(***************************************************************************)
(* Boxes in the old 800x600 canvas and as fractions of a page's image      *)
(* (src/app/coords.py).  The floats of the code are exact fractions        *)
(* <<numerator, denominator>> here.                                        *)
(***************************************************************************)
EXTENDS Integers

CANVAS_WIDTH == 800
CANVAS_HEIGHT == 600

\* Letterbox.for_image: the scale that fits the image in, as a fraction.  The
\* image is drawn in the middle, so that along a side of the image and of the
\* canvas the drawn size and twice the offset are these over the denominator.
Scale(width, height) ==
    IF CANVAS_WIDTH * height <= CANVAS_HEIGHT * width THEN <<CANVAS_WIDTH, width>>
    ELSE <<CANVAS_HEIGHT, height>>

Drawn(side, scale) == side * scale[1]
Offset2(side, canvas, scale) == canvas * scale[2] - Drawn(side, scale)

\* Mutant: the padding is forgotten.
Unpadded(v, side, canvas, scale) == <<scale[2] * v, Drawn(side, scale)>>

\* (v - offset) / drawn, of a coordinate; v / drawn, of a size.
ToFraction(v, side, canvas, scale) ==
    <<2 * scale[2] * v - Offset2(side, canvas, scale), 2 * Drawn(side, scale)>>

SizeToFraction(v, side, scale) == <<scale[2] * v, Drawn(side, scale)>>

\* f * drawn + offset; f * drawn.
ToCanvas(f, side, canvas, scale) ==
    <<2 * f[1] * Drawn(side, scale) + f[2] * Offset2(side, canvas, scale),
      2 * f[2] * scale[2]>>

SizeToCanvas(f, side, scale) == <<f[1] * Drawn(side, scale), f[2] * scale[2]>>

canvas_to_normalized(b, width, height) ==
    LET s == Scale(width, height) IN
    [x |-> ToFraction(b.x, width, CANVAS_WIDTH, s),
     y |-> ToFraction(b.y, height, CANVAS_HEIGHT, s),
     w |-> SizeToFraction(b.w, width, s), h |-> SizeToFraction(b.h, height, s)]

normalized_to_canvas(b, width, height) ==
    LET s == Scale(width, height) IN
    [x |-> ToCanvas(b.x, width, CANVAS_WIDTH, s),
     y |-> ToCanvas(b.y, height, CANVAS_HEIGHT, s),
     w |-> SizeToCanvas(b.w, width, s), h |-> SizeToCanvas(b.h, height, s)]

\* The fraction f is the whole number v.
Is(f, v) == f[2] > 0 /\ f[1] = v * f[2]

\* A box in canvas space, given as fractions, is the box b.
SameBox(fb, b) == Is(fb.x, b.x) /\ Is(fb.y, b.y) /\ Is(fb.w, b.w) /\ Is(fb.h, b.h)
=============================================================================
