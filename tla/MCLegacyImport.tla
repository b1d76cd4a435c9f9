--------------------------- MODULE MCLegacyImport ---------------------------
(* A small instance of LegacyImport for TLC. *)
EXTENDS LegacyImport, TLC

Box(x, y, w, h) == [x |-> x, y |-> y, w |-> w, h |-> h]

\* An upright exam of two pages, one box of which is not complete, and one that
\* is wider than the canvas; no old row has the ids one and three.
TwoExams ==
    2 :> [width |-> 3, height |-> 4,
          pages |-> <<<<Box(200, 50, 64, 40), None, Box(210, 100, 60, 40)>>,
                      <<Box(300, 50, 64, 40)>>>>]
    @@ 4 :> [width |-> 8, height |-> 3, pages |-> <<<<Box(100, 200, 60, 40)>>>>]
=============================================================================
