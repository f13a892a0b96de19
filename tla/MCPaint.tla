------------------------------- MODULE MCPaint --------------------------------
(***************************************************************************)
(* Instances of the paint firmware.                                        *)
(***************************************************************************)
EXTENDS PaintHistory

At(x, y) == [x |-> x, y |-> y]

\* A pixel of the font icon, one of the word "Exit", one of the first box of
\* both menus and of the canvas, and one of the word "Clear". The colour icon,
\* other boxes, the canvas elsewhere and pixels below the display are reached by
\* coordinates torn from two of them, such as (460, 4), (316, 114), (204, 4) and
\* (60, 370), or with a byte that was not read.
MenuPoints == {At(460, 260), At(60, 260), At(60, 114), At(60, 4)}

\* Two pixels of the canvas, the colour icon and the word "Exit".
CanvasPoints == {At(300, 100), At(300, 200), At(460, 10), At(30, 260)}
===============================================================================
