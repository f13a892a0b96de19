------------------------------ MODULE PaintMenus ------------------------------
(***************************************************************************)
(* The screens of hackathon/src/main.c: where a touch opens a menu, picks  *)
(* a colour or a font size, leaves a menu, clears or paints, and, from the *)
(* drawing calls, where the boxes of the two menus are on the display.     *)
(***************************************************************************)
EXTENDS Integers, Sequences, FiniteSets

\* The pixels the touch controller reports.
Screen == [x : 0 .. 479, y : 0 .. 271]

OnColorIcon(p) == p.x >= 453 /\ p.y <= 27
OnFontIcon(p)  == p.x >= 453 /\ p.y >= 245
OnExit(p)      == p.x \in 1 .. 60 /\ p.y \in 251 .. 272

\* touchX and touchY are arrays, so "touch.touchX > 0" is always true.
OnClear(p) == p.x <= 60 /\ p.y <= 20

\* Mutant: "&& touch.touchY[0] < 240" dropped.
OnCanvasToBottom(p) == p.x > 60 \/ p.y > 20

OnCanvas(p) == p.x > 60 \/ p.y \in 21 .. 239

\* The hit tests of the menus: five columns, two rows of colours.
HitLeft == <<40, 128, 216, 304, 392>>
HitTop  == <<78, 160>>
HitColor == << <<"BLACK", "RED", "GREEN", "BLUE", "GRAY">>,
               <<"YELLOW", "BROWN", "MAGENTA", "CYAN", "ORANGE">> >>

InColumn(p, j) == p.x \in HitLeft[j] .. HitLeft[j] + 48

\* Mutant: the colours are counted from the other end of a row.
ColorsAtReversed(p) ==
  {HitColor[b[1]][6 - b[2]] :
     b \in {b \in (1 .. 2) \X (1 .. 5) :
             InColumn(p, b[2]) /\ p.y \in HitTop[b[1]] .. HitTop[b[1]] + 48}}

\* What a touch on the colour menu selects: at most one colour.
ColorsAt(p) ==
  {HitColor[b[1]][b[2]] :
     b \in {b \in (1 .. 2) \X (1 .. 5) :
             InColumn(p, b[2]) /\ p.y \in HitTop[b[1]] .. HitTop[b[1]] + 48}}

\* Mutant: the fonts are numbered from 0.
FontsAtZero(p) ==
  {j - 1 : j \in {j \in 1 .. 5 : InColumn(p, j) /\ p.y \in 112 .. 156}}

\* What a touch on the font menu selects; only the first box starts at 112.
FontsAt(p) ==
  {j \in 1 .. 5 : InColumn(p, j) /\ p.y \in (IF j = 1 THEN 112 ELSE 116) .. 156}

-------------------------------------------------------------------------------
(* What is drawn. *)

color_array == <<"BLACK", "RED", "GREEN", "BLUE", "GRAY",
                 "YELLOW", "BROWN", "MAGENTA", "CYAN", "ORANGE">>

Box(left, top) == [x : left .. left + 47, y : top .. top + 47]

\* The square filled with color_array[k], k counted from 1: BSP_LCD_FillRect
\* of column j and row i, both loops of the code in one index.
ColorBox(k) ==
  LET i == (k - 1) \div 5
      j == ((k - 1) % 5) + 1
  IN  Box(j * 40 + (j - 1) * 48, 112 - 34 + i * 48 + i * 34)

\* A frame buffer, counted in pixels; that of layer 1 follows that of layer 0.
FramePixels == 480 * 272

\* BSP_LCD_FillRect writes a square of 2 + size pixels a side, row by row at a
\* distance of 480, from the pixel of p on.
FirstPixel(p) == 480 * p.y + p.x
LastPixel(p, size) == 480 * (p.y + 1 + size) + p.x + 1 + size

\* The layers whose buffer the square reaches when layer l is the active one.
FillRect(l, p, size) ==
  {k \in {0, 1} : /\ FramePixels * l + FirstPixel(p) < FramePixels * (k + 1)
                  /\ FramePixels * k <= FramePixels * l + LastPixel(p, size)}

\* The low byte of an LCD colour, what "(uint8_t)drawing_color" keeps.
LowByte(color) ==
  CASE color \in {"BLUE", "MAGENTA", "CYAN"} -> 255
    [] color = "GRAY"  -> 128
    [] color = "BROWN" -> 42
    [] OTHER           -> 0
===============================================================================
