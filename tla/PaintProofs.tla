----------------------------- MODULE PaintProofs ------------------------------
(***************************************************************************)
(* For any set of points on the display and any number of failed reads:    *)
(* type correctness of the paint firmware, that the layer shown is the one *)
(* the loop believes in, that clearing ends with its round, what the frame *)
(* buffers hold, that a square of the colour menu selects the colour it    *)
(* shows, that one touch does one thing, and what wipes a picture.         *)
(***************************************************************************)
EXTENDS PaintHistory, TLAPS

\* During start-up the drawing screen is the current one.
StartsDrawing == ~InterruptOn => layer_status = "DRAWING_LAYER"

\* The layers follow layer_status because nothing leaves the start-up or a
\* round with the two apart; the test for "Clear" is part of it because
\* CLEAR_LAYER is a state of the drawing screen, and MenuClean because what
\* is drawn to depends on the layer.
ScreenInv == TypeOK /\ StartsDrawing /\ LayerShown /\ ClearEnds /\ MenuClean

-------------------------------------------------------------------------------
(* What the panel driver makes of the registers. *)

LEMMA PixelRange ==
  ASSUME NEW p \in Points \cup {Origin}
  PROVE  p.x \in 0 .. 479 /\ p.y \in 0 .. 271
BY PointsAssumption DEF Origin, Screen

\* A byte fits, and a high one is at most 1 once its flags are gone.
LEMMA KeptFits ==
  ASSUME NEW p \in Points \cup {Origin}, NEW flags \in {0, 8}, NEW k \in 1 .. 4,
         NEW r \in {Registers(p, flags)[k], 0}
  PROVE  Kept(k, r) \in 0 .. 255 /\ (k % 2 = 0 => Kept(k, r) <= 1)
<1>1. p.x \in 0 .. 479 /\ p.y \in 0 .. 271
  BY PixelRange
<1>2. /\ p.x % 256 \in 0 .. 255 /\ p.x \div 256 \in 0 .. 1
      /\ p.y % 256 \in 0 .. 255 /\ p.y \div 256 \in 0 .. 1
  BY <1>1
<1>3. CASE r = 0
  BY <1>3 DEF Kept
<1>4. CASE r = Registers(p, flags)[k]
  <2>1. CASE k = 1 \/ k = 3
    BY <1>2, <1>4, <2>1 DEF Registers, Kept
  <2>2. CASE k = 2 \/ k = 4
    <3>1. \E h \in 0 .. 1 : r = 16 * flags + h
      BY <1>2, <1>4, <2>2 DEF Registers
    <3>2. r % 16 \in 0 .. 1
      BY <3>1
    <3> QED BY <2>2, <3>2 DEF Kept
  <2> QED BY <2>1, <2>2
<1> QED BY <1>3, <1>4

LEMMA PositionFits ==
  ASSUME NEW b \in [1 .. 4 -> 0 .. 255], b[2] <= 1, b[4] <= 1
  PROVE  Position(b) \in Reported
<1>1. b[1] \in 0 .. 255 /\ b[2] \in 0 .. 1 /\ b[3] \in 0 .. 255 /\ b[4] \in 0 .. 1
  OBVIOUS
<1>2. b[3] + 256 * b[4] \in 0 .. 511 /\ b[1] + 256 * b[2] \in 0 .. 511
  BY <1>1
<1> QED BY <1>2 DEF Position, Reported, Coordinate

\* What the loop holds of the panel.
ReadOK ==
  /\ touch \in Reported
  /\ reg \in 1 .. 4
  /\ bytes \in [1 .. 4 -> 0 .. 255] /\ bytes[2] <= 1 /\ bytes[4] <= 1
  /\ faults \in 0 .. MaxFaults

\* One more register keeps the bytes, and the coordinates made of the last one,
\* in range.
LEMMA GetXYFits ==
  ASSUME TypeOK, GetXY PROVE ReadOK'
<1>1. PICK flags \in {0, 8} : \E r \in {Registers(p1, flags)[reg], 0} :
        LET b == [bytes EXCEPT ![reg] = Kept(reg, r)]
        IN  /\ TS_IO_Read(Registers(p1, flags)[reg], r)
            /\ \/ /\ reg < 4 /\ reg' = reg + 1
                  /\ bytes' = b
                  /\ UNCHANGED <<touch, pc>>
               \/ /\ reg = 4 /\ reg' = 1
                  /\ touch' = Position(b) /\ bytes' = NoBytes
                  /\ pc' = "clear"
  BY DEF GetXY
<1>2. PICK r \in {Registers(p1, flags)[reg], 0} :
        LET b == [bytes EXCEPT ![reg] = Kept(reg, r)]
        IN  /\ TS_IO_Read(Registers(p1, flags)[reg], r)
            /\ \/ /\ reg < 4 /\ reg' = reg + 1
                  /\ bytes' = b
                  /\ UNCHANGED <<touch, pc>>
               \/ /\ reg = 4 /\ reg' = 1
                  /\ touch' = Position(b) /\ bytes' = NoBytes
                  /\ pc' = "clear"
  BY <1>1
<1> DEFINE b == [bytes EXCEPT ![reg] = Kept(reg, r)]
<1>3. reg \in 1 .. 4 /\ p1 \in Points \cup {Origin} /\ bytes \in [1 .. 4 -> 0 .. 255]
  BY DEF TypeOK
<1>4. Kept(reg, r) \in 0 .. 255 /\ (reg % 2 = 0 => Kept(reg, r) <= 1)
  <2>1. reg \in 1 .. 4 /\ p1 \in Points \cup {Origin}
    BY <1>3
  <2> QED BY ONLY <2>1, flags \in {0, 8}, r \in {Registers(p1, flags)[reg], 0}, KeptFits, ZenonT(30)
<1>5. b \in [1 .. 4 -> 0 .. 255] /\ b[2] <= 1 /\ b[4] <= 1
  <2>1. b \in [1 .. 4 -> 0 .. 255]
    BY <1>3, <1>4
  <2>2. /\ b[2] = IF reg = 2 THEN Kept(reg, r) ELSE bytes[2]
        /\ b[4] = IF reg = 4 THEN Kept(reg, r) ELSE bytes[4]
    BY <1>3
  <2>3. bytes[2] <= 1 /\ bytes[4] <= 1
    BY DEF TypeOK
  <2> QED BY <1>4, <2>1, <2>2, <2>3
<1>6. faults' \in 0 .. MaxFaults
  BY <1>2, FaultsAssumption DEF TS_IO_Read, TypeOK
<1>7. CASE reg < 4
  <2>1. bytes' = b /\ reg' = reg + 1 /\ touch' = touch
    BY <1>2, <1>7
  <2>2. reg' \in 1 .. 4
    BY <1>3, <1>7, <2>1
  <2> QED BY <1>5, <1>6, <2>1, <2>2 DEF ReadOK, TypeOK
<1>8. CASE reg = 4
  <2>1. touch' = Position(b) /\ bytes' = NoBytes /\ reg' = 1
    BY <1>2, <1>8
  <2>2. Position(b) \in Reported
    BY <1>5, PositionFits
  <2> QED BY <1>6, <2>1, <2>2 DEF ReadOK, NoBytes
<1> QED BY <1>3, <1>7, <1>8

-------------------------------------------------------------------------------

LEMMA ColorsAreColors ==
  ASSUME NEW p PROVE ColorsAt(p) \subseteq Colors
<1>1. \A r \in 1 .. 2, j \in 1 .. 5 : HitColor[r][j] \in Colors
  <2>1. \A k \in 1 .. 10 : color_array[k] \in Colors
    BY DEF Colors
  <2>2. /\ \A j \in 1 .. 5 : HitColor[1][j] = color_array[j]
        /\ \A j \in 1 .. 5 : HitColor[2][j] = color_array[j + 5]
    BY DEF HitColor, color_array
  <2> QED BY <2>1, <2>2
<1> QED BY <1>1 DEF ColorsAt

LEMMA FontsAreSizes ==
  ASSUME NEW p PROVE FontsAt(p) \subseteq 1 .. 5
BY DEF FontsAt

LEMMA PackageFits ==
  ASSUME NEW at \in Reported, NEW color, NEW size \in 1 .. 5
  PROVE  Package(at, color, size) \in Packages
<1>1. LowByte(color) \in {0, 42, 128, 255}
  BY DEF LowByte
<1>2. at.x % 256 \in 0 .. 255 /\ at.y % 256 \in 0 .. 255
  BY DEF Reported, Coordinate
<1>3. size + 3 \in 4 .. 8
  OBVIOUS
<1> QED BY <1>1, <1>2, <1>3 DEF Package, Packages

LEMMA ScreenStarts == Init => ScreenInv
<1>1. "BLACK" \in Colors
  <2>1. color_array[1] = "BLACK"
    BY DEF color_array
  <2> QED BY <2>1 DEF Colors
<1>2. Init => TypeOK
  <2> SUFFICES ASSUME Init PROVE TypeOK
    OBVIOUS
  <2>1. touch_flag \in BOOLEAN /\ instance \in BOOLEAN
    BY DEF Init
  <2>2. /\ font_size \in 1 .. 5 /\ visible \subseteq {0, 1}
        /\ dirty \subseteq {0, 1} /\ selected \in {0, 1}
    BY DEF Init
  <2>3. /\ finger \in Points \cup {NoPoint} /\ p1 \in Points \cup {Origin}
        /\ tx \in Packages \cup {NoPoint}
    BY DEF Init
  <2>4. ReadOK
    BY FaultsAssumption DEF Init, NoBytes, ReadOK, Origin, Reported, Coordinate
  <2> QED BY <1>1, <2>1, <2>2, <2>3, <2>4 DEF Init, TypeOK, ReadOK, Layers
<1>3. Init => StartsDrawing /\ LayerShown /\ ClearEnds /\ MenuClean
  BY DEF Init, StartsDrawing, LayerShown, ClearEnds, MenuClean, InterruptOn
<1> QED BY <1>2, <1>3 DEF ScreenInv

\* The panel's steps write only finger, its registers and touch_flag.
LEMMA PanelKeeps ==
  ASSUME ScreenInv, Panel PROVE ScreenInv'
<1>1. /\ finger' \in Points \cup {NoPoint} /\ p1' \in Points \cup {Origin}
      /\ touch_flag' \in BOOLEAN
  BY DEF ScreenInv, TypeOK, Panel, Press, Hold, Lift, Exti
<1>2. UNCHANGED panelFrame
  BY DEF Panel, Press, Hold, Lift
<1> QED
  BY <1>1, <1>2 DEF ScreenInv, TypeOK, StartsDrawing, LayerShown, ClearEnds,
     MenuClean, InterruptOn, panelFrame, readVars, penVars, lcdVars, uartVars

LEMMA StartUpKeeps ==
  ASSUME ScreenInv, StartUp PROVE ScreenInv'
<1> USE DEF ScreenInv, TypeOK, StartsDrawing, LayerShown, ClearEnds, MenuClean,
            InterruptOn, panelVars, readVars, penVars, lcdVars, uartVars
<1>1. CASE UartInit
  BY <1>1 DEF UartInit
<1>2. CASE UartSet
  BY <1>2 DEF UartSet
<1>3. CASE LcdInit
  <2>1. visible' = {0} /\ selected' = 0
    <3>1. visible' = (visible \cup {0}) \ {1} /\ selected' = 0
      BY <1>3 DEF LcdInit, ShowLayer
    <3>2. visible \subseteq {0, 1} /\ 0 # 1
      OBVIOUS
    <3> QED BY ONLY <3>1, <3>2
  <2>2. layer_status' = "DRAWING_LAYER" /\ pc' = "poll"
    BY <1>3 DEF LcdInit
  <2>3. dirty' \subseteq {0, 1}
    BY <1>3 DEF LcdInit, Clear
  <2> QED BY <1>3, <2>1, <2>2, <2>3 DEF LcdInit
<1> QED BY <1>1, <1>2, <1>3 DEF StartUp

\* The steps of a round up to the else-if chain.
LEMMA ReadingKeeps ==
  ASSUME ScreenInv, Poll \/ Read \/ ClearFlag PROVE ScreenInv'
<1> USE DEF ScreenInv, TypeOK, StartsDrawing, LayerShown, ClearEnds, MenuClean,
            InterruptOn, panelVars, readVars, penVars, lcdVars, uartVars
<1>1. CASE Poll
  BY <1>1 DEF Poll
<1>2. CASE DetectTouch
  <2>1. faults' \in 0 .. MaxFaults /\ pc' \in {"clear", "getxy"}
    BY <1>2, FaultsAssumption DEF DetectTouch, TS_IO_Read
  <2> QED BY <1>2, <2>1 DEF DetectTouch
<1>3. CASE GetXY
  <2>1. ReadOK'
    BY <1>3, GetXYFits
  <2>2. /\ pc = "getxy" /\ pc' \in {"getxy", "clear"}
        /\ UNCHANGED <<panelVars, layer_status, penVars, lcdVars, uartVars>>
    BY <1>3 DEF GetXY
  <2> QED BY <2>1, <2>2 DEF ReadOK
<1>4. CASE ClearFlag
  BY <1>4 DEF ClearFlag, Layers
<1> QED BY <1>1, <1>2, <1>3, <1>4 DEF Read

\* The else-if chain.
LEMMA ActKeeps ==
  ASSUME ScreenInv, Act PROVE ScreenInv'
<1> USE DEF ScreenInv, TypeOK, StartsDrawing, LayerShown, ClearEnds, MenuClean,
            InterruptOn, panelVars, readVars, penVars, lcdVars, EndRound
<1>1. CASE OpenMenu
  <2>1. /\ visible' = {1} /\ selected' = 1 /\ dirty' \subseteq {0, 1} /\ 1 \notin dirty'
        /\ layer_status' \in {"COLOR_LAYER", "FONT_LAYER"}
    BY <1>1 DEF OpenMenu, EntersMenu, ShowLayer, Clear
  <2> QED BY <1>1, <2>1 DEF OpenMenu, Layers
<1>2. CASE PickFont
  BY <1>2, FontsAreSizes DEF PickFont
<1>3. CASE PickColor
  BY <1>3, ColorsAreColors DEF PickColor
<1>4. CASE ExitMenu
  <2>1. visible' = {0} /\ selected' = 0 /\ layer_status' = "DRAWING_LAYER"
    BY <1>4 DEF ExitMenu, ShowLayer
  <2> QED BY <1>4, <2>1 DEF ExitMenu, Layers
<1>5. CASE ClearSurface
  BY <1>5 DEF ClearSurface, Clear, Layers
<1>6. CASE Draw
  <2>1. tx' \in Packages \cup {NoPoint}
    BY <1>6, PackageFits DEF Draw
  <2>2. dirty' \subseteq {0, 1}
    BY <1>6 DEF Draw, FillRect
  <2>3. selected = 0
    BY <1>6 DEF Draw, Paints
  <2> QED BY <1>6, <2>1, <2>2, <2>3 DEF Draw, Paints
<1>7. CASE Idle
  BY <1>7 DEF Idle
<1> QED BY <1>1, <1>2, <1>3, <1>4, <1>5, <1>6, <1>7 DEF Act

LEMMA ScreenInvariant == Spec => []ScreenInv
<1>1. ScreenInv /\ [Next]_vars => ScreenInv'
  <2>1. CASE Next
    BY <2>1, PanelKeeps, StartUpKeeps, ReadingKeeps, ActKeeps DEF Next, Loop
  <2>2. CASE UNCHANGED vars
    BY <2>2 DEF vars, ScreenInv, TypeOK, StartsDrawing, LayerShown, ClearEnds,
       MenuClean, InterruptOn, panelVars, readVars, penVars, lcdVars, uartVars
  <2> QED BY <2>1, <2>2
<1> QED BY <1>1, ScreenStarts, PTL DEF Spec

\* Every variable of the firmware keeps to its set, whatever points a finger
\* touches and whenever the interrupt comes.
THEOREM PaintTypeCorrect == Spec => []TypeOK
<1>1. ScreenInv => TypeOK
  BY DEF ScreenInv
<1> QED BY <1>1, ScreenInvariant, PTL

\* Exactly one layer is shown, it is the one the drawing calls write to, and
\* it is the one layer_status stands for.
THEOREM LayerIsShown == Spec => []LayerShown
<1>1. ScreenInv => LayerShown
  BY DEF ScreenInv
<1> QED BY <1>1, ScreenInvariant, PTL

\* CLEAR_LAYER ends with the round that enters it.
THEOREM ClearingEnds == Spec => []ClearEnds
<1>1. ScreenInv => ClearEnds
  BY DEF ScreenInv
<1> QED BY <1>1, ScreenInvariant, PTL

\* A menu is free of spilled strokes and of what the memory held before.
THEOREM MenuIsClean == Spec => []MenuClean
<1>1. ScreenInv => MenuClean
  BY DEF ScreenInv
<1> QED BY <1>1, ScreenInvariant, PTL

LEMMA LastPixelBound ==
  ASSUME NEW p \in Reported, NEW size \in 1 .. 5
  PROVE  LastPixel(p, size) \in Int /\ LastPixel(p, size) < 2 * FramePixels
<1>1. PICK x \in Coordinate, y \in Coordinate : p.x = x /\ p.y = y
  BY DEF Reported
<1>2. LastPixel(p, size) = 480 * (y + 1 + size) + x + 1 + size
  BY <1>1, SMT DEF LastPixel
<1>3. /\ 480 * (y + 1 + size) + x + 1 + size \in Int
      /\ 480 * (y + 1 + size) + x + 1 + size < 2 * (480 * 272)
  BY ONLY x \in Coordinate, y \in Coordinate, size \in 1 .. 5, SMT DEF Coordinate
<1> QED BY ONLY <1>2, <1>3, SMT DEF FramePixels

\* No square is painted behind the two frame buffers, torn coordinates or not.
THEOREM StaysInBuffers == Spec => []InBuffers
<1>1. ScreenInv => InBuffers
  <2> SUFFICES ASSUME ScreenInv, pc = "act", Paints
               PROVE  FramePixels * selected + LastPixel(touch, font_size) < 2 * FramePixels
    BY DEF InBuffers
  <2>1. selected = 0
    BY DEF ScreenInv, LayerShown, InterruptOn, Paints, TypeOK
  <2>2. LastPixel(touch, font_size) < 2 * FramePixels
    BY LastPixelBound DEF ScreenInv, TypeOK
  <2>3. LastPixel(touch, font_size) \in Int
    BY LastPixelBound DEF ScreenInv, TypeOK
  <2>4. FramePixels * selected = 0
    BY <2>1 DEF FramePixels
  <2> QED BY <2>2, <2>3, <2>4
<1> QED BY <1>1, ScreenInvariant, PTL

-------------------------------------------------------------------------------
(* The squares of the colour menu. *)

InHit(p, r, j) == InColumn(p, j) /\ p.y \in HitTop[r] .. HitTop[r] + 48

LEMMA HitValues ==
  /\ HitLeft[1] = 40 /\ HitLeft[2] = 128 /\ HitLeft[3] = 216
  /\ HitLeft[4] = 304 /\ HitLeft[5] = 392
  /\ HitTop[1] = 78 /\ HitTop[2] = 160
BY DEF HitLeft, HitTop

\* No pixel is in two squares.
LEMMA HitsAreDisjoint ==
  ASSUME NEW p \in Reported, NEW r \in 1 .. 2, NEW j \in 1 .. 5,
         NEW s \in 1 .. 2, NEW k \in 1 .. 5, InHit(p, r, j), InHit(p, s, k)
  PROVE  r = s /\ j = k
<1>1. p.x \in Int /\ p.y \in Int
  BY DEF Reported, Coordinate
<1>2. j = k
  BY <1>1, HitValues DEF InHit, InColumn
<1>3. r = s
  BY <1>1, HitValues DEF InHit
<1> QED BY <1>2, <1>3

LEMMA HitSelects ==
  ASSUME NEW p \in Reported, NEW r \in 1 .. 2, NEW j \in 1 .. 5, InHit(p, r, j)
  PROVE  ColorsAt(p) = {HitColor[r][j]}
<1>1. ASSUME NEW b \in (1 .. 2) \X (1 .. 5), InHit(p, b[1], b[2])
      PROVE  b = <<r, j>>
  BY <1>1, HitsAreDisjoint
<1>2. <<r, j>> \in (1 .. 2) \X (1 .. 5) /\ InHit(p, <<r, j>>[1], <<r, j>>[2])
  OBVIOUS
<1>3. {b \in (1 .. 2) \X (1 .. 5) : InHit(p, b[1], b[2])} = {<<r, j>>}
  BY <1>1, <1>2
<1>4. ColorsAt(p) = {HitColor[b[1]][b[2]] :
                      b \in {b \in (1 .. 2) \X (1 .. 5) : InHit(p, b[1], b[2])}}
  BY Zenon DEF ColorsAt, InHit
<1>5. ColorsAt(p) = {HitColor[b[1]][b[2]] : b \in {<<r, j>>}}
  BY ONLY <1>3, <1>4, Zenon
<1> QED BY <1>5

\* The loop that draws and the hit tests agree on every square.
LEMMA BoxIsHit ==
  ASSUME NEW p \in Reported, NEW k \in 1 .. 10, p \in ColorBox(k)
  PROVE  \E r \in 1 .. 2, j \in 1 .. 5 :
           InHit(p, r, j) /\ HitColor[r][j] = color_array[k]
<1>1. p.x \in Int /\ p.y \in Int
  BY DEF Reported, Coordinate
<1>2. CASE k \in 1 .. 5
  <2>1. (k - 1) \div 5 = 0 /\ ((k - 1) % 5) + 1 = k
    BY <1>2
  <2>2. p.x \in k * 40 + (k - 1) * 48 .. k * 40 + (k - 1) * 48 + 47 /\ p.y \in 78 .. 125
    BY <2>1 DEF ColorBox, Box
  <2>3. InHit(p, 1, k)
    BY <1>1, <1>2, <2>2, HitValues DEF InHit, InColumn
  <2>4. HitColor[1][k] = color_array[k]
    BY <1>2 DEF HitColor, color_array
  <2> QED BY <1>2, <2>3, <2>4
<1>3. CASE k \in 6 .. 10
  <2>1. (k - 1) \div 5 = 1 /\ ((k - 1) % 5) + 1 = k - 5
    BY <1>3
  <2>2. p.x \in (k - 5) * 40 + (k - 6) * 48 .. (k - 5) * 40 + (k - 6) * 48 + 47 /\ p.y \in 160 .. 207
    BY <2>1 DEF ColorBox, Box
  <2>3. InHit(p, 2, k - 5)
    BY <1>1, <1>3, <2>2, HitValues DEF InHit, InColumn
  <2>4. HitColor[2][k - 5] = color_array[k]
    BY <1>3 DEF HitColor, color_array
  <2>5. k - 5 \in 1 .. 5
    BY <1>3
  <2> QED BY <2>3, <2>4, <2>5
<1> QED BY <1>2, <1>3

LEMMA BoxSelects ==
  ASSUME NEW p \in Reported, NEW k \in 1 .. 10, p \in ColorBox(k)
  PROVE  ColorsAt(p) = {color_array[k]} /\ ~OnColorIcon(p)
<1>1. PICK r \in 1 .. 2, j \in 1 .. 5 :
        InHit(p, r, j) /\ HitColor[r][j] = color_array[k]
  BY BoxIsHit
<1>2. p.x \in Int /\ p.y \in Int
  BY DEF Reported, Coordinate
<1>3. ~OnColorIcon(p)
  BY <1>1, <1>2, HitValues DEF InHit, InColumn, OnColorIcon
<1> QED BY <1>1, <1>3, HitSelects

ColorInv == ScreenInv /\ ColorBoxSelects

LEMMA ColorStep ==
  ASSUME ColorInv, Next PROVE ColorBoxSelects'
<1> SUFFICES ASSUME layer_status' = "COLOR_LAYER", pc' = "poll",
                    NEW k \in 1 .. 10, touch' \in ColorBox(k)
             PROVE  drawing_color' = color_array[k]
  BY DEF ColorBoxSelects
<1> USE DEF ColorInv, ColorBoxSelects
<1>1. touch \in Reported
  BY DEF ScreenInv, TypeOK
<1>2. CASE Panel
  <2>1. UNCHANGED <<touch, layer_status, drawing_color, pc>>
    BY <1>2 DEF Panel, Press, Hold, Lift, panelFrame, readVars, penVars
  <2> QED BY <2>1
<1>3. CASE StartUp
  <2>1. layer_status = "DRAWING_LAYER"
    BY <1>3 DEF StartUp, UartInit, UartSet, LcdInit, ScreenInv, StartsDrawing, InterruptOn
  <2> QED BY <1>3, <2>1 DEF StartUp, UartInit, UartSet, LcdInit
<1>4. CASE Poll \/ Read \/ ClearFlag
  <2>1. pc' # "poll"
    BY <1>4 DEF Poll, Read, DetectTouch, GetXY, ClearFlag
  <2> QED BY <2>1
<1>5. CASE Act
  <2>1. touch' = touch
    BY <1>5 DEF Act, OpenMenu, PickFont, PickColor, ExitMenu, ClearSurface, Draw, Idle,
       EndRound, readVars
  <2>2. ColorsAt(touch) = {color_array[k]} /\ ~OnColorIcon(touch)
    BY <1>1, <2>1, BoxSelects
  <2>3. CASE OpenMenu
    BY <2>2, <2>3 DEF OpenMenu, EntersMenu
  <2>4. CASE PickFont
    BY <2>4 DEF PickFont
  <2>5. CASE PickColor
    BY <2>2, <2>5 DEF PickColor
  <2>6. CASE ExitMenu \/ ClearSurface
    BY <2>6 DEF ExitMenu, ClearSurface
  <2>7. CASE Draw
    BY <2>7 DEF Draw, Paints
  <2>8. CASE Idle
    BY <2>2, <2>8 DEF Idle
  <2> QED BY <1>5, <2>3, <2>4, <2>5, <2>6, <2>7, <2>8 DEF Act
<1> QED BY <1>2, <1>3, <1>4, <1>5 DEF Next, Loop

\* Every pixel of every square of the colour menu selects the colour the
\* square shows, once the round that has read it is over.
THEOREM ColorBoxesSelect == Spec => []ColorBoxSelects
<1>1. Init => ColorBoxSelects
  BY DEF Init, ColorBoxSelects
<1>2. ColorInv /\ [Next]_vars => ColorBoxSelects'
  <2>1. CASE Next
    BY <2>1, ColorStep
  <2>2. CASE UNCHANGED vars
    BY <2>2 DEF vars, ColorInv, ColorBoxSelects, readVars, penVars
  <2> QED BY <2>1, <2>2
<1> QED BY <1>1, <1>2, ScreenInvariant, PTL DEF Spec, ColorInv

-------------------------------------------------------------------------------
(* One touch does one thing. *)

\* What each role tells of the touch that still stands in touch and of the
\* screen it has led to; no two of them can be true together.
RoleInv ==
  /\ roles \subseteq Effects
  /\ "open"  \in roles => touch.x >= 453 /\ layer_status \in {"COLOR_LAYER", "FONT_LAYER"}
  /\ "font"  \in roles => layer_status = "FONT_LAYER" /\ FontsAt(touch) # {}
  /\ "color" \in roles => layer_status = "COLOR_LAYER" /\ ColorsAt(touch) # {}
  /\ "exit"  \in roles => layer_status = "DRAWING_LAYER" /\ OnExit(touch)
  /\ "clear" \in roles => /\ layer_status \in {"DRAWING_LAYER", "CLEAR_LAYER"}
                          /\ OnClear(touch)
  /\ "draw"  \in roles => Paints

LEMMA BoxesAreLeft ==
  ASSUME NEW p \in Reported, FontsAt(p) # {} \/ ColorsAt(p) # {}
  PROVE  p.x <= 440
<1>1. p.x \in Int
  BY DEF Reported, Coordinate
<1>2. PICK j \in 1 .. 5 : InColumn(p, j)
  BY DEF FontsAt, ColorsAt
<1> QED BY <1>1, <1>2, HitValues DEF InColumn

LEMMA RolesExclude ==
  ASSUME TypeOK, RoleInv PROVE OneRole
<1> SUFFICES ASSUME NEW r \in roles, NEW s \in roles PROVE r = s
  BY DEF RoleInv, OneRole
<1>1. touch.x \in Int /\ touch.y \in Int
  BY DEF TypeOK, Reported, Coordinate
<1>2. (FontsAt(touch) # {} \/ ColorsAt(touch) # {}) => touch.x <= 440
  BY BoxesAreLeft DEF TypeOK
<1>3. r \in Effects /\ s \in Effects
  BY DEF RoleInv
<1> QED BY <1>1, <1>2, <1>3 DEF RoleInv, Effects, Paints, OnExit, OnClear, OnCanvas

LEMMA RoleEffects ==
  ASSUME ScreenInv, RoleInv, Act, HistNext PROVE RoleInv'
<1> USE DEF RoleInv, EndRound, readVars, penVars
<1>1. touch.x \in Int /\ touch.y \in Int
  BY DEF ScreenInv, TypeOK, Reported, Coordinate
<1>2. (FontsAt(touch) # {} \/ ColorsAt(touch) # {}) => touch.x <= 440
  BY BoxesAreLeft DEF ScreenInv, TypeOK
<1>3. pc = "act" /\ touch' = touch
  BY DEF Act, OpenMenu, PickFont, PickColor, ExitMenu, ClearSurface, Draw, Idle
<1>4. CASE Did(OpenMenu, "open")
  <2>1. layer_status = "DRAWING_LAYER" /\ layer_status' \in {"COLOR_LAYER", "FONT_LAYER"}
    BY <1>4 DEF Did, OpenMenu, EntersMenu
  <2>2. touch.x >= 453 /\ (OnColorIcon(touch) \/ OnFontIcon(touch))
    BY <1>4 DEF Did, OpenMenu, EntersMenu, OnColorIcon, OnFontIcon
  <2>3. roles = {}
    BY <1>1, <2>1, <2>2 DEF Effects, OnExit, OnClear, Paints
  <2> QED BY <1>3, <1>4, <2>1, <2>2, <2>3 DEF Did, Effects
<1>5. CASE Did(PickFont, "font")
  <2>1. layer_status = "FONT_LAYER" /\ layer_status' = layer_status /\ FontsAt(touch) # {}
    BY <1>5 DEF Did, PickFont
  <2>2. roles \subseteq {"font"}
    BY <1>1, <1>2, <2>1 DEF Effects, Paints
  <2> QED BY <1>3, <1>5, <2>1, <2>2 DEF Did, Effects
<1>6. CASE Did(PickColor, "color")
  <2>1. layer_status = "COLOR_LAYER" /\ layer_status' = layer_status /\ ColorsAt(touch) # {}
    BY <1>6 DEF Did, PickColor
  <2>2. roles \subseteq {"color"}
    BY <1>1, <1>2, <2>1 DEF Effects, Paints
  <2> QED BY <1>3, <1>6, <2>1, <2>2 DEF Did, Effects
<1>7. CASE Did(ExitMenu, "exit")
  <2>1. layer_status' = "DRAWING_LAYER" /\ Exits
    BY <1>7 DEF Did, ExitMenu
  <2>2. roles = {}
    BY <1>1, <2>1 DEF Effects, Exits, Paints, OnExit
  <2> QED BY <1>3, <1>7, <2>1, <2>2 DEF Did, Effects, Exits
<1>8. CASE Did(ClearSurface, "clear")
  <2>1. layer_status = "CLEAR_LAYER" /\ layer_status' = "DRAWING_LAYER" /\ OnClear(touch)
    BY <1>8 DEF Did, ClearSurface
  <2>2. roles \subseteq {"clear"}
    BY <2>1 DEF Effects, Paints
  <2> QED BY <1>3, <1>8, <2>1, <2>2 DEF Did, Effects
<1>9. CASE Did(Draw, "draw")
  <2>1. Paints /\ layer_status' = layer_status
    BY <1>9 DEF Did, Draw
  <2>2. roles \subseteq {"draw"}
    BY <1>1, <2>1 DEF Effects, Paints, OnExit, OnClear, OnCanvas
  <2> QED BY <1>3, <1>9, <2>1, <2>2 DEF Did, Effects, Paints
<1>10. CASE UNCHANGED roles /\ Idle
  BY <1>3, <1>10 DEF Idle, Paints
<1>11. ~StartUp /\ ~Poll /\ ~ReadBegins /\ ~ReadGoesOn /\ ~ClearFlag /\ ~FingerMoves
  BY <1>3 DEF StartUp, UartInit, UartSet, LcdInit, Poll, ReadBegins, DetectTouch, ReadGoesOn,
     GetXY, ClearFlag, FingerMoves, Panel, Press, Hold, Lift, panelFrame, Act, OpenMenu, PickFont, PickColor, ExitMenu,
     ClearSurface, Draw, Idle
<1> QED BY <1>4, <1>5, <1>6, <1>7, <1>8, <1>9, <1>10, <1>11 DEF HistNext

\* The other steps leave touch alone, or forget its roles with it.
LEMMA RoleSteps ==
  ASSUME ScreenInv, RoleInv, HistNext, ~Act PROVE RoleInv'
<1>1. ~Did(OpenMenu, "open") /\ ~Did(PickFont, "font") /\ ~Did(PickColor, "color")
      /\ ~Did(ExitMenu, "exit") /\ ~Did(ClearSurface, "clear") /\ ~Did(Draw, "draw") /\ ~Idle
  BY DEF Act, Did
<1>2. CASE ReadGoesOn
  <2>1. UNCHANGED layer_status /\ roles' = IF touch' = touch THEN roles ELSE {}
    BY <1>2 DEF ReadGoesOn, GetXY
  <2>2. CASE touch' = touch
    BY <2>1, <2>2 DEF RoleInv, Paints
  <2>3. CASE touch' # touch
    BY <2>1, <2>3 DEF RoleInv
  <2> QED BY <2>2, <2>3
<1>3. CASE ClearFlag /\ UNCHANGED roles
  <2>1. touch' = touch
    BY <1>3 DEF ClearFlag, readVars
  <2>2. CASE layer_status' = layer_status
    BY <1>3, <2>1, <2>2 DEF RoleInv, Paints
  <2>3. CASE layer_status' # layer_status
    <3>1. layer_status = "DRAWING_LAYER" /\ layer_status' = "CLEAR_LAYER" /\ OnClear(touch)
      BY <1>3, <2>3 DEF ClearFlag
    <3>2. touch.x \in Int /\ touch.y \in Int
      BY DEF ScreenInv, TypeOK, Reported, Coordinate
    <3>3. roles \subseteq {"clear"}
      BY <3>1, <3>2 DEF RoleInv, Effects, OnExit, OnClear, OnCanvas, Paints
    <3> QED BY <1>3, <2>1, <3>1, <3>3 DEF RoleInv, Effects
  <2> QED BY <2>2, <2>3
<1>4. CASE (StartUp \/ Poll \/ ReadBegins \/ FingerMoves) /\ UNCHANGED roles
  <2>1. UNCHANGED <<touch, layer_status>>
    BY <1>4 DEF StartUp, UartInit, UartSet, LcdInit, Poll, ReadBegins, DetectTouch,
       FingerMoves, Panel, Press, Hold, Lift, panelFrame, readVars
  <2> QED BY <1>4, <2>1 DEF RoleInv, Paints
<1> QED BY <1>1, <1>2, <1>3, <1>4 DEF HistNext, ReadBegins, FingerMoves

\* The records are only records.
LEMMA HistIsSpec == HistSpec => Spec
<1>1. HistInit => Init
  BY DEF HistInit
<1>2. [HistNext]_histVars => [Next]_vars
  BY DEF HistNext, histVars, Did, ReadBegins, ReadGoesOn, FingerMoves, Next, Loop, Read, Act
<1> QED BY <1>1, <1>2, PTL DEF HistSpec, Spec

\* The touch that opens or leaves a menu, picks, clears or draws does nothing
\* else in the rounds that test it again.
THEOREM OneTouchOneRole == HistSpec => []OneRole
<1>1. HistInit => RoleInv
  BY DEF HistInit, RoleInv
<1>2. ScreenInv /\ RoleInv /\ [HistNext]_histVars => RoleInv'
  <2> SUFFICES ASSUME ScreenInv, RoleInv, [HistNext]_histVars PROVE RoleInv'
    OBVIOUS
  <2>1. CASE HistNext
    BY <2>1, RoleEffects, RoleSteps
  <2>2. CASE UNCHANGED histVars
    BY <2>2 DEF histVars, vars, readVars, RoleInv, Paints
  <2> QED BY <2>1, <2>2
<1>3. ScreenInv /\ RoleInv => OneRole
  BY RolesExclude DEF ScreenInv
<1> QED BY HistIsSpec, <1>1, <1>2, <1>3, ScreenInvariant, PTL DEF HistSpec

-------------------------------------------------------------------------------
(* The picture. *)

\* The four bytes of a position, without the flags.
BytesOf(p) == <<p.y % 256, p.y \div 256, p.x % 256, p.x \div 256>>

\* While the panel is read and has not reported anything else, the bytes kept
\* are those of source; when it has been read, touch is source. As long as no
\* touch has been read there is no picture, because the zeroed coordinates are
\* not on the canvas.
SourceInv ==
  /\ source \in Points \cup {Origin, NoPoint}
  /\ finger # NoPoint => p1 \in Points
  /\ pc # "getxy" => reg = 1
  /\ pc # "getxy" /\ source # NoPoint => touch = source
  /\ pc = "getxy" /\ source # NoPoint =>
       /\ source = p1 /\ p1 \in Points
       /\ \A k \in 1 .. 4 : k < reg => bytes[k] = BytesOf(p1)[k]
  /\ InterruptOn /\ pc # "getxy" /\ source = Origin /\ Origin \notin Points => 0 \notin dirty

\* Masking the flags gives the byte of the position.
LEMMA KeptByte ==
  ASSUME NEW p \in Points, NEW flags \in {0, 8}, NEW k \in 1 .. 4
  PROVE  Kept(k, Registers(p, flags)[k]) = BytesOf(p)[k]
<1>1. p.x \in 0 .. 479 /\ p.y \in 0 .. 271
  BY PixelRange
<1>2. p.x \div 256 \in 0 .. 1 /\ p.y \div 256 \in 0 .. 1
  BY <1>1
<1>3. \A h \in 0 .. 1 : (16 * flags + h) % 16 = h
  OBVIOUS
<1>4. CASE k = 1 \/ k = 3
  BY <1>4 DEF Kept, Registers, BytesOf
<1>5. CASE k = 2 \/ k = 4
  BY <1>2, <1>3, <1>5 DEF Kept, Registers, BytesOf
<1> QED BY <1>4, <1>5

\* The four bytes of a position put together are the position.
LEMMA WholePosition ==
  ASSUME NEW p \in Points, NEW b, b[1] = BytesOf(p)[1], b[2] = BytesOf(p)[2],
         b[3] = BytesOf(p)[3], b[4] = BytesOf(p)[4]
  PROVE  Position(b) = p
<1>1. p.x \in 0 .. 479 /\ p.y \in 0 .. 271 /\ p = [x |-> p.x, y |-> p.y]
  BY PointsAssumption DEF Screen
<1>2. \A n \in 0 .. 479 : (n % 256) + 256 * (n \div 256) = n
  OBVIOUS
<1>3. b[3] + 256 * b[4] = p.x /\ b[1] + 256 * b[2] = p.y
  BY <1>1, <1>2 DEF BytesOf
<1> QED BY <1>1, <1>3 DEF Position

LEMMA ReadGoesOnKeeps ==
  ASSUME ScreenInv, SourceInv, ReadGoesOn PROVE SourceInv'
<1>1. PICK flags \in {0, 8} : \E r \in {Registers(p1, flags)[reg], 0} :
        LET b == [bytes EXCEPT ![reg] = Kept(reg, r)]
        IN  /\ TS_IO_Read(Registers(p1, flags)[reg], r)
            /\ \/ /\ reg < 4 /\ reg' = reg + 1
                  /\ bytes' = b
                  /\ UNCHANGED <<touch, pc>>
               \/ /\ reg = 4 /\ reg' = 1
                  /\ touch' = Position(b) /\ bytes' = NoBytes
                  /\ pc' = "clear"
  BY DEF ReadGoesOn, GetXY
<1>2. PICK r \in {Registers(p1, flags)[reg], 0} :
        LET b == [bytes EXCEPT ![reg] = Kept(reg, r)]
        IN  /\ TS_IO_Read(Registers(p1, flags)[reg], r)
            /\ \/ /\ reg < 4 /\ reg' = reg + 1
                  /\ bytes' = b
                  /\ UNCHANGED <<touch, pc>>
               \/ /\ reg = 4 /\ reg' = 1
                  /\ touch' = Position(b) /\ bytes' = NoBytes
                  /\ pc' = "clear"
  BY <1>1
<1> DEFINE b == [bytes EXCEPT ![reg] = Kept(reg, r)]
<1>3. /\ pc = "getxy" /\ UNCHANGED <<finger, p1>>
      /\ source' = IF faults' = faults THEN source ELSE NoPoint
  BY DEF ReadGoesOn, GetXY, panelVars
<1>4. reg \in 1 .. 4 /\ bytes \in [1 .. 4 -> 0 .. 255] /\ faults \in Nat
  BY FaultsAssumption DEF ScreenInv, TypeOK
<1>5. source' \in Points \cup {NoPoint}
  BY <1>3 DEF SourceInv
<1>6. ASSUME source' # NoPoint
      PROVE  /\ source' = p1 /\ p1 \in Points
             /\ \A k \in 1 .. 4 : k < reg + 1 => b[k] = BytesOf(p1)[k]
  <2>1. source' = source /\ faults' = faults
    BY <1>3, <1>6
  <2>2. /\ source = p1 /\ p1 \in Points
        /\ \A k \in 1 .. 4 : k < reg => bytes[k] = BytesOf(p1)[k]
    BY <1>3, <1>6, <2>1 DEF SourceInv
  <2>3. r = Registers(p1, flags)[reg]
    BY <1>2, <1>4, <2>1 DEF TS_IO_Read
  <2>4. Kept(reg, r) = BytesOf(p1)[reg]
    BY <1>4, <2>2, <2>3, KeptByte
  <2> QED BY <1>4, <2>1, <2>2, <2>4
<1>7. NoPoint # Origin
  BY PointsAssumption DEF Screen, Origin
<1>8. CASE reg < 4
  <2>1. bytes' = b /\ reg' = reg + 1 /\ pc' = "getxy"
    BY <1>2, <1>3, <1>8
  <2> HIDE DEF b
  <2> QED BY <1>3, <1>5, <1>6, <2>1 DEF SourceInv
<1>9. CASE reg = 4
  <2>1. touch' = Position(b) /\ pc' = "clear" /\ reg' = 1
    BY <1>2, <1>9
  <2> HIDE DEF b
  <2>2. source' # NoPoint => touch' = source'
    BY <1>6, <1>9, <2>1, WholePosition
  <2> QED BY <1>3, <1>5, <1>7, <2>1, <2>2 DEF SourceInv
<1> QED BY <1>4, <1>8, <1>9

LEMMA SourceKept ==
  ASSUME ScreenInv, SourceInv, [HistNext]_histVars PROVE SourceInv'
<1> USE DEF SourceInv, InterruptOn
<1>1. CASE ReadGoesOn
  BY <1>1, ReadGoesOnKeeps
<1>2. CASE ReadBegins
  <2>1. /\ pc = "read" /\ UNCHANGED <<finger, p1, touch, reg, bytes, dirty>>
        /\ source' = IF pc' = "getxy" THEN p1 ELSE source
        /\ pc' \in {"clear", "getxy"}
    BY <1>2 DEF ReadBegins, DetectTouch, panelVars, lcdVars
  <2>2. pc' = "getxy" => finger # NoPoint
    BY <1>2 DEF ReadBegins, DetectTouch, TS_IO_Read
  <2> QED BY <2>1, <2>2
<1>3. CASE FingerMoves
  <2>1. /\ UNCHANGED <<pc, touch, reg, bytes, dirty>>
        /\ source' = IF pc = "getxy" /\ p1' # p1 THEN NoPoint ELSE source
    BY <1>3 DEF FingerMoves, Panel, Press, Hold, Lift, panelFrame, readVars, lcdVars
  <2>2. finger' # NoPoint => p1' \in Points
    BY <1>3 DEF FingerMoves, Panel, Press, Hold, Lift
  <2> QED BY <2>1, <2>2
<1>4. CASE UNCHANGED histVars
  BY <1>4 DEF histVars, vars, panelVars, readVars, lcdVars
<1>5. CASE StartUp /\ UNCHANGED source
  <2>1. UNCHANGED <<finger, p1, touch, reg, bytes>>
    BY <1>5 DEF StartUp, UartInit, UartSet, LcdInit, panelVars, readVars
  <2>2. pc \in {"uartinit", "uartset", "lcdinit"}
    BY <1>5 DEF StartUp, UartInit, UartSet, LcdInit
  <2>3. pc' \in {"uartset", "lcdinit"} \/ (pc' = "poll" /\ 0 \notin dirty')
    BY <1>5 DEF StartUp, UartInit, UartSet, LcdInit, ShowLayer, Clear
  <2> QED BY <1>5, <2>1, <2>2, <2>3
<1>6. CASE (Poll \/ ClearFlag) /\ UNCHANGED source
  <2>1. UNCHANGED <<finger, p1, touch, reg, bytes, dirty>>
    BY <1>6 DEF Poll, ClearFlag, panelVars, readVars, lcdVars
  <2>2. pc \in {"poll", "clear"} /\ pc' \in {"read", "act"}
    BY <1>6 DEF Poll, ClearFlag
  <2> QED BY <1>6, <2>1, <2>2
<1>7. CASE Act /\ UNCHANGED source
  <2>1. UNCHANGED <<finger, p1, touch, reg, bytes>> /\ pc = "act" /\ pc' = "poll"
    BY <1>7 DEF Act, OpenMenu, PickFont, PickColor, ExitMenu, ClearSurface, Draw, Idle,
       EndRound, panelVars, readVars
  <2>2. Draw \/ dirty' \subseteq dirty
    BY <1>7 DEF Act, OpenMenu, PickFont, PickColor, ExitMenu, ClearSurface, Idle, Clear, lcdVars
  <2>3. Draw => touch # Origin
    BY DEF Draw, Paints, OnCanvas, Origin
  <2>4. NoPoint # Origin
    BY PointsAssumption DEF Screen, Origin
  <2> QED BY <1>7, <2>1, <2>2, <2>3, <2>4
<1> QED BY <1>1, <1>2, <1>3, <1>4, <1>5, <1>6, <1>7 DEF HistNext, Did, Act

\* Only a finger on the word "Clear", or coordinates made of two reports or of
\* a failed transfer, wipe a picture; stale and zeroed coordinates never do.
THEOREM PictureIsKept == HistSpec => PictureKept
<1> DEFINE Wipes == InterruptOn /\ 0 \in dirty /\ 0 \notin dirty'
           Asked == source = NoPoint \/ (source \in Points /\ OnClear(source))
<1>1. ScreenInv /\ SourceInv /\ [HistNext]_histVars => [Wipes => Asked]_histVars
  <2> SUFFICES ASSUME ScreenInv, SourceInv, HistNext, Wipes PROVE Asked
    OBVIOUS
  <2>1. ~(Panel \/ StartUp \/ Poll \/ DetectTouch \/ GetXY \/ ClearFlag)
    BY DEF Panel, Press, Hold, Lift, panelFrame, StartUp, UartInit, UartSet, LcdInit,
       Poll, DetectTouch, GetXY, ClearFlag, lcdVars, InterruptOn
  <2>2. ~OpenMenu
    <3>1. OpenMenu => dirty' = dirty \ {1}
      BY DEF OpenMenu, ShowLayer, Clear
    <3> QED BY <3>1
  <2>3. ~(PickFont \/ PickColor \/ ExitMenu \/ Draw \/ Idle)
    BY DEF PickFont, PickColor, ExitMenu, Draw, Idle, lcdVars
  <2>4. ClearSurface
    BY <2>1, <2>2, <2>3 DEF HistNext, Did, ReadBegins, ReadGoesOn, FingerMoves
  <2>5. pc = "act" /\ OnClear(touch)
    BY <2>4 DEF ClearSurface, EndRound
  <2> QED BY <2>5 DEF SourceInv
<1>2. HistInit => SourceInv
  BY DEF HistInit, Init, SourceInv, InterruptOn
<1> QED BY HistIsSpec, <1>1, <1>2, SourceKept, ScreenInvariant, PTL DEF HistSpec, PictureKept
===============================================================================
