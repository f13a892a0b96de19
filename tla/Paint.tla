-------------------------------- MODULE Paint ---------------------------------
(***************************************************************************)
(* The paint firmware hackathon/src/main.c on the STM32F746 Discovery: the *)
(* start-up of the serial port and the display, the main loop that reads   *)
(* the touch panel and paints or moves between the drawing, colour and     *)
(* font screens, and the touch interrupt.                                  *)
(*                                                                         *)
(* The panel is read over I2C one register at a time.  The finger moves,   *)
(* and the interrupt comes, between any two of these reads, so the         *)
(* coordinates may be put together from two reports; a read may fail and   *)
(* gives 0 then.  Between the last read and the end of a round the loop    *)
(* touches nothing the interrupt writes, so that part of a round is one    *)
(* step.                                                                   *)
(***************************************************************************)
EXTENDS PaintMenus

CONSTANTS
  Points,     \* the pixels a finger touches
  NoPoint,    \* no finger on the panel, nothing sent on the serial line
  MaxFaults   \* bound on the failed transfers of the I2C bus

ASSUME PointsAssumption == Points \subseteq Screen /\ NoPoint \notin Screen
ASSUME FaultsAssumption == MaxFaults \in Nat

VARIABLES
  finger,         \* where the panel has a finger
  p1,             \* the position in the P1 registers of the panel
  touch_flag,     \* set by the interrupt, cleared by the loop
  touch,          \* touch.touchX[0], touch.touchY[0]
  reg,            \* the coordinate register ft5336_TS_GetXY reads next
  bytes,          \* what it has kept of those it has read
  faults,         \* how many transfers have failed
  layer_status, drawing_color, font_size,
  visible,        \* the LCD layers that are shown
  selected,       \* ActiveLayer, the LCD layer that drawing calls go to
  dirty,          \* layers whose frame buffer holds strokes, or what the
                  \* memory held at power on
  instance,       \* UartHandle.Instance and Init have been filled in
  gState,         \* the state of UartHandle
  tx,             \* the last data_package sent on the serial line
  pc

panelVars == <<finger, p1, touch_flag>>
readVars  == <<touch, reg, bytes, faults>>
lcdVars   == <<visible, selected, dirty>>
penVars   == <<drawing_color, font_size>>
uartVars  == <<instance, gState, tx>>
vars == <<panelVars, readVars, layer_status, penVars, lcdVars, uartVars, pc>>

Layers == {"DRAWING_LAYER", "COLOR_LAYER", "FONT_LAYER", "CLEAR_LAYER"}

Colors == {color_array[k] : k \in 1 .. 10}

\* touch and the registers are zero until the panel has reported a finger.
Origin == [x |-> 0, y |-> 0]

\* What two bytes can make, the high one from a position on the display.
Coordinate == 0 .. 511

Reported == [x : Coordinate, y : Coordinate]

\* data_package: every field is a uint8_t.
Package(at, color, size) ==
  [coordX     |-> at.x % 256,
   coordY     |-> at.y % 256,
   draw_color |-> LowByte(color),
   font_size  |-> size + 3]

Packages == [coordX : 0 .. 255, coordY : 0 .. 255,
             draw_color : {0, 42, 128, 255}, font_size : 4 .. 8]

NoBytes == [k \in 1 .. 4 |-> 0]

\* Every variable keeps to its set, though the coordinates may be torn or come
\* from a failed read; the pen has one of the five sizes and ten colours.
TypeOK ==
  /\ finger \in Points \cup {NoPoint}
  /\ p1 \in Points \cup {Origin}
  /\ touch_flag \in BOOLEAN
  /\ touch \in Reported
  /\ reg \in 1 .. 4
  /\ bytes \in [1 .. 4 -> 0 .. 255] /\ bytes[2] <= 1 /\ bytes[4] <= 1
  /\ faults \in 0 .. MaxFaults
  /\ layer_status \in Layers
  /\ drawing_color \in Colors
  /\ font_size \in 1 .. 5
  /\ visible \subseteq {0, 1}
  /\ selected \in {0, 1}
  /\ dirty \subseteq {0, 1}
  /\ instance \in BOOLEAN
  /\ gState \in {"RESET", "READY", "BUSY"}
  /\ tx \in Packages \cup {NoPoint}
  /\ pc \in {"uartinit", "uartset", "lcdinit", "poll", "read", "getxy", "clear", "act"}

\* Power on.
Init ==
  /\ finger = NoPoint
  /\ p1 = Origin
  /\ touch_flag = FALSE
  /\ touch = Origin
  /\ reg = 1
  /\ bytes = NoBytes
  /\ faults = 0
  /\ layer_status = "DRAWING_LAYER"
  /\ drawing_color = "BLACK"
  /\ font_size = 1
  /\ visible = {0, 1}
  /\ selected = 0
  /\ dirty = {0, 1}
  /\ instance = FALSE
  /\ gState = "RESET"
  /\ tx = NoPoint
  /\ pc = "uartinit"

-------------------------------------------------------------------------------
(* Start-up. *)

\* HAL_UART_Init: without an Instance there is no clock source to divide,
\* UART_SetConfig fails and the handle stays in the state BUSY.
UartInit ==
  /\ pc = "uartinit"
  /\ gState' = IF instance THEN "READY" ELSE "BUSY"
  /\ pc' = "uartset"
  /\ UNCHANGED <<panelVars, readVars, layer_status, penVars, lcdVars, instance, tx>>

\* The assignments to UartHandle.
UartSet ==
  /\ pc = "uartset"
  /\ instance' = TRUE
  /\ pc' = "lcdinit"
  /\ UNCHANGED <<panelVars, readVars, layer_status, penVars, lcdVars, gState, tx>>

\* BSP_LCD_SelectLayer(l) and the two calls of BSP_LCD_SetLayerVisible.
ShowLayer(l) == selected' = l /\ visible' = (visible \cup {l}) \ {1 - l}

\* BSP_LCD_Clear: fills the frame buffer of the active layer, and only it.
Clear == dirty' = dirty \ {selected'}

\* The display with layer 0 shown and cleared, the panel and its interrupt,
\* the icons.  Layer 1 is not cleared here.
LcdInit ==
  /\ pc = "lcdinit"
  /\ ShowLayer(0) /\ Clear
  /\ pc' = "poll"
  /\ UNCHANGED <<panelVars, readVars, layer_status, penVars, uartVars>>

-------------------------------------------------------------------------------
(* The panel.  Its interrupt is on from the end of the start-up. *)

InterruptOn == pc \notin {"uartinit", "uartset", "lcdinit"}

\* Mutant: the callback compares GPIO_Pin with another pin.
ExtiOtherPin == UNCHANGED touch_flag

\* EXTI15_10_IRQHandler and HAL_GPIO_EXTI_Callback.
Exti == touch_flag' = TRUE

panelFrame == <<readVars, layer_status, penVars, lcdVars, uartVars, pc>>

\* A finger comes down on p or moves to it.
Press(p) ==
  /\ InterruptOn
  /\ finger # p
  /\ finger' = p
  /\ p1' = p
  /\ Exti
  /\ UNCHANGED panelFrame

\* The panel repeats its interrupt while the finger stays.
Hold ==
  /\ InterruptOn
  /\ finger # NoPoint
  /\ Exti
  /\ UNCHANGED <<finger, p1, panelFrame>>

\* The end of a touch may be reported too; the registers keep its position.
Lift ==
  /\ InterruptOn
  /\ finger # NoPoint
  /\ finger' = NoPoint
  /\ Exti \/ UNCHANGED touch_flag
  /\ UNCHANGED <<p1, panelFrame>>

-------------------------------------------------------------------------------
(* BSP_TS_GetState, register by register. *)

\* TS_IO_Read of a register that holds v returns r: a failed transfer leaves
\* the 0 the result was set to, and nobody is told.
TS_IO_Read(v, r) ==
  \/ r = v /\ UNCHANGED faults
  \/ r = 0 /\ faults < MaxFaults /\ faults' = faults + 1

\* Mutant: BSP_TS_GetState zeroes the coordinates when it finds no touch.
DetectTouchZeroes ==
  /\ pc = "read"
  /\ \E n \in {0, 1} :
       /\ TS_IO_Read(IF finger = NoPoint THEN 0 ELSE 1, n)
       /\ pc' = IF n = 0 THEN "clear" ELSE "getxy"
       /\ touch' = IF n = 0 THEN Origin ELSE touch
  /\ UNCHANGED <<panelVars, reg, bytes, layer_status, penVars, lcdVars, uartVars>>

\* ft5336_TS_DetectTouch.  BSP_TS_GetState leaves the coordinates alone when
\* it finds no touch.
DetectTouch ==
  /\ pc = "read"
  /\ \E n \in {0, 1} :
       /\ TS_IO_Read(IF finger = NoPoint THEN 0 ELSE 1, n)
       /\ pc' = IF n = 0 THEN "clear" ELSE "getxy"
  /\ UNCHANGED <<panelVars, touch, reg, bytes, layer_status, penVars, lcdVars, uartVars>>

\* The position registers in the order they are read: the X of the panel is
\* the y of the display.  The event of the touch, put down (0) or in contact (8),
\* shares the high bytes.
Registers(p, flags) == <<p.y % 256, 16 * flags + p.y \div 256,
                         p.x % 256, 16 * flags + p.x \div 256>>

\* Mutant: the flags are not masked away.
KeptUnmasked(k, r) == r

\* What ft5336_TS_GetXY keeps of byte k: the high ones lose the flags.
Kept(k, r) == IF k % 2 = 0 THEN r % 16 ELSE r

\* TS_SWAP_XY, and the coordinates as BSP_TS_GetState stores them.
Position(b) == [x |-> b[3] + 256 * b[4], y |-> b[1] + 256 * b[2]]

\* ft5336_TS_GetXY reads the next of the four registers.
GetXY ==
  /\ pc = "getxy"
  /\ \E flags \in {0, 8} :
       \E r \in {Registers(p1, flags)[reg], 0} :
         LET b == [bytes EXCEPT ![reg] = Kept(reg, r)]
         IN  /\ TS_IO_Read(Registers(p1, flags)[reg], r)
             /\ \/ /\ reg < 4 /\ reg' = reg + 1
                   /\ bytes' = b
                   /\ UNCHANGED <<touch, pc>>
                \/ /\ reg = 4 /\ reg' = 1
                   /\ touch' = Position(b) /\ bytes' = NoBytes
                   /\ pc' = "clear"
  /\ UNCHANGED <<panelVars, layer_status, penVars, lcdVars, uartVars>>

-------------------------------------------------------------------------------
(* The main loop. *)

\* if (touch_flag)
Poll ==
  /\ pc = "poll"
  /\ pc' = IF touch_flag THEN "read" ELSE "act"
  /\ UNCHANGED <<panelVars, readVars, layer_status, penVars, lcdVars, uartVars>>

\* touch_flag = 0, whatever has been reported since the read, and the test
\* for the word "Clear".
ClearFlag ==
  /\ pc = "clear"
  /\ touch_flag' = FALSE
  /\ layer_status' = IF OnClear(touch) /\ layer_status = "DRAWING_LAYER"
                     THEN "CLEAR_LAYER" ELSE layer_status
  /\ pc' = "act"
  /\ UNCHANGED <<finger, p1, readVars, penVars, lcdVars, uartVars>>

\* The rest of a round, one branch of the else-if chain.
EndRound == pc = "act" /\ pc' = "poll" /\ UNCHANGED <<panelVars, readVars, instance, gState>>

\* The icon tests of the drawing screen lead to a menu.
EntersMenu ==
  /\ layer_status = "DRAWING_LAYER"
  /\ \/ OnColorIcon(touch) /\ layer_status' = "COLOR_LAYER"
     \/ ~OnColorIcon(touch) /\ OnFontIcon(touch) /\ layer_status' = "FONT_LAYER"

\* Mutant: BSP_LCD_Clear comes before BSP_LCD_SelectLayer(1).
OpenMenuClearsFirst ==
  /\ EndRound /\ EntersMenu /\ ShowLayer(1)
  /\ dirty' = dirty \ {selected}
  /\ UNCHANGED <<penVars, tx>>

OpenMenu ==
  EndRound /\ EntersMenu /\ ShowLayer(1) /\ Clear /\ UNCHANGED <<penVars, tx>>

PickFont ==
  /\ EndRound
  /\ layer_status = "FONT_LAYER"
  /\ font_size' \in FontsAt(touch)
  /\ UNCHANGED <<layer_status, drawing_color, lcdVars, tx>>

PickColor ==
  /\ EndRound
  /\ layer_status = "COLOR_LAYER"
  /\ drawing_color' \in ColorsAt(touch)
  /\ UNCHANGED <<layer_status, font_size, lcdVars, tx>>

\* Neither box nor word of the open menu is hit, but "Exit" is.
Exits ==
  /\ \/ layer_status = "FONT_LAYER" /\ FontsAt(touch) = {}
     \/ layer_status = "COLOR_LAYER" /\ ColorsAt(touch) = {}
  /\ OnExit(touch)

\* Mutant: layer 1 is not hidden on the way back.
ExitMenuShowsBoth ==
  /\ EndRound
  /\ Exits
  /\ selected' = 0
  /\ visible' = visible \cup {0}
  /\ layer_status' = "DRAWING_LAYER"
  /\ UNCHANGED <<penVars, dirty, tx>>

ExitMenu ==
  /\ EndRound
  /\ Exits
  /\ ShowLayer(0)
  /\ layer_status' = "DRAWING_LAYER"
  /\ UNCHANGED <<penVars, dirty, tx>>

\* Mutant: layer_status is not set back after the canvas has been cleared.
ClearSurfaceStays ==
  /\ EndRound
  /\ layer_status = "CLEAR_LAYER"
  /\ OnClear(touch)
  /\ dirty' = dirty \ {selected}
  /\ UNCHANGED <<layer_status, penVars, visible, selected, tx>>

ClearSurface ==
  /\ EndRound
  /\ layer_status = "CLEAR_LAYER"
  /\ OnClear(touch)
  /\ UNCHANGED <<visible, selected>> /\ Clear
  /\ layer_status' = "DRAWING_LAYER"
  /\ UNCHANGED <<penVars, tx>>

Paints ==
  /\ layer_status = "DRAWING_LAYER"
  /\ ~OnColorIcon(touch) /\ ~OnFontIcon(touch)
  /\ OnCanvas(touch)

\* BSP_LCD_FillRect does not clip: the square may reach the next buffer.
\* HAL_UART_Transmit of the four bytes: a handle that is not READY refuses.
Draw ==
  /\ EndRound
  /\ Paints
  /\ dirty' = dirty \cup FillRect(selected, touch, font_size)
  /\ tx' = IF gState = "READY" THEN Package(touch, drawing_color, font_size) ELSE tx
  /\ UNCHANGED <<layer_status, penVars, visible, selected>>

\* No branch applies.
Idle ==
  /\ EndRound
  /\ \/ layer_status = "FONT_LAYER" /\ FontsAt(touch) = {} /\ ~OnExit(touch)
     \/ layer_status = "COLOR_LAYER" /\ ColorsAt(touch) = {} /\ ~OnExit(touch)
     \/ layer_status = "CLEAR_LAYER" /\ ~OnClear(touch)
     \/ /\ layer_status = "DRAWING_LAYER"
        /\ ~OnColorIcon(touch) /\ ~OnFontIcon(touch) /\ ~OnCanvas(touch)
  /\ UNCHANGED <<layer_status, penVars, lcdVars, tx>>

-------------------------------------------------------------------------------

StartUp == UartInit \/ UartSet \/ LcdInit

Read == DetectTouch \/ GetXY

Act == OpenMenu \/ PickFont \/ PickColor \/ ExitMenu \/ ClearSurface \/ Draw \/ Idle

Loop == Poll \/ Read \/ ClearFlag \/ Act

Panel == (\E p \in Points : Press(p)) \/ Hold \/ Lift

Next == StartUp \/ Loop \/ Panel

Spec == Init /\ [][Next]_vars

\* The processor goes on, and the panel goes on interrupting while it is
\* touched; fingers owe nothing.
Fairness == WF_vars(StartUp \/ Loop) /\ WF_vars(Hold)

FairSpec == Spec /\ Fairness

-------------------------------------------------------------------------------

\* The user sees, and the drawing calls write to, exactly one layer, and it
\* is the one layer_status stands for: the calls that move between screens
\* never leave a menu shown while the loop paints, or the reverse.
LayerShown ==
  InterruptOn =>
    /\ visible = {selected}
    /\ selected = 1 <=> layer_status \in {"COLOR_LAYER", "FONT_LAYER"}

\* CLEAR_LAYER never outlives the round that entered it: the second test for
\* the word "Clear" sees the coordinates of the first, so the loop cannot get
\* stuck in a screen from which nothing leads back.
ClearEnds == layer_status = "CLEAR_LAYER" => pc = "act" /\ OnClear(touch)

\* Every pixel of a square of the colour menu selects the colour the square
\* was filled with: the literal hit tests agree with the loop that draws.
ColorBoxSelects ==
  layer_status = "COLOR_LAYER" /\ pc = "poll" =>
    \A k \in 1 .. 10 : touch \in ColorBox(k) => drawing_color = color_array[k]

\* A menu on the display is free of what strokes near the end of the canvas
\* have spilled into its buffer, and of what the memory held at power on.
MenuClean == InterruptOn /\ selected = 1 => 1 \notin dirty

\* No square is painted behind the two frame buffers, wherever two halves of
\* two reports or a failed read put it.
InBuffers ==
  pc = "act" /\ Paints =>
    FramePixels * selected + LastPixel(touch, font_size) < 2 * FramePixels

\* "UART Based communication between server and embedded devices": the round
\* that paints a square sends it on the serial line.
StrokeSent == [][Draw => tx' = Package(touch, drawing_color, font_size)]_vars

\* A finger that rests on an icon or on "Exit" moves to another screen,
\* although the flag of its interrupt may be cleared unread and the bus may
\* fail.
HeldTouchActs ==
  /\ \A p \in {q \in Points : OnColorIcon(q) \/ OnFontIcon(q)} :
       finger = p /\ layer_status = "DRAWING_LAYER"
         ~> finger # p \/ layer_status # "DRAWING_LAYER"
  /\ \A p \in {q \in Points : OnExit(q)} :
       finger = p /\ layer_status \in {"COLOR_LAYER", "FONT_LAYER"}
         ~> finger # p \/ layer_status = "DRAWING_LAYER"
===============================================================================
