----------------------------- MODULE PaintHistory -----------------------------
(***************************************************************************)
(* The paint firmware with two records about the present coordinates in    *)
(* touch: what they have been used for, since the loop never clears touch  *)
(* and goes through the same tests with it, round after round, until the   *)
(* panel reports others; and where the finger was that they stand for.     *)
(***************************************************************************)
EXTENDS Paint

VARIABLES
  roles,   \* what the loop has done with the present value of touch
  source   \* the position that the panel reported from the first to the last
           \* transfer of the read, or NoPoint if it changed in between or a
           \* transfer failed; Origin before the first read

HistInit == Init /\ roles = {} /\ source = Origin

Effects == {"open", "font", "color", "exit", "clear", "draw"}

Did(action, role) == action /\ roles' = roles \cup {role} /\ UNCHANGED source

ReadBegins ==
  /\ DetectTouch
  /\ source' = IF pc' = "getxy" THEN p1 ELSE source
  /\ UNCHANGED roles

ReadGoesOn ==
  /\ GetXY
  /\ source' = IF faults' = faults THEN source ELSE NoPoint
  /\ roles' = IF touch' = touch THEN roles ELSE {}

FingerMoves ==
  /\ Panel
  /\ source' = IF pc = "getxy" /\ p1' # p1 THEN NoPoint ELSE source
  /\ UNCHANGED roles

HistNext ==
  \/ Did(OpenMenu, "open")
  \/ Did(PickFont, "font")
  \/ Did(PickColor, "color")
  \/ Did(ExitMenu, "exit")
  \/ Did(ClearSurface, "clear")
  \/ Did(Draw, "draw")
  \/ ReadBegins \/ ReadGoesOn \/ FingerMoves
  \/ (StartUp \/ Poll \/ ClearFlag \/ Idle) /\ UNCHANGED <<roles, source>>

histVars == <<vars, roles, source>>

HistSpec == HistInit /\ [][HistNext]_histVars /\ Fairness

\* One touch does one thing: the touch that opens or leaves a menu, picks or
\* clears is met again by every later round, on another screen, and never
\* does something else there.  Were the word "Exit" inside the canvas or an
\* icon behind a box of a menu, it would.
OneRole == roles \subseteq Effects /\ \A r, s \in roles : r = s

\* A picture is wiped only for a finger that was on the word "Clear" while the
\* panel was read, or for coordinates that two reports or a failed transfer
\* have made.  The zeroed and the stale coordinates that a tap too short to be
\* read leaves in touch never wipe one, and no visit to a menu does
\* (main.c:87-94,172-179; ft5336.c:254-366).
PictureKept ==
  [][InterruptOn /\ 0 \in dirty /\ 0 \notin dirty'
       => source = NoPoint \/ (source \in Points /\ OnClear(source))]_histVars
===============================================================================
