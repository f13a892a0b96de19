SPECIFICATION HistSpec
CONSTANTS
  Points <- CanvasPoints
  NoPoint = NoPoint
  MaxFaults = 0
PROPERTIES StrokeSent
