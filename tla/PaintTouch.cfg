SPECIFICATION HistSpec
CONSTANTS
  Points <- MenuPoints
  NoPoint = NoPoint
  MaxFaults = 1
INVARIANTS TypeOK LayerShown ClearEnds OneRole ColorBoxSelects MenuClean InBuffers
PROPERTIES PictureKept HeldTouchActs
