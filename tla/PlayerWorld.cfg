\* two players, two movers, positions in four cells and outside the scene,
\* one identifier registered twice
CONSTANTS
  MinX = 0  MaxX = 6  MinZ = 0  MaxZ = 8
  GridCount = 3
  GridWidth = 2
  Player = {p1, p2}
  Mover = {m1, m2}
  Subscriber = {p1}
  Pos <- MCPos
  View = 1
  MaxLives = 2
  MaxMoves = 2
  NoObj = NoObj
SPECIFICATION Spec
SYMMETRY Symmetry
INVARIANTS NeverInvisible CountCovers PlacedExactly NearbyIsExact ToldWhatChanged
CHECK_DEADLOCK FALSE
