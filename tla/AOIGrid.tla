------------------------------ MODULE AOIGrid ------------------------------
(***************************************************************************)
(* The geometry of the area-of-interest grid (pkg/aoi/aoi.go): which cell  *)
(* a position belongs to, which cells surround a cell, and which of them a *)
(* query by distance has to look at.  Coordinates are integers: rounding   *)
(* of float32 is left out.  The height y only narrows a query by distance  *)
(* further and is left out.                                                *)
(***************************************************************************)
EXTENDS Integers

CONSTANTS MinX, MaxX, MinZ, MaxZ,   \* the scene
          GridCount,                \* cells along each axis
          GridWidth                 \* width of a cell, from the X axis alone

ASSUME SceneAssumption ==
  /\ MinX \in Int /\ MaxX \in Int /\ MinZ \in Int /\ MaxZ \in Int
  /\ GridCount \in Nat \ {0} /\ GridWidth \in Nat \ {0}
  /\ MaxX - MinX = GridWidth * GridCount

Position == Int \X Int
Cell     == (0 .. GridCount - 1) \X (0 .. GridCount - 1)

\* GetGrid: the upper limits are exclusive
InScene(p) == MinX <= p[1] /\ p[1] < MaxX /\ MinZ <= p[2] /\ p[2] < MaxZ

Clamp(i) == IF i >= GridCount THEN GridCount - 1 ELSE i

\* GetGrid of a position in the scene; a scene longer in Z than in X is cut
\* off at the last row of cells
GetGrid(p) == <<Clamp((p[1] - MinX) \div GridWidth), Clamp((p[2] - MinZ) \div GridWidth)>>

Near(i, j, r) == i - r <= j /\ j <= i + r

\* GetSurroundingGridsByRange
SurroundingGrids(c, r) == {d \in Cell : Near(c[1], d[1], r) /\ Near(c[2], d[2], r)}

\* mutant: the quotient is rounded down
GridRangeDown(distance) == distance \div GridWidth

\* GetEntitiesByDistance: the quotient rounded up
GridRange(distance) == (distance + GridWidth - 1) \div GridWidth

\* GetEntitiesByDistance: the filter, with squares instead of roots
Within(p, q, distance) ==
  (q[1] - p[1]) * (q[1] - p[1]) + (q[2] - p[2]) * (q[2] - p[2]) <= distance * distance
=============================================================================
