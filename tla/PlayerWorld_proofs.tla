------------------------- MODULE PlayerWorld_proofs -------------------------
(***************************************************************************)
(* For every scene, grid and distance the cells a query by distance looks  *)
(* at are enough.  What holds of the players whatever calls overlap: the   *)
(* types, that no registered player is invisible, and that the counters    *)
(* cover the cells.  What holds of the players whose calls do not overlap: *)
(* they are in exactly the cell of their position, are counted exactly,    *)
(* and are found by exactly the queries that should find them; a callback  *)
(* is handed nil only for a player that left.                              *)
(***************************************************************************)
EXTENDS PlayerWorld, FiniteSetTheorems, TLAPS

-----------------------------------------------------------------------------
(* The geometry of a query by distance.                                     *)

\* Division by the width of a cell (GetGrid).
LEMMA DivFacts ==
  ASSUME NEW a \in Int, NEW w \in Int, w > 0
  PROVE  /\ a \div w \in Int
         /\ w * (a \div w) <= a
         /\ a < w * (a \div w) + w
<1>1. a \div w \in Int
  OBVIOUS
<1>2. w * (a \div w) <= a
  OBVIOUS
<1>3. a < w * (a \div w) + w
  OBVIOUS
<1> QED
  BY Zenon, <1>1, <1>2, <1>3

\* Products with a natural number are monotonic.
LEMMA TimesMono ==
  ASSUME NEW w \in Nat, NEW i \in Int, NEW j \in Int, i <= j
  PROVE  w * i <= w * j
OBVIOUS

\* Along one axis, coordinates at most d apart are in cells at most
\* GridRange(d) apart.
LEMMA AxisRange ==
  ASSUME NEW a \in Int, NEW b \in Int, NEW d \in Nat, a - b <= d
  PROVE  a \div GridWidth <= b \div GridWidth + GridRange(d)
<1> DEFINE qa == a \div GridWidth
           qb == b \div GridWidth
           r  == (d + GridWidth - 1) \div GridWidth
<1>1. GridWidth \in Int /\ GridWidth \in Nat /\ GridWidth > 0
  BY SceneAssumption
<1>2. qa \in Int /\ GridWidth * qa <= a /\ a < GridWidth * qa + GridWidth
  BY Zenon, <1>1, DivFacts
<1>3. qb \in Int /\ GridWidth * qb <= b /\ b < GridWidth * qb + GridWidth
  BY Zenon, <1>1, DivFacts
<1>4. r \in Int /\ d + GridWidth - 1 < GridWidth * r + GridWidth
  <2>1. d + GridWidth - 1 \in Int
    BY <1>1
  <2> QED
    BY Zenon, <1>1, <2>1, DivFacts
<1>5. SUFFICES ASSUME qb + r + 1 <= qa PROVE FALSE
  BY <1>2, <1>3, <1>4 DEF GridRange
<1> HIDE DEF qa, qb, r
<1>6. GridWidth * (qb + r + 1) <= GridWidth * qa
  BY <1>1, <1>2, <1>3, <1>4, <1>5, TimesMono
<1>7. GridWidth * (qb + r + 1) = GridWidth * qb + GridWidth * r + GridWidth
  BY <1>1, <1>3, <1>4
<1>8. GridWidth * qb \in Int /\ GridWidth * r \in Int /\ GridWidth * qa \in Int
  BY <1>1, <1>2, <1>3, <1>4
<1> QED
  BY <1>1, <1>2, <1>3, <1>4, <1>6, <1>7, <1>8

\* Cutting the grid off at its last row brings cells closer, never apart.
LEMMA ClampRange ==
  ASSUME NEW i \in Int, NEW j \in Int, NEW r \in Int, i >= 0, j >= 0, r >= 0, i <= j + r
  PROVE  Clamp(i) <= Clamp(j) + r
BY SceneAssumption DEF Clamp

\* A sum of squares bounds each side.
LEMMA SquareBound ==
  ASSUME NEW x \in Int, NEW y \in Int, NEW d \in Nat, x * x + y * y <= d * d
  PROVE  x <= d /\ -x <= d
<1>1. y * y >= 0
  OBVIOUS
<1>2. x * x <= d * d
  BY <1>1
<1>3. ASSUME x > d PROVE FALSE
  <2>1. x * x >= (d + 1) * (d + 1)
    BY <1>3
  <2> QED
    BY <2>1, <1>2
<1>4. ASSUME -x > d PROVE FALSE
  <2>1. (-x) * (-x) >= (d + 1) * (d + 1)
    BY <1>4
  <2>2. (-x) * (-x) = x * x
    OBVIOUS
  <2> QED
    BY <2>1, <2>2, <1>2
<1> QED
  BY <1>3, <1>4

\* A position in the scene has a cell.
LEMMA GetGridCell ==
  ASSUME NEW p \in Position, InScene(p)
  PROVE  GetGrid(p) \in Cell
<1>1. /\ GridWidth \in Int /\ GridWidth > 0 /\ GridCount \in Int /\ GridCount > 0
      /\ MinX \in Int /\ MinZ \in Int
  BY SceneAssumption
<1>2. /\ p[1] - MinX \in Int /\ p[1] - MinX >= 0
      /\ p[2] - MinZ \in Int /\ p[2] - MinZ >= 0
  BY <1>1, SceneAssumption DEF InScene, Position
<1>3. ASSUME NEW a \in Int, a >= 0
      PROVE  Clamp(a \div GridWidth) \in 0 .. GridCount - 1
  <2>1. a \div GridWidth \in Int /\ a < GridWidth * (a \div GridWidth) + GridWidth
    BY Zenon, <1>1, DivFacts
  <2>2. a \div GridWidth >= 0
    BY <1>1, <1>3
  <2> QED
    BY <1>1, <2>1, <2>2 DEF Clamp
<1>4. Clamp((p[1] - MinX) \div GridWidth) \in 0 .. GridCount - 1
  BY Zenon, <1>2, <1>3
<1>5. Clamp((p[2] - MinZ) \div GridWidth) \in 0 .. GridCount - 1
  BY Zenon, <1>2, <1>3
<1> QED
  BY Zenon, <1>4, <1>5 DEF GetGrid, Cell

\* One axis of a query: cells of coordinates at most d apart are near.
LEMMA AxisNear ==
  ASSUME NEW a \in Int, NEW b \in Int, NEW d \in Nat, a >= 0, b >= 0, a - b <= d, b - a <= d
  PROVE  Near(Clamp(a \div GridWidth), Clamp(b \div GridWidth), GridRange(d))
<1>1. GridWidth \in Int /\ GridWidth > 0 /\ d + GridWidth - 1 \in Int /\ d + GridWidth - 1 >= 0
  BY SceneAssumption
<1>2. a \div GridWidth \in Int /\ a \div GridWidth >= 0
  BY <1>1, DivFacts
<1>3. b \div GridWidth \in Int /\ b \div GridWidth >= 0
  BY <1>1, DivFacts
<1>4. GridRange(d) \in Int /\ GridRange(d) >= 0
  BY <1>1, DivFacts DEF GridRange
<1>5. Clamp(a \div GridWidth) <= Clamp(b \div GridWidth) + GridRange(d)
  <2>1. a \div GridWidth <= b \div GridWidth + GridRange(d)
    BY Zenon, AxisRange
  <2> QED
    BY Zenon, <2>1, <1>2, <1>3, <1>4, ClampRange
<1>6. Clamp(b \div GridWidth) <= Clamp(a \div GridWidth) + GridRange(d)
  <2>1. b \div GridWidth <= a \div GridWidth + GridRange(d)
    BY Zenon, AxisRange
  <2> QED
    BY Zenon, <2>1, <1>2, <1>3, <1>4, ClampRange
<1>7. Clamp(a \div GridWidth) \in Int /\ Clamp(b \div GridWidth) \in Int
  BY <1>2, <1>3, SceneAssumption DEF Clamp
<1> QED
  BY <1>4, <1>5, <1>6, <1>7 DEF Near

\* GetEntitiesByDistance looks at enough cells: whatever the scene, the grid
\* (also one cut off in Z) and the distance, the cell of every position of
\* the scene within the distance of a position is among the cells that
\* GetSurroundingGridsByRange returns for it.
THEOREM SurroundingCovers ==
  \A p, q \in Position : \A d \in Nat :
    InScene(p) /\ InScene(q) /\ Within(p, q, d) =>
      GetGrid(q) \in SurroundingGrids(GetGrid(p), GridRange(d))
<1> SUFFICES ASSUME NEW p \in Position, NEW q \in Position, NEW d \in Nat,
                    InScene(p), InScene(q), Within(p, q, d)
             PROVE  GetGrid(q) \in SurroundingGrids(GetGrid(p), GridRange(d))
  BY Zenon
<1>1. p[1] \in Int /\ p[2] \in Int /\ q[1] \in Int /\ q[2] \in Int /\ MinX \in Int /\ MinZ \in Int
  BY Zenon, SceneAssumption DEF Position
<1>2. /\ p[1] - MinX \in Int /\ p[1] - MinX >= 0 /\ p[2] - MinZ \in Int /\ p[2] - MinZ >= 0
      /\ q[1] - MinX \in Int /\ q[1] - MinX >= 0 /\ q[2] - MinZ \in Int /\ q[2] - MinZ >= 0
  BY <1>1, SceneAssumption DEF InScene
<1>3. q[1] - p[1] <= d /\ -(q[1] - p[1]) <= d
  <2>1. q[1] - p[1] \in Int /\ q[2] - p[2] \in Int
    BY <1>1
  <2> QED
    BY Zenon, <2>1, SquareBound DEF Within
<1>4. q[2] - p[2] <= d /\ -(q[2] - p[2]) <= d
  <2>1. q[1] - p[1] \in Int /\ q[2] - p[2] \in Int
    BY <1>1
  <2>2. (q[2] - p[2]) * (q[2] - p[2]) + (q[1] - p[1]) * (q[1] - p[1]) <= d * d
    <3>1. (q[1] - p[1]) * (q[1] - p[1]) \in Int /\ (q[2] - p[2]) * (q[2] - p[2]) \in Int
      BY <2>1
    <3> QED
      BY <3>1 DEF Within
  <2> QED
    BY Zenon, <2>1, <2>2, SquareBound
<1>5. Near(GetGrid(p)[1], GetGrid(q)[1], GridRange(d))
  <2>1. (p[1] - MinX) - (q[1] - MinX) <= d /\ (q[1] - MinX) - (p[1] - MinX) <= d
    BY <1>1, <1>3
  <2> QED
    BY Zenon, <1>2, <2>1, AxisNear DEF GetGrid
<1>6. Near(GetGrid(p)[2], GetGrid(q)[2], GridRange(d))
  <2>1. (p[2] - MinZ) - (q[2] - MinZ) <= d /\ (q[2] - MinZ) - (p[2] - MinZ) <= d
    BY <1>1, <1>4
  <2> QED
    BY Zenon, <1>2, <2>1, AxisNear DEF GetGrid
<1> QED
  BY Zenon, <1>5, <1>6, GetGridCell DEF SurroundingGrids

-----------------------------------------------------------------------------
(* Types: TypeOK with the shape of a move and of an unregistration.         *)

Place == Pos \cup {Spawn}

\* The bounds, and the places a client may send.
LEMMA BoundFacts ==
  /\ MaxMoves \in Nat /\ MaxLives \in Nat
  /\ Place \subseteq Position
  /\ \A o \in Obj : o[2] \in Int
<1>1. MaxMoves \in Nat /\ MaxLives \in Nat /\ Pos \subseteq Position
  BY Zenon, WorldAssumption
<1>2. Spawn \in Position
  BY DEF Spawn, Position
<1> QED
  BY <1>1, <1>2 DEF Place, Obj

FoundMove  == [pc : {"found"}, id : Player, obj : Obj, new : Pos]
ReadMove   == [pc : {"read"}, id : Player, obj : Obj, new : Pos, old : Place]
SetMove    == [pc : {"set"}, id : Player, obj : Obj, old : Place]
LeaveMove  == [pc : {"leave"}, id : Player, obj : Obj, from : Cell, to : Cell]
EnterMove  == [pc : {"enter"}, id : Player, obj : Obj, to : Cell]
NotifyMove == [pc : {"notify"}, id : Player, obj : Obj]

MoverState == {Resting} \cup FoundMove \cup ReadMove \cup SetMove \cup LeaveMove \cup EnterMove \cup NotifyMove

\* the steps of a move that hold the player's object
Holding == {"found", "read", "set", "leave", "enter", "notify"}

Shape ==
  /\ players \in [Player -> Obj \cup {NoObj}]
  /\ subscribers \in [Player -> SUBSET Subscriber]
  /\ mover \in [Mover -> MoverState]
  /\ leaving \in {Nobody} \cup [pc : {"leaving"}, id : Player, at : Place]
  /\ disturbed \subseteq Player

\* A move holds an object that has been registered; an object not yet
\* registered is where RegisterPlayer puts it.
Objects ==
  /\ \A m \in Mover : mover[m].pc \in Holding =>
       mover[m].obj[1] = mover[m].id /\ mover[m].obj[2] <= lives[mover[m].id]
  /\ \A o \in Obj : o[2] > lives[o[1]] => position[o] = Spawn
  /\ \A i \in Player : players[i] # NoObj => lives[i] > 0

TypeInv == TypeOK /\ Shape /\ Objects

\* The initial state has these types.
LEMMA InitType == Init => TypeInv
<1> SUFFICES ASSUME Init PROVE TypeInv
  BY Zenon
<1>1. TypeOK
  BY WorldAssumption DEF Init, TypeOK
<1>2. Shape
  BY Zenon DEF Init, Shape, MoverState
<1>3. Objects
  BY Zenon DEF Init, Objects, Resting, Holding
<1> QED
  BY Zenon, <1>1, <1>2, <1>3 DEF TypeInv

\* A step of a move changes that move only.
LEMMA StepFacts ==
  ASSUME Shape, NEW m \in Mover, NEW r \in MoverState, Step(m, r)
  PROVE  /\ mover' \in [Mover -> MoverState]
         /\ mover'[m] = r
         /\ \A n \in Mover \ {m} : mover'[n] = mover[n]
BY Zenon DEF Shape, Step

\* Registration keeps the types.
LEMMA RegisterType ==
  ASSUME TypeInv, NEW i \in Player, Register(i)
  PROVE  TypeInv'
<1> USE DEF TypeInv
<1>1. <<i, lives[i] + 1>> \in Obj /\ lives[i] + 1 \in 1..MaxLives
  BY WorldAssumption DEF TypeOK, Register, Obj
<1>2. GetGrid(Spawn) \in Cell
  BY WorldAssumption, GetGridCell DEF Spawn, Position
<1>3. TypeOK'
  <2>1. (\A j \in Player : players[j] # NoObj => players[j] = <<j, lives[j]>>)'
    BY Zenon DEF TypeOK, Shape, Register
  <2>2. (entities \in [Cell -> [Player -> Obj \cup {NoObj}]])'
    BY Zenon, <1>1, <1>2 DEF TypeOK, Register, Added
  <2>3. (\A c \in Cell, j \in Player : entities[c][j] # NoObj => entities[c][j][1] = j)'
    BY Zenon, <1>1, <1>2 DEF TypeOK, Register, Added
  <2>4. (playerCount \in [Cell -> Int])'
    BY <1>2 DEF TypeOK, Register
  <2>5. (\A j \in Player : subscribers[j] # {} => players[j] # NoObj)'
    BY Zenon, <1>1, WorldAssumption DEF TypeOK, Shape, Register
  <2>6. (lives \in [Player -> 0..MaxLives])'
    BY <1>1, WorldAssumption DEF TypeOK, Register
  <2>7. (position \in [Obj -> Pos \cup {Spawn}])' /\ (moves \in 0..MaxMoves)'
    BY Zenon DEF TypeOK, Register
  <2> QED
    BY Zenon, <2>1, <2>2, <2>3, <2>4, <2>5, <2>6, <2>7 DEF TypeOK
<1>4. Shape'
  BY Zenon, <1>1 DEF Shape, Register
<1>5. Objects'
  <2>1. \A j \in Player : lives'[j] \in Int /\ lives[j] \in Int /\ lives'[j] >= lives[j]
    BY WorldAssumption DEF TypeOK, Register
  <2>2. (\A m \in Mover : mover[m].pc \in Holding =>
           mover[m].obj[1] = mover[m].id /\ mover[m].obj[2] <= lives[mover[m].id])'
    <3> SUFFICES ASSUME NEW m \in Mover, mover[m].pc \in Holding
                 PROVE  mover[m].obj[1] = mover[m].id /\ mover[m].obj[2] <= lives'[mover[m].id]
      BY Zenon DEF Register
    <3>1. mover[m].id \in Player /\ mover[m].obj \in Obj
      BY DEF Shape, MoverState, Holding, Resting, FoundMove, ReadMove, SetMove, LeaveMove, EnterMove, NotifyMove
    <3>2. mover[m].obj[2] \in Int
      BY <3>1, WorldAssumption DEF Obj
    <3> QED
      BY <2>1, <3>1, <3>2 DEF Objects
  <2>3. (\A o \in Obj : o[2] > lives[o[1]] => position[o] = Spawn)'
    <3> SUFFICES ASSUME NEW o \in Obj, o[2] > lives'[o[1]] PROVE position[o] = Spawn
      BY Zenon DEF Register
    <3>1. o[1] \in Player /\ o[2] \in Int
      BY WorldAssumption DEF Obj
    <3> QED
      BY <2>1, <3>1 DEF Objects
  <2>4. (\A j \in Player : players[j] # NoObj => lives[j] > 0)'
    BY <1>1, <2>1, WorldAssumption DEF Objects, Shape, TypeOK, Register
  <2> QED
    BY Zenon, <2>2, <2>3, <2>4 DEF Objects
<1> QED
  BY Zenon, <1>3, <1>4, <1>5

\* The counter of one cell goes down by one if the identifier is there.
LEMMA CountedDownFacts ==
  ASSUME playerCount \in [Cell -> Int], NEW c, NEW i \in Player
  PROVE  /\ CountedDown(c, i) \in [Cell -> Int]
         /\ \A d \in Cell : CountedDown(c, i)[d] =
              IF d = c /\ entities[c][i] # NoObj THEN playerCount[d] - 1 ELSE playerCount[d]
<1>1. CASE entities[c][i] = NoObj
  BY Zenon, <1>1 DEF CountedDown
<1>2. CASE entities[c][i] # NoObj
  <2>1. CountedDown(c, i) = [playerCount EXCEPT ![c] = playerCount[c] - 1]
    BY Zenon, <1>2 DEF CountedDown
  <2>2. CASE c \in Cell
    BY <1>2, <2>1, <2>2
  <2>3. CASE c \notin Cell
    BY Zenon, <1>2, <2>1, <2>3
  <2> QED
    BY Zenon, <2>2, <2>3
<1> QED
  BY Zenon, <1>1, <1>2

\* Unregistration and subscription keep the types.
LEMMA LockedType ==
  ASSUME TypeInv,
         \/ \E i \in Player : UnregisterBegin(i)
         \/ UnregisterEnd
         \/ \E s \in Subscriber, i \in Player : Subscribe(s, i) \/ Unsubscribe(s, i)
  PROVE  TypeInv'
<1> USE DEF TypeInv
<1>1. ASSUME NEW i \in Player, UnregisterBegin(i) PROVE TypeInv'
  <2>1. players[i] \in Obj
    BY Zenon, <1>1 DEF Shape, UnregisterBegin
  <2>2. position[players[i]] \in Place
    BY Zenon, <2>1 DEF TypeOK, Place
  <2>3. TypeOK' /\ Objects'
    BY Zenon, <1>1 DEF TypeOK, Objects, UnregisterBegin
  <2>4. Shape'
    BY Zenon, <1>1, <2>2 DEF Shape, UnregisterBegin
  <2> QED
    BY Zenon, <2>3, <2>4
<1>2. ASSUME UnregisterEnd PROVE TypeInv'
  <2>1. leaving.id \in Player
    BY Zenon, <1>2 DEF UnregisterEnd, LockFree, Shape
  <2>2. TypeOK'
    <3>1. (\A j \in Player : players[j] # NoObj => players[j] = <<j, lives[j]>>)'
      BY Zenon, <1>2, <2>1 DEF TypeOK, Shape, UnregisterEnd
    <3>2. /\ (entities \in [Cell -> [Player -> Obj \cup {NoObj}]])'
          /\ (\A c \in Cell, j \in Player : entities[c][j] # NoObj => entities[c][j][1] = j)'
          /\ (playerCount \in [Cell -> Int])'
      <4>1. CASE InScene(leaving.at)
        <5> DEFINE c == GetGrid(leaving.at)
        <5>1. /\ entities' = [entities EXCEPT ![c][leaving.id] = NoObj]
              /\ playerCount' = CountedDown(c, leaving.id)
          BY Zenon, <1>2, <4>1 DEF UnregisterEnd
        <5> HIDE DEF c
        <5>2. (entities \in [Cell -> [Player -> Obj \cup {NoObj}]])'
          BY Zenon, <2>1, <5>1 DEF TypeOK
        <5>3. (\A d \in Cell, j \in Player : entities[d][j] # NoObj => entities[d][j][1] = j)'
          BY Zenon, <2>1, <5>1 DEF TypeOK
        <5>4. (playerCount \in [Cell -> Int])'
          BY Zenon, <2>1, <5>1, CountedDownFacts DEF TypeOK
        <5> QED
          BY Zenon, <5>2, <5>3, <5>4
      <4>2. CASE ~InScene(leaving.at)
        BY <1>2, <4>2 DEF TypeOK, UnregisterEnd
      <4> QED
        BY Zenon, <4>1, <4>2
    <3>3. (\A j \in Player : subscribers[j] # {} => players[j] # NoObj)'
      BY Zenon, <1>2, <2>1 DEF TypeOK, Shape, UnregisterEnd, WithoutSubscriber
    <3>4. (lives \in [Player -> 0..MaxLives])' /\ (position \in [Obj -> Pos \cup {Spawn}])' /\ (moves \in 0..MaxMoves)'
      BY Zenon, <1>2 DEF TypeOK, UnregisterEnd
    <3> QED
      BY Zenon, <3>1, <3>2, <3>3, <3>4 DEF TypeOK
  <2>3. Shape'
    BY Zenon, <1>2, <2>1 DEF Shape, UnregisterEnd, WithoutSubscriber
  <2>4. Objects'
    BY Zenon, <1>2, <2>1 DEF Objects, Shape, UnregisterEnd
  <2> QED
    BY Zenon, <2>2, <2>3, <2>4
<1>3. ASSUME NEW s \in Subscriber, NEW i \in Player, Subscribe(s, i) \/ Unsubscribe(s, i) PROVE TypeInv'
  <2>1. /\ players[i] # NoObj
        /\ UNCHANGED <<players, position, entities, playerCount, mover, leaving, lives, moves, disturbed>>
    BY Zenon, <1>3 DEF Subscribe, Unsubscribe
  <2>2. /\ subscribers' \in [Player -> SUBSET Subscriber]
        /\ \A j \in Player \ {i} : subscribers'[j] = subscribers[j]
    <3>1. subscribers \in [Player -> SUBSET Subscriber]
      BY Zenon DEF Shape
    <3>2. CASE subscribers' = [subscribers EXCEPT ![i] = @ \cup {s}]
      BY Zenon, <3>1, <3>2
    <3>3. CASE subscribers' = [subscribers EXCEPT ![i] = @ \ {s}]
      BY Zenon, <3>1, <3>3
    <3> QED
      BY Zenon, <1>3, <3>2, <3>3 DEF Subscribe, Unsubscribe
  <2>3. TypeOK'
    BY Zenon, <2>1, <2>2 DEF TypeOK
  <2>4. Shape' /\ Objects'
    BY Zenon, <2>1, <2>2 DEF Shape, Objects
  <2> QED
    BY Zenon, <2>3, <2>4
<1> QED
  BY Zenon, <1>1, <1>2, <1>3

\* A move that is under way is at work on a player, and holds an object
\* before it notifies.
LEMMA MoverFacts ==
  ASSUME Shape, NEW m \in Mover
  PROVE  /\ mover[m].pc # "idle" => mover[m].id \in Player
         /\ mover[m].pc \in Holding => mover[m].obj \in Obj /\ mover[m].id \in Player
         /\ mover[m].pc = "found" => mover[m] \in FoundMove
         /\ mover[m].pc = "read" => mover[m] \in ReadMove
         /\ mover[m].pc = "set" => mover[m] \in SetMove
         /\ mover[m].pc = "leave" => mover[m] \in LeaveMove
         /\ mover[m].pc = "enter" => mover[m] \in EnterMove
         /\ mover[m].pc = "notify" => mover[m] \in NotifyMove
         /\ mover[m].pc = "idle" => mover[m] = Resting
<1>1. mover[m] \in MoverState
  BY Zenon DEF Shape
<1>2. CASE mover[m] = Resting
  BY <1>2 DEF Resting, Holding
<1>3. CASE mover[m] \in FoundMove
  BY Zenon, <1>3 DEF FoundMove, Holding
<1>4. CASE mover[m] \in ReadMove
  BY Zenon, <1>4 DEF ReadMove, Holding
<1>5. CASE mover[m] \in SetMove
  BY Zenon, <1>5 DEF SetMove, Holding
<1>6. CASE mover[m] \in LeaveMove
  BY Zenon, <1>6 DEF LeaveMove, Holding
<1>7. CASE mover[m] \in EnterMove
  BY Zenon, <1>7 DEF EnterMove, Holding
<1>8. CASE mover[m] \in NotifyMove
  BY Zenon, <1>8 DEF NotifyMove, Holding
<1> QED
  BY Zenon, <1>1, <1>2, <1>3, <1>4, <1>5, <1>6, <1>7, <1>8 DEF MoverState

\* What a step of a move does to the list of moves: it goes on with the same
\* player and object, or ends.
MoveGoesOn(m) ==
  /\ mover' \in [Mover -> MoverState]
  /\ \A n \in Mover \ {m} : mover'[n] = mover[n]
  /\ mover'[m].pc # "idle" => mover[m].pc # "idle" /\ mover'[m].id = mover[m].id
  /\ mover'[m].pc \in Holding => mover[m].pc \in Holding /\ mover'[m].obj = mover[m].obj

\* The steps of a move, after the first, as the records they leave.
LEMMA MoveSteps ==
  ASSUME TypeInv, NEW m \in Mover
  PROVE  /\ MoveReadOld(m) => /\ MoveGoesOn(m) /\ mover'[m].pc = "read"
                              /\ mover'[m].old = position[mover[m].obj] /\ mover'[m].new = mover[m].new
         /\ MoveSet(m) => /\ MoveGoesOn(m) /\ mover'[m].pc = "set"
                          /\ mover'[m].old = mover[m].old
         /\ MoveCompare(m) =>
              /\ MoveGoesOn(m)
              /\ LET old == mover[m].old
                     new == position[mover[m].obj] IN
                 \/ /\ mover'[m].pc = "notify"
                    /\ ~InScene(old) \/ ~InScene(new) \/ SameGrid(old, new)
                 \/ /\ mover'[m].pc = "leave" /\ mover'[m].from = GetGrid(old) /\ mover'[m].to = GetGrid(new)
                    /\ InScene(old) /\ InScene(new)
         /\ MoveLeave(m) => MoveGoesOn(m) /\ mover'[m].pc = "enter" /\ mover'[m].to = mover[m].to
         /\ MoveEnter(m) => MoveGoesOn(m) /\ mover'[m].pc = "notify"
         /\ MoveNotify(m) => MoveGoesOn(m) /\ mover'[m].pc = "idle"
<1> USE DEF TypeInv
<1>1. ASSUME MoveReadOld(m)
      PROVE  /\ MoveGoesOn(m) /\ mover'[m].pc = "read"
             /\ mover'[m].old = position[mover[m].obj] /\ mover'[m].new = mover[m].new
  <2> DEFINE r == [pc |-> "read", id |-> mover[m].id, obj |-> mover[m].obj, new |-> mover[m].new,
                   old |-> position[mover[m].obj]]
  <2>1. mover[m] \in FoundMove
    BY Zenon, <1>1, MoverFacts DEF MoveReadOld
  <2>2. position[mover[m].obj] \in Place
    BY Zenon, <2>1 DEF FoundMove, TypeOK, Place
  <2>3. r \in MoverState
    BY Zenon, <2>1, <2>2 DEF MoverState, FoundMove, ReadMove
  <2>4. mover' \in [Mover -> MoverState] /\ mover'[m] = r /\ \A n \in Mover \ {m} : mover'[n] = mover[n]
    BY Zenon, <1>1, <2>3, StepFacts DEF MoveReadOld
  <2> QED
    BY <1>1, <2>4 DEF MoveGoesOn, MoveReadOld, Holding
<1>2. ASSUME MoveSet(m)
      PROVE  MoveGoesOn(m) /\ mover'[m].pc = "set" /\ mover'[m].old = mover[m].old
  <2> DEFINE r == [pc |-> "set", id |-> mover[m].id, obj |-> mover[m].obj, old |-> mover[m].old]
  <2>1. mover[m] \in ReadMove
    BY Zenon, <1>2, MoverFacts DEF MoveSet
  <2>2. r \in MoverState
    BY Zenon, <2>1 DEF MoverState, ReadMove, SetMove
  <2>3. mover' \in [Mover -> MoverState] /\ mover'[m] = r /\ \A n \in Mover \ {m} : mover'[n] = mover[n]
    BY Zenon, <1>2, <2>2, StepFacts DEF MoveSet
  <2>4. /\ mover'[m].pc = "set" /\ mover'[m].id = mover[m].id
        /\ mover'[m].obj = mover[m].obj /\ mover'[m].old = mover[m].old
    BY <2>3
  <2>5. mover[m].pc = "read" /\ "read" # "idle"
    BY Zenon, <1>2 DEF MoveSet
  <2> QED
    BY Zenon, <2>3, <2>4, <2>5 DEF MoveGoesOn, Holding
<1>3. ASSUME MoveCompare(m)
      PROVE  /\ MoveGoesOn(m)
             /\ LET old == mover[m].old
                    new == position[mover[m].obj] IN
                \/ /\ mover'[m].pc = "notify"
                   /\ ~InScene(old) \/ ~InScene(new) \/ SameGrid(old, new)
                \/ /\ mover'[m].pc = "leave" /\ mover'[m].from = GetGrid(old) /\ mover'[m].to = GetGrid(new)
                   /\ InScene(old) /\ InScene(new)
  <2> DEFINE old == mover[m].old
             new == position[mover[m].obj]
             stay == ~InScene(old) \/ ~InScene(new) \/ SameGrid(old, new)
             r == [pc |-> "notify", id |-> mover[m].id, obj |-> mover[m].obj]
             q == [pc |-> "leave", id |-> mover[m].id, obj |-> mover[m].obj,
                   from |-> GetGrid(old), to |-> GetGrid(new)]
  <2>1. mover[m] \in SetMove
    BY Zenon, <1>3, MoverFacts DEF MoveCompare
  <2>2. old \in Position /\ new \in Position
    BY Zenon, <2>1, BoundFacts DEF SetMove, TypeOK, Place
  <2>3. CASE stay
    <3>1. r \in MoverState
      BY Zenon, <2>1 DEF MoverState, SetMove, NotifyMove
    <3>2. Step(m, r)
      BY Zenon, <1>3, <2>3 DEF MoveCompare
    <3>3. mover' \in [Mover -> MoverState] /\ mover'[m] = r /\ \A n \in Mover \ {m} : mover'[n] = mover[n]
      BY Zenon, <3>1, <3>2, StepFacts
    <3> QED
      BY <1>3, <2>3, <3>3 DEF MoveGoesOn, MoveCompare, Holding
  <2>4. CASE ~stay
    <3>1. GetGrid(old) \in Cell /\ GetGrid(new) \in Cell
      BY Zenon, <2>2, <2>4, GetGridCell
    <3>2. q \in MoverState
      BY Zenon, <2>1, <3>1 DEF MoverState, SetMove, LeaveMove
    <3>3. Step(m, q)
      BY Zenon, <1>3, <2>4 DEF MoveCompare
    <3>4. mover' \in [Mover -> MoverState] /\ mover'[m] = q /\ \A n \in Mover \ {m} : mover'[n] = mover[n]
      BY Zenon, <3>2, <3>3, StepFacts
    <3> QED
      BY <1>3, <2>4, <3>4 DEF MoveGoesOn, MoveCompare, Holding
  <2> QED
    BY Zenon, <2>3, <2>4
<1>4. ASSUME MoveLeave(m)
      PROVE  MoveGoesOn(m) /\ mover'[m].pc = "enter" /\ mover'[m].to = mover[m].to
  <2> DEFINE r == [pc |-> "enter", id |-> mover[m].id, obj |-> mover[m].obj, to |-> mover[m].to]
  <2>1. mover[m] \in LeaveMove
    BY Zenon, <1>4, MoverFacts DEF MoveLeave
  <2>2. r \in MoverState
    BY Zenon, <2>1 DEF MoverState, LeaveMove, EnterMove
  <2>3. mover' \in [Mover -> MoverState] /\ mover'[m] = r /\ \A n \in Mover \ {m} : mover'[n] = mover[n]
    BY Zenon, <1>4, <2>2, StepFacts DEF MoveLeave
  <2> QED
    BY <1>4, <2>3 DEF MoveGoesOn, MoveLeave, Holding
<1>5. ASSUME MoveEnter(m) PROVE MoveGoesOn(m) /\ mover'[m].pc = "notify"
  <2> DEFINE r == [pc |-> "notify", id |-> mover[m].id, obj |-> mover[m].obj]
  <2>1. mover[m] \in EnterMove
    BY Zenon, <1>5, MoverFacts DEF MoveEnter
  <2>2. r \in MoverState
    BY Zenon, <2>1 DEF MoverState, EnterMove, NotifyMove
  <2>3. mover' \in [Mover -> MoverState] /\ mover'[m] = r /\ \A n \in Mover \ {m} : mover'[n] = mover[n]
    BY Zenon, <1>5, <2>2, StepFacts DEF MoveEnter
  <2> QED
    BY <1>5, <2>3 DEF MoveGoesOn, MoveEnter, Holding
<1>6. ASSUME MoveNotify(m) PROVE MoveGoesOn(m) /\ mover'[m].pc = "idle"
  <2>1. Resting \in MoverState
    BY Zenon DEF MoverState
  <2>2. mover' \in [Mover -> MoverState] /\ mover'[m] = Resting /\ \A n \in Mover \ {m} : mover'[n] = mover[n]
    BY Zenon, <1>6, <2>1, StepFacts DEF MoveNotify
  <2> QED
    BY <2>2 DEF MoveGoesOn, Holding, Resting
<1> QED
  BY Zenon, <1>1, <1>2, <1>3, <1>4, <1>5, <1>6

\* A move keeps the types.
LEMMA MoveType ==
  ASSUME TypeInv, NEW m \in Mover,
         \/ \E i \in Player, p \in Pos : MoveBegin(m, i, p)
         \/ \E i \in Player : UpdateOther(m, i)
         \/ MoveReadOld(m) \/ MoveSet(m) \/ MoveCompare(m)
         \/ MoveLeave(m) \/ MoveEnter(m) \/ MoveNotify(m)
  PROVE  TypeInv'
<1> USE DEF TypeInv
<1>1. ASSUME NEW i \in Player, NEW p \in Pos, MoveBegin(m, i, p) PROVE TypeInv'
  <2> DEFINE r == [pc |-> "found", id |-> i, obj |-> <<i, lives[i]>>, new |-> p]
  <2>1. lives[i] \in 1..MaxLives
    <3>1. lives[i] \in 0..MaxLives /\ lives[i] > 0
      BY Zenon, <1>1 DEF TypeOK, Objects, MoveBegin, GetPlayer
    <3> QED
      BY <3>1, BoundFacts
  <2>2. r \in MoverState
    BY Zenon, <2>1 DEF MoverState, FoundMove, Obj
  <2>3. mover' \in [Mover -> MoverState] /\ mover'[m] = r /\ \A n \in Mover \ {m} : mover'[n] = mover[n]
    BY Zenon, <1>1, <2>2, StepFacts DEF MoveBegin
  <2>4. moves' \in 0..MaxMoves
    <3>1. moves \in 0..MaxMoves /\ moves < MaxMoves /\ moves' = moves + 1
      BY Zenon, <1>1 DEF MoveBegin, TypeOK
    <3> QED
      BY <3>1, BoundFacts
  <2>5. TypeOK'
    BY Zenon, <1>1, <2>4 DEF TypeOK, MoveBegin
  <2>6. Shape'
    BY Zenon, <1>1, <2>3 DEF Shape, MoveBegin
  <2>7. Objects'
    <3>1. (\A n \in Mover : mover[n].pc \in Holding =>
             mover[n].obj[1] = mover[n].id /\ mover[n].obj[2] <= lives[mover[n].id])'
      <4>1. lives' = lives
        BY Zenon, <1>1 DEF MoveBegin
      <4>2. ASSUME NEW n \in Mover \ {m}, mover'[n].pc \in Holding
            PROVE  mover'[n].obj[1] = mover'[n].id /\ mover'[n].obj[2] <= lives'[mover'[n].id]
        BY Zenon, <2>3, <4>1, <4>2 DEF Objects
      <4>3. mover'[m].obj = <<i, lives[i]>> /\ mover'[m].id = i
        BY <2>3
      <4>4. mover'[m].obj[1] = i /\ mover'[m].obj[2] = lives[i] /\ lives[i] <= lives[i]
        BY <2>1, <4>3, BoundFacts
      <4> QED
        BY Zenon, <4>1, <4>2, <4>3, <4>4
    <3> QED
      BY Zenon, <1>1, <3>1 DEF Objects, MoveBegin
  <2> QED
    BY Zenon, <2>5, <2>6, <2>7
<1>2. ASSUME MoveGoesOn(m), UNCHANGED <<players, subscribers, leaving, lives, moves>>,
             disturbed' \subseteq Player,
             entities' \in [Cell -> [Player -> Obj \cup {NoObj}]],
             \A c \in Cell, j \in Player : entities'[c][j] # NoObj => entities'[c][j][1] = j,
             playerCount' \in [Cell -> Int],
             position' \in [Obj -> Place],
             \A o \in Obj : o[2] > lives[o[1]] => position'[o] = position[o]
      PROVE  TypeInv'
  <2>1. TypeOK'
    BY Zenon, <1>2 DEF TypeOK, Place
  <2>2. Shape'
    BY Zenon, <1>2 DEF Shape, MoveGoesOn
  <2>3. Objects'
    <3>1. (\A n \in Mover : mover[n].pc \in Holding =>
             mover[n].obj[1] = mover[n].id /\ mover[n].obj[2] <= lives[mover[n].id])'
      <4> SUFFICES ASSUME NEW n \in Mover, mover'[n].pc \in Holding
                   PROVE  mover'[n].obj[1] = mover'[n].id /\ mover'[n].obj[2] <= lives[mover'[n].id]
        BY Zenon, <1>2
      <4>1. CASE n = m
        <5>1. mover'[m].pc # "idle"
          BY Zenon, <4>1 DEF Holding
        <5> QED
          BY Zenon, <1>2, <4>1, <5>1 DEF MoveGoesOn, Objects
      <4>2. CASE n # m
        BY Zenon, <1>2, <4>2 DEF MoveGoesOn, Objects
      <4> QED
        BY Zenon, <4>1, <4>2
    <3> QED
      BY Zenon, <1>2, <3>1 DEF Objects
  <2> QED
    BY Zenon, <2>1, <2>2, <2>3
<1>3. ASSUME MoveReadOld(m) \/ MoveCompare(m) \/ MoveNotify(m) PROVE TypeInv'
  <2>1. MoveGoesOn(m)
    BY Zenon, <1>3, MoveSteps
  <2>2. UNCHANGED <<players, subscribers, leaving, lives, moves, position, entities, playerCount, disturbed>>
    BY Zenon, <1>3 DEF MoveReadOld, MoveCompare, MoveNotify
  <2> QED
    BY Zenon, <1>2, <2>1, <2>2 DEF TypeOK, Shape, Place
<1>4. ASSUME MoveSet(m) PROVE TypeInv'
  <2>1. MoveGoesOn(m)
    BY Zenon, <1>4, MoveSteps
  <2>2. mover[m] \in ReadMove
    BY Zenon, <1>4, MoverFacts DEF MoveSet
  <2>3. /\ UNCHANGED <<players, subscribers, leaving, lives, moves, entities, playerCount>>
        /\ disturbed' \subseteq Player
        /\ position' \in [Obj -> Place]
    BY Zenon, <1>4, <2>2 DEF MoveSet, TypeOK, Shape, Place, ReadMove
  <2>4. ASSUME NEW o \in Obj, o[2] > lives[o[1]] PROVE position'[o] = position[o]
    <3>1. mover[m].obj[1] = mover[m].id /\ mover[m].obj[2] <= lives[mover[m].id]
      BY Zenon, <1>4 DEF Objects, MoveSet, Holding
    <3>2. mover[m].id \in Player /\ mover[m].obj[2] \in Int /\ lives[mover[m].id] \in Int
      <4>1. mover[m].id \in Player /\ mover[m].obj \in Obj /\ lives[mover[m].id] \in 0..MaxLives
        BY Zenon, <2>2 DEF ReadMove, TypeOK
      <4> QED
        BY <4>1, BoundFacts
    <3>3. o # mover[m].obj
      BY <2>4, <3>1, <3>2
    <3> QED
      BY Zenon, <1>4, <3>3 DEF MoveSet, TypeOK
  <2> QED
    BY Zenon, <1>2, <2>1, <2>3, <2>4 DEF TypeOK, Shape, Place
<1>5. ASSUME MoveLeave(m) PROVE TypeInv'
  <2>1. MoveGoesOn(m)
    BY Zenon, <1>5, MoveSteps
  <2>2. mover[m] \in LeaveMove
    BY Zenon, <1>5, MoverFacts DEF MoveLeave
  <2>3. UNCHANGED <<players, position, subscribers, leaving, lives, moves, disturbed>>
    BY Zenon, <1>5 DEF MoveLeave
  <2>4. playerCount' \in [Cell -> Int]
    BY Zenon, <1>5, <2>2, CountedDownFacts DEF MoveLeave, TypeOK, LeaveMove
  <2>5. entities' \in [Cell -> [Player -> Obj \cup {NoObj}]]
    BY Zenon, <1>5, <2>2 DEF MoveLeave, TypeOK, LeaveMove
  <2>6. \A c \in Cell, j \in Player : entities'[c][j] # NoObj => entities'[c][j][1] = j
    BY Zenon, <1>5, <2>2 DEF MoveLeave, TypeOK, LeaveMove
  <2> QED
    BY Zenon, <1>2, <2>1, <2>3, <2>4, <2>5, <2>6 DEF TypeOK, Shape, Place
<1>6. ASSUME MoveEnter(m) PROVE TypeInv'
  <2>1. MoveGoesOn(m)
    BY Zenon, <1>6, MoveSteps
  <2>2. mover[m] \in EnterMove
    BY Zenon, <1>6, MoverFacts DEF MoveEnter
  <2>3. UNCHANGED <<players, position, subscribers, leaving, lives, moves, disturbed>>
    BY Zenon, <1>6 DEF MoveEnter
  <2>4. playerCount' \in [Cell -> Int]
    <3>1. mover[m].to \in Cell
      BY Zenon, <2>2 DEF EnterMove
    <3>2. playerCount' = [playerCount EXCEPT ![mover[m].to] = @ + 1] /\ playerCount \in [Cell -> Int]
      BY Zenon, <1>6 DEF MoveEnter, TypeOK
    <3> QED
      BY <3>1, <3>2
  <2>5. entities' \in [Cell -> [Player -> Obj \cup {NoObj}]]
    BY Zenon, <1>6, <2>2 DEF MoveEnter, Added, TypeOK, EnterMove
  <2>6. \A c \in Cell, j \in Player : entities'[c][j] # NoObj => entities'[c][j][1] = j
    <3>1. mover[m].obj[1] = mover[m].id
      BY Zenon, <1>6 DEF Objects, MoveEnter, Holding
    <3> QED
      BY Zenon, <1>6, <2>2, <3>1 DEF MoveEnter, Added, TypeOK, EnterMove
  <2> QED
    BY Zenon, <1>2, <2>1, <2>3, <2>4, <2>5, <2>6 DEF TypeOK, Shape, Place
<1>7. ASSUME NEW i \in Player, UpdateOther(m, i) PROVE TypeInv'
  <2> DEFINE r == [pc |-> "notify", id |-> i, obj |-> <<i, lives[i]>>]
  <2>0. lives[i] \in 1..MaxLives
    <3>1. lives[i] \in 0..MaxLives /\ lives[i] > 0
      BY Zenon, <1>7 DEF TypeOK, Objects, UpdateOther, GetPlayer
    <3> QED
      BY <3>1, BoundFacts
  <2>1. r \in MoverState
    BY Zenon, <2>0 DEF MoverState, NotifyMove, Obj
  <2>2. mover' \in [Mover -> MoverState] /\ mover'[m] = r /\ \A n \in Mover \ {m} : mover'[n] = mover[n]
    BY Zenon, <1>7, <2>1, StepFacts DEF UpdateOther
  <2>3. moves' \in 0..MaxMoves
    <3>1. moves \in 0..MaxMoves /\ moves < MaxMoves /\ moves' = moves + 1
      BY Zenon, <1>7 DEF UpdateOther, TypeOK
    <3> QED
      BY <3>1, BoundFacts
  <2>4. TypeOK'
    BY Zenon, <1>7, <2>3 DEF TypeOK, UpdateOther
  <2>5. Shape'
    BY Zenon, <1>7, <2>2 DEF Shape, UpdateOther
  <2>6. Objects'
    <3>1. (\A n \in Mover : mover[n].pc \in Holding =>
             mover[n].obj[1] = mover[n].id /\ mover[n].obj[2] <= lives[mover[n].id])'
      <4>1. lives' = lives
        BY Zenon, <1>7 DEF UpdateOther
      <4>2. mover'[m].obj[1] = mover'[m].id /\ mover'[m].obj[2] <= lives[mover'[m].id]
        BY <2>0, <2>2, BoundFacts
      <4>3. \A n \in Mover \ {m} : mover'[n].pc \in Holding =>
              mover'[n].obj[1] = mover'[n].id /\ mover'[n].obj[2] <= lives[mover'[n].id]
        BY Zenon, <2>2 DEF Objects
      <4> QED
        BY Zenon, <4>1, <4>2, <4>3
    <3> QED
      BY Zenon, <1>7, <3>1 DEF Objects, UpdateOther
  <2> QED
    BY Zenon, <2>4, <2>5, <2>6
<1> QED
  BY Zenon, <1>1, <1>3, <1>4, <1>5, <1>6, <1>7

\* Every step keeps the types.
LEMMA NextType == TypeInv /\ [Next]_vars => TypeInv'
<1> SUFFICES ASSUME TypeInv, [Next]_vars PROVE TypeInv'
  BY Zenon
<1>1. CASE \E i \in Player : Register(i)
  BY Zenon, <1>1, RegisterType
<1>2. CASE \/ \E i \in Player : UnregisterBegin(i)
           \/ UnregisterEnd
           \/ \E s \in Subscriber, i \in Player : Subscribe(s, i) \/ Unsubscribe(s, i)
  BY Zenon, <1>2, LockedType
<1>3. ASSUME NEW m \in Mover,
             \/ \E i \in Player, p \in Pos : MoveBegin(m, i, p)
             \/ \E i \in Player : UpdateOther(m, i)
             \/ MoveReadOld(m) \/ MoveSet(m) \/ MoveCompare(m)
             \/ MoveLeave(m) \/ MoveEnter(m) \/ MoveNotify(m)
      PROVE  TypeInv'
  BY Zenon, <1>3, MoveType
<1>4. CASE UNCHANGED vars
  BY Zenon, <1>4 DEF vars, TypeInv, TypeOK, Shape, Objects
<1> QED
  BY Zenon, <1>1, <1>2, <1>3, <1>4 DEF Next

\* The state keeps its shape (TypeOK), with the shape of the moves.
THEOREM Types == Spec => []TypeInv
<1> QED
  BY InitType, NextType, PTL DEF Spec

\* The state keeps its shape, and the subscribers of an identifier that is
\* not registered are gone, for every set of players and movers, every scene
\* and every bound (TypeOK).
THEOREM TypeCorrect == Spec => []TypeOK
<1>1. TypeInv => TypeOK
  BY Zenon DEF TypeInv
<1> QED
  BY <1>1, Types, PTL

-----------------------------------------------------------------------------
(* What holds whatever overlaps.                                            *)

\* the identifiers in a cell
Occupants(c) == {i \in Player : entities[c][i] # NoObj}

\* the steps that leave the grid alone
GridKept == UNCHANGED <<entities, playerCount>>

\* One identifier enters one cell, as the counters and the maps see it.
Enters(i, c) ==
  /\ \A d \in Cell, j \in Player : ~(d = c /\ j = i) => entities'[d][j] = entities[d][j]
  /\ entities'[c][i] # NoObj
  /\ \A d \in Cell : playerCount'[d] = IF d = c THEN playerCount[d] + 1 ELSE playerCount[d]

\* One identifier leaves one cell, if it is there.
Leaves(i, c) ==
  /\ \A d \in Cell, j \in Player : ~(d = c /\ j = i) => entities'[d][j] = entities[d][j]
  /\ c \in Cell => entities'[c][i] = NoObj
  /\ \A d \in Cell : playerCount'[d] =
       IF d = c /\ entities[c][i] # NoObj THEN playerCount[d] - 1 ELSE playerCount[d]

\* Every step leaves the grid alone, or one identifier enters or leaves one cell.
LEMMA GridSteps ==
  ASSUME TypeInv
  PROVE  /\ \A i \in Player : Register(i) =>
              /\ GetGrid(Spawn) \in Cell /\ Enters(i, GetGrid(Spawn))
              /\ entities'[GetGrid(Spawn)][i] = <<i, lives[i] + 1>>
         /\ UnregisterEnd =>
              /\ leaving.id \in Player
              /\ \/ InScene(leaving.at) /\ Leaves(leaving.id, GetGrid(leaving.at))
                 \/ ~InScene(leaving.at) /\ GridKept
         /\ \A m \in Mover : MoveLeave(m) =>
              mover[m].id \in Player /\ mover[m].from \in Cell /\ Leaves(mover[m].id, mover[m].from)
         /\ \A m \in Mover : MoveEnter(m) =>
              /\ mover[m].id \in Player /\ mover[m].to \in Cell /\ Enters(mover[m].id, mover[m].to)
              /\ entities'[mover[m].to][mover[m].id] = mover[m].obj
<1> USE DEF TypeInv
<1>1. ASSUME NEW i \in Player, Register(i)
      PROVE  /\ GetGrid(Spawn) \in Cell /\ Enters(i, GetGrid(Spawn))
             /\ entities'[GetGrid(Spawn)][i] = <<i, lives[i] + 1>>
  <2>1. <<i, lives[i] + 1>> \in Obj
    BY <1>1, WorldAssumption DEF TypeOK, Register, Obj
  <2>2. GetGrid(Spawn) \in Cell
    BY WorldAssumption, GetGridCell DEF Spawn, Position
  <2>3. <<i, lives[i] + 1>> # NoObj
    BY Zenon, <2>1, WorldAssumption
  <2> QED
    BY Zenon, <1>1, <2>2, <2>3 DEF Register, Added, Enters, TypeOK
<1>2. ASSUME UnregisterEnd
      PROVE  /\ leaving.id \in Player
             /\ \/ InScene(leaving.at) /\ Leaves(leaving.id, GetGrid(leaving.at))
                \/ ~InScene(leaving.at) /\ GridKept
  <2>1. leaving.id \in Player
    BY Zenon, <1>2 DEF UnregisterEnd, LockFree, Shape
  <2>2. CASE InScene(leaving.at)
    <3> DEFINE c == GetGrid(leaving.at)
    <3>1. /\ entities' = [entities EXCEPT ![c][leaving.id] = NoObj]
          /\ playerCount' = CountedDown(c, leaving.id)
      BY Zenon, <1>2, <2>2 DEF UnregisterEnd
    <3> HIDE DEF c
    <3>2. Leaves(leaving.id, c)
      BY <2>1, <3>1, CountedDownFacts DEF Leaves, TypeOK
    <3> QED
      BY Zenon, <2>1, <2>2, <3>2 DEF c
  <2>3. CASE ~InScene(leaving.at)
    BY Zenon, <1>2, <2>1, <2>3 DEF UnregisterEnd, GridKept
  <2> QED
    BY Zenon, <2>2, <2>3
<1>3. ASSUME NEW m \in Mover, MoveLeave(m)
      PROVE  mover[m].id \in Player /\ mover[m].from \in Cell /\ Leaves(mover[m].id, mover[m].from)
  <2>1. mover[m] \in LeaveMove
    BY Zenon, <1>3, MoverFacts DEF MoveLeave
  <2> QED
    <3> DEFINE c == mover[m].from
               i == mover[m].id
    <3>1. i \in Player /\ c \in Cell
      BY Zenon, <2>1 DEF LeaveMove
    <3>2. entities' = [entities EXCEPT ![c][i] = NoObj] /\ playerCount' = CountedDown(c, i)
      BY Zenon, <1>3 DEF MoveLeave
    <3> HIDE DEF c, i
    <3>3. Leaves(i, c)
      <4>1. entities \in [Cell -> [Player -> Obj \cup {NoObj}]] /\ playerCount \in [Cell -> Int]
        BY Zenon DEF TypeOK
      <4> QED
        BY Zenon, <3>1, <3>2, <4>1, CountedDownFacts DEF Leaves
    <3> QED
      BY Zenon, <3>1, <3>3 DEF c, i
<1>4. ASSUME NEW m \in Mover, MoveEnter(m)
      PROVE  /\ mover[m].id \in Player /\ mover[m].to \in Cell /\ Enters(mover[m].id, mover[m].to)
             /\ entities'[mover[m].to][mover[m].id] = mover[m].obj
  <2>1. mover[m] \in EnterMove
    BY Zenon, <1>4, MoverFacts DEF MoveEnter
  <2>2. mover[m].obj # NoObj
    BY Zenon, <2>1, WorldAssumption DEF EnterMove
  <2> QED
    BY Zenon, <1>4, <2>1, <2>2 DEF MoveEnter, Added, EnterMove, Enters, TypeOK
<1> QED
  BY Zenon, <1>1, <1>2, <1>3, <1>4

\* The step of a move that is neither out of nor into a cell.
LEMMA QuietSteps ==
  /\ \A i \in Player : UnregisterBegin(i) => GridKept /\ UNCHANGED <<players, position, mover, lives>>
  /\ \A s \in Subscriber, i \in Player : Subscribe(s, i) \/ Unsubscribe(s, i) =>
       GridKept /\ UNCHANGED <<players, position, mover, leaving, lives, disturbed, gone>>
  /\ \A m \in Mover, i \in Player, p \in Pos : MoveBegin(m, i, p) =>
       GridKept /\ UNCHANGED <<players, position, leaving, lives>>
  /\ \A m \in Mover, i \in Player : UpdateOther(m, i) =>
       GridKept /\ UNCHANGED <<players, position, leaving, lives>>
  /\ \A m \in Mover : MoveReadOld(m) \/ MoveSet(m) \/ MoveCompare(m) \/ MoveNotify(m) =>
       GridKept /\ UNCHANGED <<players, leaving, lives>>
BY Zenon DEF GridKept, UnregisterBegin, Subscribe, Unsubscribe, MoveBegin, UpdateOther, MoveReadOld, MoveSet, MoveCompare, MoveNotify

\* No step makes a registered player invisible.
LEMMA NextVisible ==
  TypeInv /\ NeverInvisible /\ [Next]_vars => NeverInvisible'
<1> SUFFICES ASSUME TypeInv, NeverInvisible, [Next]_vars,
                    NEW i \in Player, players'[i] # NoObj
             PROVE  \/ \E c \in Cell : entities'[c][i] # NoObj
                    \/ \E m \in Mover : mover'[m].pc = "enter" /\ mover'[m].id = i
  BY Zenon DEF NeverInvisible, Registered, CellsOf
<1> USE DEF TypeInv
<1>0. players[i] # NoObj =>
        \/ \E c \in Cell : entities[c][i] # NoObj
        \/ \E m \in Mover : mover[m].pc = "enter" /\ mover[m].id = i
  BY Zenon DEF NeverInvisible, Registered, CellsOf
<1>1. ASSUME NEW j \in Player, Register(j)
      PROVE  \/ \E c \in Cell : entities'[c][i] # NoObj
             \/ \E m \in Mover : mover'[m].pc = "enter" /\ mover'[m].id = i
  <2>1. GetGrid(Spawn) \in Cell /\ Enters(j, GetGrid(Spawn))
    BY Zenon, <1>1, GridSteps
  <2>2. CASE i = j
    BY Zenon, <2>1, <2>2 DEF Enters
  <2>3. CASE i # j
    <3>1. players[i] # NoObj /\ mover' = mover
      BY Zenon, <1>1, <2>3 DEF Register, Shape
    <3> QED
      BY Zenon, <1>0, <2>1, <2>3, <3>1 DEF Enters
  <2> QED
    BY Zenon, <2>2, <2>3
<1>2. CASE UnregisterEnd
  <2>1. players[i] # NoObj /\ i # leaving.id /\ mover' = mover
    BY Zenon, <1>2 DEF UnregisterEnd, Shape
  <2>2. \A c \in Cell : entities'[c][i] = entities[c][i]
    BY Zenon, <1>2, <2>1, GridSteps DEF Leaves, GridKept
  <2> QED
    BY Zenon, <1>0, <2>1, <2>2
<1>3. ASSUME NEW m \in Mover, MoveLeave(m)
      PROVE  \/ \E c \in Cell : entities'[c][i] # NoObj
             \/ \E n \in Mover : mover'[n].pc = "enter" /\ mover'[n].id = i
  <2>1. MoveGoesOn(m) /\ mover'[m].pc = "enter"
    BY Zenon, <1>3, MoveSteps
  <2>2. mover'[m].id = mover[m].id
    BY Zenon, <2>1 DEF MoveGoesOn
  <2>3. players' = players /\ mover[m].pc = "leave"
    BY Zenon, <1>3 DEF MoveLeave
  <2>4. CASE i = mover[m].id
    BY Zenon, <2>1, <2>2, <2>4
  <2>5. CASE i # mover[m].id
    <3>1. \A c \in Cell : entities'[c][i] = entities[c][i]
      BY Zenon, <1>3, <2>5, GridSteps DEF Leaves
    <3> QED
      BY Zenon, <1>0, <2>1, <2>3, <2>5, <3>1 DEF MoveGoesOn
  <2> QED
    BY Zenon, <2>4, <2>5
<1>4. ASSUME NEW m \in Mover, MoveEnter(m)
      PROVE  \/ \E c \in Cell : entities'[c][i] # NoObj
             \/ \E n \in Mover : mover'[n].pc = "enter" /\ mover'[n].id = i
  <2>1. MoveGoesOn(m)
    BY Zenon, <1>4, MoveSteps
  <2>2. players' = players
    BY Zenon, <1>4 DEF MoveEnter
  <2>3. mover[m].to \in Cell /\ Enters(mover[m].id, mover[m].to)
    BY Zenon, <1>4, GridSteps
  <2>4. CASE i = mover[m].id
    BY Zenon, <2>3, <2>4 DEF Enters
  <2>5. CASE i # mover[m].id
    BY Zenon, <1>0, <2>1, <2>2, <2>3, <2>5 DEF MoveGoesOn, Enters
  <2> QED
    BY Zenon, <2>4, <2>5
<1>5. ASSUME NEW m \in Mover,
             \/ \E j \in Player, p \in Pos : MoveBegin(m, j, p)
             \/ \E j \in Player : UpdateOther(m, j)
             \/ MoveReadOld(m) \/ MoveSet(m) \/ MoveCompare(m) \/ MoveNotify(m)
      PROVE  \/ \E c \in Cell : entities'[c][i] # NoObj
             \/ \E n \in Mover : mover'[n].pc = "enter" /\ mover'[n].id = i
  <2>1. players' = players /\ entities' = entities
    BY Zenon, <1>5, QuietSteps DEF GridKept
  <2>2. mover[m].pc # "enter"
    <3>1. mover[m].pc \in {"idle", "found", "read", "set", "notify"}
      <4>1. CASE (\E j \in Player, p \in Pos : MoveBegin(m, j, p)) \/ (\E j \in Player : UpdateOther(m, j))
        <5>1. mover[m] = Resting
          BY Zenon, <4>1 DEF MoveBegin, UpdateOther
        <5> QED
          BY <5>1 DEF Resting
      <4>2. CASE MoveReadOld(m) \/ MoveSet(m) \/ MoveCompare(m) \/ MoveNotify(m)
        BY Zenon, <4>2 DEF MoveReadOld, MoveSet, MoveCompare, MoveNotify
      <4> QED
        BY Zenon, <1>5, <4>1, <4>2
    <3> QED
      BY Zenon, <3>1
  <2>3. \A n \in Mover \ {m} : mover'[n] = mover[n]
    BY Zenon, <1>5 DEF MoveBegin, UpdateOther, MoveReadOld, MoveSet, MoveCompare, MoveNotify, Step, Shape
  <2> QED
    BY Zenon, <1>0, <2>1, <2>2, <2>3
<1>6. CASE \/ \E j \in Player : UnregisterBegin(j)
           \/ \E s \in Subscriber, j \in Player : Subscribe(s, j) \/ Unsubscribe(s, j)
           \/ UNCHANGED vars
  <2>1. UNCHANGED <<players, entities, mover>>
    BY Zenon, <1>6, QuietSteps DEF GridKept, vars
  <2> QED
    BY Zenon, <1>0, <2>1
<1> QED
  BY Zenon, <1>1, <1>2, <1>3, <1>4, <1>5, <1>6 DEF Next

\* Whatever overlaps, a registered player is in some cell of the grid or a
\* move that has taken it out is about to put it back (UpdateEntity,
\* RegisterPlayer, UnregisterPlayer), for every number of players and moves.
THEOREM Visible == Spec => []NeverInvisible
<1>1. Init => NeverInvisible
  BY DEF Init, NeverInvisible, Registered
<1> QED
  BY <1>1, NextVisible, Types, PTL DEF Spec

\* The occupants of a cell are finitely many.
LEMMA OccupantsFinite ==
  ASSUME NEW c PROVE IsFiniteSet(Occupants(c)) /\ Cardinality(Occupants(c)) \in Nat
<1>1. Occupants(c) \in SUBSET Player
  BY Zenon DEF Occupants
<1>2. IsFiniteSet(Occupants(c))
  BY Zenon, <1>1, WorldAssumption, FS_Subset
<1> QED
  BY Zenon, <1>2, FS_CardinalityType

\* How many occupants a cell has after a step.
LEMMA OccupantsCount ==
  ASSUME NEW i \in Player, NEW c, NEW d \in Cell
  PROVE  /\ c \in Cell /\ Enters(i, c) => Cardinality(Occupants(d)') =
              IF d = c /\ entities[c][i] = NoObj THEN Cardinality(Occupants(d)) + 1 ELSE Cardinality(Occupants(d))
         /\ Leaves(i, c) => Cardinality(Occupants(d)') =
              IF d = c /\ entities[c][i] # NoObj THEN Cardinality(Occupants(d)) - 1 ELSE Cardinality(Occupants(d))
<1>0. IsFiniteSet(Occupants(d))
  BY Zenon, OccupantsFinite
<1>1. ASSUME c \in Cell, Enters(i, c)
      PROVE  Cardinality(Occupants(d)') =
               IF d = c /\ entities[c][i] = NoObj THEN Cardinality(Occupants(d)) + 1 ELSE Cardinality(Occupants(d))
  <2>1. CASE d = c
    <3>1. Occupants(d)' = Occupants(d) \cup {i}
      BY Zenon, <1>1, <2>1 DEF Enters, Occupants
    <3>2. i \in Occupants(d) <=> entities[c][i] # NoObj
      BY Zenon, <2>1 DEF Occupants
    <3> QED
      BY Zenon, <1>0, <2>1, <3>1, <3>2, FS_AddElement
  <2>2. CASE d # c
    <3>1. Occupants(d)' = Occupants(d)
      BY Zenon, <1>1, <2>2 DEF Enters, Occupants
    <3> QED
      BY Zenon, <2>2, <3>1
  <2> QED
    BY Zenon, <2>1, <2>2
<1>2. ASSUME Leaves(i, c)
      PROVE  Cardinality(Occupants(d)') =
               IF d = c /\ entities[c][i] # NoObj THEN Cardinality(Occupants(d)) - 1 ELSE Cardinality(Occupants(d))
  <2>1. CASE d = c
    <3>1. Occupants(d)' = Occupants(d) \ {i}
      BY Zenon, <1>2, <2>1 DEF Leaves, Occupants
    <3>2. i \in Occupants(d) <=> entities[c][i] # NoObj
      BY Zenon, <2>1 DEF Occupants
    <3> QED
      BY ZenonT(30), <1>0, <2>1, <3>1, <3>2, FS_RemoveElement
  <2>2. CASE d # c
    <3>1. Occupants(d)' = Occupants(d)
      BY Zenon, <1>2, <2>2 DEF Leaves, Occupants
    <3> QED
      BY Zenon, <2>2, <3>1
  <2> QED
    BY Zenon, <2>1, <2>2
<1> QED
  BY Zenon, <1>1, <1>2

\* Every step of the program is one of these three for the grid.
LEMMA GridCases ==
  ASSUME TypeInv, [Next]_vars
  PROVE  \/ GridKept
         \/ \E i \in Player, c \in Cell : Enters(i, c)
         \/ \E i \in Player : \E c : Leaves(i, c)
<1>1. CASE \E i \in Player : Register(i)
  BY Zenon, <1>1, GridSteps
<1>2. CASE UnregisterEnd
  BY Zenon, <1>2, GridSteps
<1>3. CASE \E m \in Mover : MoveLeave(m)
  BY Zenon, <1>3, GridSteps
<1>4. CASE \E m \in Mover : MoveEnter(m)
  BY Zenon, <1>4, GridSteps
<1>5. CASE \/ \E j \in Player : UnregisterBegin(j)
           \/ \E s \in Subscriber, j \in Player : Subscribe(s, j) \/ Unsubscribe(s, j)
           \/ \E m \in Mover : MoveReadOld(m) \/ MoveSet(m) \/ MoveCompare(m) \/ MoveNotify(m)
           \/ \E m \in Mover, j \in Player, p \in Pos : MoveBegin(m, j, p)
           \/ \E m \in Mover, j \in Player : UpdateOther(m, j)
  BY Zenon, <1>5, QuietSteps
<1>6. CASE UNCHANGED vars
  BY Zenon, <1>6 DEF vars, GridKept
<1> QED
  BY Zenon, <1>1, <1>2, <1>3, <1>4, <1>5, <1>6 DEF Next

\* No step lets a counter fall short.
LEMMA NextCovers ==
  TypeInv /\ CountCovers /\ [Next]_vars => CountCovers'
<1> SUFFICES ASSUME TypeInv, CountCovers, [Next]_vars, NEW d \in Cell
             PROVE  playerCount'[d] >= Cardinality(Occupants(d)')
  BY Zenon DEF CountCovers, Occupants
<1>1. playerCount[d] \in Int /\ playerCount[d] >= Cardinality(Occupants(d))
  BY Zenon DEF TypeInv, TypeOK, CountCovers, Occupants
<1>2. Cardinality(Occupants(d)) \in Int
  BY OccupantsFinite
<1>3. CASE GridKept
  BY Zenon, <1>1, <1>3 DEF GridKept, Occupants
<1>4. ASSUME NEW i \in Player, NEW c \in Cell, Enters(i, c)
      PROVE  playerCount'[d] >= Cardinality(Occupants(d)')
  <2>1. playerCount'[d] = IF d = c THEN playerCount[d] + 1 ELSE playerCount[d]
    BY Zenon, <1>4 DEF Enters
  <2>2. Cardinality(Occupants(d)') =
          IF d = c /\ entities[c][i] = NoObj THEN Cardinality(Occupants(d)) + 1 ELSE Cardinality(Occupants(d))
    BY Zenon, <1>4, OccupantsCount
  <2> QED
    BY <1>1, <1>2, <2>1, <2>2
<1>5. ASSUME NEW i \in Player, NEW c, Leaves(i, c)
      PROVE  playerCount'[d] >= Cardinality(Occupants(d)')
  <2>1. playerCount'[d] = IF d = c /\ entities[c][i] # NoObj THEN playerCount[d] - 1 ELSE playerCount[d]
    BY Zenon, <1>5 DEF Leaves
  <2>2. Cardinality(Occupants(d)') =
          IF d = c /\ entities[c][i] # NoObj THEN Cardinality(Occupants(d)) - 1 ELSE Cardinality(Occupants(d))
    BY Zenon, <1>5, OccupantsCount
  <2> QED
    BY <1>1, <1>2, <2>1, <2>2
<1> QED
  BY Zenon, <1>3, <1>4, <1>5, GridCases

\* Whatever overlaps, no counter of a cell falls below the number of players
\* in the cell (AddEntity, RemoveEntity, UpdateEntity), for every number of
\* players and moves.
THEOREM Covered == Spec => []CountCovers
<1>1. Init => CountCovers
  <2> SUFFICES ASSUME Init, NEW c \in Cell
               PROVE  playerCount[c] >= Cardinality({i \in Player : entities[c][i] # NoObj})
    BY Zenon DEF CountCovers
  <2>1. {i \in Player : entities[c][i] # NoObj} = {} /\ playerCount[c] = 0
    BY Zenon DEF Init
  <2> QED
    BY <2>1, FS_EmptySet
<1> QED
  BY <1>1, NextCovers, Types, PTL DEF Spec

-----------------------------------------------------------------------------
(* What holds of a player whose calls do not overlap.                       *)

\* A move of an undisturbed player is the only one, goes on with the object
\* that is registered, and the player is not being unregistered.
AloneOf(i) ==
  \A m \in Mover : mover[m].pc # "idle" /\ mover[m].id = i =>
    /\ players[i] # NoObj
    /\ leaving # Nobody => leaving.id # i
    /\ \A n \in Mover : mover[n].pc # "idle" /\ mover[n].id = i => n = m
    /\ mover[m].pc \in Holding => mover[m].obj = players[i]

Alone == \A i \in Player \ disturbed : AloneOf(i)

\* A player no move works on is not in Moving.
LEMMA MovingFacts ==
  ASSUME NEW i, i \notin Moving, NEW m \in Mover, mover[m].pc # "idle"
  PROVE  mover[m].id # i
BY Zenon DEF Moving

\* What a step that goes on with a move of player j keeps for all players.
LEMMA AloneGoesOn ==
  ASSUME TypeInv, Alone, NEW m \in Mover, MoveGoesOn(m),
         UNCHANGED <<players, leaving>>, disturbed \subseteq disturbed'
  PROVE  (\A i \in Player \ disturbed : AloneOf(i))'
<1> SUFFICES ASSUME NEW i \in Player, i \notin disturbed',
                    NEW n \in Mover, mover'[n].pc # "idle", mover'[n].id = i
             PROVE  /\ players[i] # NoObj
                    /\ leaving # Nobody => leaving.id # i
                    /\ \A k \in Mover : mover'[k].pc # "idle" /\ mover'[k].id = i => k = n
                    /\ mover'[n].pc \in Holding => mover'[n].obj = players[i]
  BY Zenon DEF AloneOf
<1>1. AloneOf(i)
  BY Zenon DEF Alone
<1>2. \A k \in Mover : mover'[k].pc # "idle" => mover[k].pc # "idle" /\ mover'[k].id = mover[k].id
  BY Zenon DEF MoveGoesOn
<1>3. \A k \in Mover : mover'[k].pc \in Holding => mover[k].pc \in Holding /\ mover'[k].obj = mover[k].obj
  BY Zenon DEF MoveGoesOn
<1> QED
  BY Zenon, <1>1, <1>2, <1>3 DEF AloneOf

\* Every step keeps this.
LEMMA NextAlone == TypeInv /\ Alone /\ [Next]_vars => Alone'
<1> SUFFICES ASSUME TypeInv, Alone, [Next]_vars PROVE Alone'
  BY Zenon
<1> USE DEF TypeInv
<1>1. ASSUME NEW j \in Player, Register(j) PROVE Alone'
  <2>1. ASSUME NEW i \in Player, i \notin disturbed' PROVE AloneOf(i)'
    <3>1. i \notin disturbed /\ AloneOf(i)
      BY Zenon, <1>1, <2>1 DEF Register, Alone
    <3>2. UNCHANGED <<mover, leaving>>
      BY Zenon, <1>1 DEF Register
    <3>3. CASE i = j
      <4>1. i \notin Moving
        BY Zenon, <1>1, <2>1, <3>3 DEF Register
      <4> QED
        BY Zenon, <3>2, <4>1, MovingFacts DEF AloneOf
    <3>4. CASE i # j
      <4>1. players'[i] = players[i]
        BY Zenon, <1>1, <3>4 DEF Register, Shape
      <4> QED
        BY Zenon, <3>1, <3>2, <4>1 DEF AloneOf
    <3> QED
      BY Zenon, <3>3, <3>4
  <2> QED
    BY Zenon, <1>1, <2>1 DEF Alone, Register
<1>2. ASSUME NEW j \in Player, UnregisterBegin(j) PROVE Alone'
  <2>1. ASSUME NEW i \in Player, i \notin disturbed' PROVE AloneOf(i)'
    <3>1. i \notin disturbed /\ AloneOf(i)
      BY Zenon, <1>2, <2>1 DEF UnregisterBegin, Alone
    <3>2. UNCHANGED <<mover, players>> /\ leaving'.id = j
      BY Zenon, <1>2 DEF UnregisterBegin
    <3>3. CASE i = j
      <4>1. i \notin Moving
        BY Zenon, <1>2, <2>1, <3>3 DEF UnregisterBegin
      <4> QED
        BY Zenon, <3>2, <4>1, MovingFacts DEF AloneOf
    <3>4. CASE i # j
      BY Zenon, <3>1, <3>2, <3>4 DEF AloneOf
    <3> QED
      BY Zenon, <3>3, <3>4
  <2> QED
    BY Zenon, <1>2, <2>1 DEF Alone, UnregisterBegin
<1>3. ASSUME UnregisterEnd PROVE Alone'
  <2>1. ASSUME NEW i \in Player, i \notin disturbed' PROVE AloneOf(i)'
    <3>1. i \notin disturbed /\ AloneOf(i)
      BY Zenon, <1>3, <2>1 DEF UnregisterEnd, Alone
    <3>2. mover' = mover /\ leaving' = Nobody /\ leaving # Nobody
      BY Zenon, <1>3 DEF UnregisterEnd, LockFree
    <3>3. CASE i = leaving.id
      BY Zenon, <3>1, <3>2, <3>3 DEF AloneOf
    <3>4. CASE i # leaving.id
      <4>1. players'[i] = players[i]
        BY Zenon, <1>3, <3>4 DEF UnregisterEnd, Shape
      <4> QED
        BY Zenon, <3>1, <3>2, <4>1 DEF AloneOf
    <3> QED
      BY Zenon, <3>3, <3>4
  <2> QED
    BY Zenon, <1>3, <2>1 DEF Alone, UnregisterEnd
<1>4. ASSUME NEW m \in Mover, NEW j \in Player, (\E p \in Pos : MoveBegin(m, j, p)) \/ UpdateOther(m, j)
      PROVE  Alone'
  <2>0. /\ mover'[m].id = j /\ mover[m].pc = "idle"
        /\ mover'[m].pc \in Holding => mover'[m].obj = <<j, lives[j]>>
        /\ \A n \in Mover \ {m} : mover'[n] = mover[n]
    BY <1>4 DEF MoveBegin, UpdateOther, Step, Shape, Resting, Holding
  <2>1. ASSUME NEW i \in Player, i \notin disturbed' PROVE AloneOf(i)'
    <3>1. i \notin disturbed /\ AloneOf(i)
      BY Zenon, <1>4, <2>1 DEF MoveBegin, UpdateOther, Alone
    <3>2. UNCHANGED <<players, leaving>> /\ leaving = Nobody /\ players[j] = <<j, lives[j]>> /\ players[j] # NoObj
      BY Zenon, <1>4 DEF MoveBegin, UpdateOther, LockFree, GetPlayer, TypeOK
    <3>3. CASE i = j
      <4>1. i \notin Moving
        BY Zenon, <1>4, <2>1, <3>3 DEF MoveBegin, UpdateOther
      <4>2. \A n \in Mover \ {m} : mover'[n].pc # "idle" => mover'[n].id # i
        BY Zenon, <2>0, <4>1, MovingFacts
      <4> QED
        BY Zenon, <2>0, <3>2, <3>3, <4>2 DEF AloneOf
    <3>4. CASE i # j
      BY <2>0, <3>1, <3>2, <3>4 DEF AloneOf
    <3> QED
      BY Zenon, <3>3, <3>4
  <2> QED
    BY Zenon, <1>4, <2>1 DEF Alone, MoveBegin, UpdateOther
<1>5. ASSUME NEW m \in Mover, MoveReadOld(m) \/ MoveSet(m) \/ MoveCompare(m) \/ MoveLeave(m) \/ MoveEnter(m)
      PROVE  Alone'
  <2>1. MoveGoesOn(m)
    BY Zenon, <1>5, MoveSteps
  <2>2. UNCHANGED <<players, leaving>> /\ disturbed \subseteq disturbed'
    BY Zenon, <1>5 DEF MoveReadOld, MoveSet, MoveCompare, MoveLeave, MoveEnter
  <2> QED
    BY Zenon, <2>1, <2>2, AloneGoesOn DEF Alone
<1>6. ASSUME NEW m \in Mover, MoveNotify(m) PROVE Alone'
  <2>1. MoveGoesOn(m)
    BY Zenon, <1>6, MoveSteps
  <2>2. UNCHANGED <<players, leaving, disturbed>>
    BY Zenon, <1>6 DEF MoveNotify
  <2> QED
    BY Zenon, <2>1, <2>2, AloneGoesOn DEF Alone
<1>7. CASE \/ \E s \in Subscriber, j \in Player : Subscribe(s, j) \/ Unsubscribe(s, j)
           \/ UNCHANGED vars
  <2>1. UNCHANGED <<players, mover, leaving, disturbed>>
    BY Zenon, <1>7, QuietSteps DEF vars
  <2> QED
    BY <2>1 DEF Alone, AloneOf
<1> QED
  BY Zenon, <1>1, <1>2, <1>3, <1>4, <1>5, <1>6, <1>7 DEF Next

\* The calls of an undisturbed player do not overlap.
LEMMA AlwaysAlone == Spec => []Alone
<1>1. Init => Alone
  BY DEF Init, Alone, AloneOf, Resting
<1> QED
  BY <1>1, NextAlone, Types, PTL DEF Spec

-----------------------------------------------------------------------------
(* What the callbacks of an update are told.                                *)

\* From GetPlayer on, the map has the object of the update, or the player has
\* been unregistered since.
KeptOf(m) == mover[m].pc # "idle" => players[mover[m].id] = mover[m].obj \/ m \in gone

Kept == \A m \in Mover : KeptOf(m)

\* Every step keeps this: a registration changes the entry of a player that
\* was gone already.
LEMMA NextKept == TypeInv /\ Kept /\ [Next]_vars => Kept'
<1> SUFFICES ASSUME TypeInv, Kept, [Next]_vars, NEW n \in Mover PROVE KeptOf(n)'
  BY Zenon DEF Kept
<1> USE DEF TypeInv
<1>0. KeptOf(n)
  BY Zenon DEF Kept
<1>1. ASSUME NEW j \in Player, Register(j) PROVE KeptOf(n)'
  <2>1. /\ mover' = mover /\ gone' = gone /\ players[j] = NoObj
        /\ \A i \in Player : i # j => players'[i] = players[i]
    BY Zenon, <1>1 DEF Register, Shape
  <2>2. mover[n].pc # "idle" => mover[n].id \in Player /\ mover[n].obj \in Obj
    <3>1. mover[n] \in MoverState
      BY Zenon DEF Shape
    <3>2. mover[n].pc # "idle" => mover[n].pc \in Holding
      BY <3>1 DEF Holding, MoverState, FoundMove, ReadMove, SetMove, LeaveMove, EnterMove, NotifyMove, Resting
    <3> QED
      BY Zenon, <3>2, MoverFacts
  <2> QED
    BY Zenon, <1>0, <2>1, <2>2, WorldAssumption DEF KeptOf
<1>2. ASSUME UnregisterEnd PROVE KeptOf(n)'
  <2>1. /\ mover' = mover /\ players' = [players EXCEPT ![leaving.id] = NoObj]
        /\ gone' = gone \cup {m \in Mover : mover[m].pc # "idle" /\ mover[m].id = leaving.id}
    BY Zenon, <1>2 DEF UnregisterEnd
  <2>2. \A i \in Player : i # leaving.id => players'[i] = players[i]
    BY Zenon, <2>1 DEF Shape
  <2>3. mover[n].pc # "idle" => mover[n].id \in Player
    BY Zenon, MoverFacts
  <2> QED
    BY Zenon, <1>0, <2>1, <2>2, <2>3 DEF KeptOf
<1>3. ASSUME NEW m \in Mover, NEW j \in Player, (\E p \in Pos : MoveBegin(m, j, p)) \/ UpdateOther(m, j)
      PROVE  KeptOf(n)'
  <2>1. /\ mover'[m].id = j /\ mover'[m].obj = <<j, lives[j]>>
        /\ \A k \in Mover \ {m} : mover'[k] = mover[k]
    BY <1>3 DEF MoveBegin, UpdateOther, Step, Shape
  <2>2. players' = players /\ gone' = gone \ {m} /\ players[j] = <<j, lives[j]>>
    BY Zenon, <1>3 DEF MoveBegin, UpdateOther, GetPlayer, TypeOK
  <2> QED
    BY Zenon, <1>0, <2>1, <2>2 DEF KeptOf
<1>4. ASSUME NEW m \in Mover, \/ MoveReadOld(m) \/ MoveSet(m) \/ MoveCompare(m)
                              \/ MoveLeave(m) \/ MoveEnter(m) \/ MoveNotify(m)
      PROVE  KeptOf(n)'
  <2>1. MoveGoesOn(m)
    BY Zenon, <1>4, MoveSteps
  <2>2. players' = players /\ gone' = gone
    BY Zenon, <1>4 DEF MoveReadOld, MoveSet, MoveCompare, MoveLeave, MoveEnter, MoveNotify
  <2>3. mover'[n].pc # "idle" => mover'[n].pc \in Holding
    <3>1. mover'[n] \in MoverState
      BY Zenon, <2>1 DEF MoveGoesOn
    <3> QED
      BY <3>1 DEF Holding, MoverState, FoundMove, ReadMove, SetMove, LeaveMove, EnterMove, NotifyMove, Resting
  <2> QED
    BY Zenon, <1>0, <2>1, <2>2, <2>3 DEF KeptOf, MoveGoesOn
<1>5. CASE \/ \E j \in Player : UnregisterBegin(j)
           \/ \E s \in Subscriber, j \in Player : Subscribe(s, j) \/ Unsubscribe(s, j)
           \/ UNCHANGED vars
  <2>1. mover' = mover /\ players' = players /\ gone' = gone
    BY Zenon, <1>5 DEF UnregisterBegin, Subscribe, Unsubscribe, vars
  <2> QED
    BY Zenon, <1>0, <2>1 DEF KeptOf
<1> QED
  BY Zenon, <1>1, <1>2, <1>3, <1>4, <1>5 DEF Next

\* A callback of notifySubscribers is handed the state of the object its
\* update changed, unless the player was unregistered after that update found
\* it, for every number of players and updates.
THEOREM CallbackToldWhatChanged == Spec => []ToldWhatChanged
<1>1. Init => Kept
  BY DEF Init, Kept, KeptOf, Resting
<1>2. Kept => ToldWhatChanged
  BY Zenon DEF Kept, KeptOf, ToldWhatChanged
<1> QED
  BY <1>1, <1>2, NextKept, Types, PTL DEF Spec

-----------------------------------------------------------------------------
(* Where a player is.                                                       *)

\* the steps between the new position and the new cell
Between == {"set", "leave", "enter"}

At(i, c)  == \A d \in Cell : entities[d][i] = IF d = c THEN players[i] ELSE NoObj
Absent(i) == \A d \in Cell : entities[d][i] = NoObj
Where(i)  == position[players[i]]

\* Where an undisturbed player is, also while its move is under way.
PlacedOf(i) ==
  /\ players[i] = NoObj => Absent(i)
  /\ players[i] # NoObj => InScene(Where(i))
  /\ leaving # Nobody /\ leaving.id = i => players[i] # NoObj /\ leaving.at = Where(i)
  /\ players[i] # NoObj /\ (\A m \in Mover : mover[m].pc \in Between => mover[m].id # i) =>
       At(i, GetGrid(Where(i)))
  /\ \A m \in Mover : mover[m].pc # "idle" /\ mover[m].id = i =>
       /\ mover[m].pc = "read" => mover[m].old = Where(i)
       /\ mover[m].pc = "set" => InScene(mover[m].old) /\ At(i, GetGrid(mover[m].old))
       /\ mover[m].pc = "leave" => At(i, mover[m].from) /\ mover[m].to = GetGrid(Where(i))
       /\ mover[m].pc = "enter" => Absent(i) /\ mover[m].to = GetGrid(Where(i))

Placed == \A i \in Player \ disturbed : PlacedOf(i)

\* A step that does nothing to a player leaves it where it is.
LEMMA PlacedFrame ==
  ASSUME NEW i \in Player, AloneOf(i), PlacedOf(i),
         players'[i] = players[i],
         players[i] # NoObj => position'[players[i]] = position[players[i]],
         leaving' # Nobody /\ leaving'.id = i => leaving' = leaving,
         \A d \in Cell : entities'[d][i] = entities[d][i],
         \A m \in Mover : \/ mover'[m] = mover[m]
                          \/ /\ mover[m].pc # "idle" => mover[m].id # i
                             /\ mover'[m].pc # "idle" => mover'[m].id # i
  PROVE  PlacedOf(i)'
<1>1. At(i, GetGrid(Where(i))) /\ players[i] # NoObj => At(i, GetGrid(Where(i)))'
  BY Zenon DEF At, Where
<1>2. Absent(i) => Absent(i)'
  BY Zenon DEF Absent
<1>3. players[i] # NoObj => Where(i)' = Where(i)
  BY Zenon DEF Where
<1>4. (players[i] = NoObj => Absent(i))' /\ (players[i] # NoObj => InScene(Where(i)))'
  BY Zenon, <1>2, <1>3 DEF PlacedOf
<1>5. (leaving # Nobody /\ leaving.id = i => players[i] # NoObj /\ leaving.at = Where(i))'
  BY Zenon, <1>3 DEF PlacedOf
<1>6. (players[i] # NoObj /\ (\A m \in Mover : mover[m].pc \in Between => mover[m].id # i) =>
         At(i, GetGrid(Where(i))))'
  <2> SUFFICES ASSUME players'[i] # NoObj, \A m \in Mover : mover'[m].pc \in Between => mover'[m].id # i
               PROVE  At(i, GetGrid(Where(i)))'
    BY Zenon
  <2>1. \A m \in Mover : mover[m].pc \in Between => mover[m].id # i
    BY Zenon DEF Between
  <2> QED
    BY Zenon, <1>1, <2>1 DEF PlacedOf
<1>7. ASSUME NEW m \in Mover, mover'[m].pc # "idle", mover'[m].id = i
      PROVE  /\ mover'[m].pc = "read" => mover'[m].old = Where(i)'
             /\ mover'[m].pc = "set" => InScene(mover'[m].old) /\ At(i, GetGrid(mover[m].old))'
             /\ mover'[m].pc = "leave" => At(i, mover[m].from)' /\ mover'[m].to = GetGrid(Where(i)')
             /\ mover'[m].pc = "enter" => Absent(i)' /\ mover'[m].to = GetGrid(Where(i)')
  <2>1. mover'[m] = mover[m]
    BY Zenon, <1>7
  <2>2. \A c : At(i, c) => (\A d \in Cell : entities'[d][i] = IF d = c THEN players'[i] ELSE NoObj)
    BY Zenon DEF At
  <2>3. Where(i)' = Where(i)
    BY Zenon, <1>3, <1>7, <2>1 DEF AloneOf
  <2>4. /\ mover[m].pc = "read" => mover[m].old = Where(i)
        /\ mover[m].pc = "set" => InScene(mover[m].old) /\ At(i, GetGrid(mover[m].old))
        /\ mover[m].pc = "leave" => At(i, mover[m].from) /\ mover[m].to = GetGrid(Where(i))
        /\ mover[m].pc = "enter" => Absent(i) /\ mover[m].to = GetGrid(Where(i))
    BY Zenon, <1>7, <2>1 DEF PlacedOf
  <2>5. mover'[m].pc = "set" => At(i, GetGrid(mover[m].old))'
    BY <2>1, <2>2, <2>4 DEF At
  <2>6. mover'[m].pc = "leave" => At(i, mover[m].from)'
    BY <2>1, <2>2, <2>4 DEF At
  <2> QED
    BY Zenon, <1>2, <2>1, <2>3, <2>4, <2>5, <2>6
<1> QED
  BY Zenon, <1>4, <1>5, <1>6, <1>7 DEF PlacedOf

\* A step of a move of one player leaves the others where they are.
LEMMA OthersStay ==
  ASSUME TypeInv, Alone, Placed, NEW m \in Mover, MoveGoesOn(m), mover[m].pc # "idle",
         UNCHANGED <<players, leaving>>,
         NEW i \in Player, i \notin disturbed, i # mover[m].id,
         players[i] # NoObj => position'[players[i]] = position[players[i]],
         \A d \in Cell : entities'[d][i] = entities[d][i]
  PROVE  PlacedOf(i)'
<1>1. AloneOf(i) /\ PlacedOf(i)
  BY Zenon DEF Alone, Placed
<1>2. \A n \in Mover : \/ mover'[n] = mover[n]
                       \/ /\ mover[n].pc # "idle" => mover[n].id # i
                          /\ mover'[n].pc # "idle" => mover'[n].id # i
  BY Zenon DEF MoveGoesOn
<1> QED
  BY Zenon, <1>1, <1>2, PlacedFrame

\* What is known of the undisturbed player whose move takes a step.
LEMMA MovedFacts ==
  ASSUME TypeInv, Alone, Placed, NEW m \in Mover, MoveGoesOn(m), mover[m].pc # "idle",
         UNCHANGED <<players, leaving>>, mover[m].id \notin disturbed
  PROVE  LET i == mover[m].id IN
         /\ i \in Player /\ PlacedOf(i)
         /\ players[i] # NoObj /\ players'[i] = players[i]
         /\ ~(leaving' # Nobody /\ leaving'.id = i)
         /\ mover[m].pc \in Holding => mover[m].obj = players[i]
         /\ \A n \in Mover : mover[n].pc # "idle" /\ mover[n].id = i => n = m
         /\ \A n \in Mover : mover'[n].pc # "idle" /\ mover'[n].id = i => n = m
         /\ mover'[m].pc # "idle" => mover'[m].id = i
<1>1. mover[m].id \in Player
  BY Zenon, MoverFacts DEF TypeInv
<1>2. AloneOf(mover[m].id) /\ PlacedOf(mover[m].id)
  BY Zenon, <1>1 DEF Alone, Placed
<1>3. \A n \in Mover : mover[n].pc # "idle" /\ mover[n].id = mover[m].id => n = m
  BY Zenon, <1>2 DEF AloneOf
<1>4. \A n \in Mover : mover'[n].pc # "idle" /\ mover'[n].id = mover[m].id => n = m
  BY Zenon, <1>3 DEF MoveGoesOn
<1> QED
  BY Zenon, <1>1, <1>2, <1>3, <1>4 DEF AloneOf, MoveGoesOn

\* Moves before the grid is touched.
LEMMA PlacedSet ==
  ASSUME TypeInv, Alone, Placed, NEW m \in Mover, MoveReadOld(m) \/ MoveSet(m) \/ MoveCompare(m) \/ MoveNotify(m)
  PROVE  Placed'
<1> USE DEF TypeInv
<1>1. /\ MoveGoesOn(m)
      /\ UNCHANGED <<players, leaving, entities>> /\ disturbed \subseteq disturbed'
  BY Zenon, MoveSteps DEF MoveReadOld, MoveSet, MoveCompare, MoveNotify
<1>2. mover[m].pc # "idle"
  BY Zenon DEF MoveReadOld, MoveSet, MoveCompare, MoveNotify
<1>3. ASSUME NEW i \in Player, i \notin disturbed', i # mover[m].id PROVE PlacedOf(i)'
  <2>1. players[i] # NoObj => position'[players[i]] = position[players[i]]
    <3>1. CASE MoveSet(m)
      <4>1. players[i] # NoObj => players[i] \in Obj /\ players[i][1] = i
        BY DEF Shape, TypeOK
      <4>2. mover[m].obj[1] = mover[m].id
        BY Zenon, <3>1 DEF MoveSet, Objects, Holding
      <4> QED
        BY Zenon, <1>3, <3>1, <4>1, <4>2 DEF MoveSet, TypeOK
    <3>2. CASE MoveReadOld(m) \/ MoveCompare(m) \/ MoveNotify(m)
      BY Zenon, <3>2 DEF MoveReadOld, MoveCompare, MoveNotify
    <3> QED
      BY Zenon, <3>1, <3>2
  <2> QED
    BY Zenon, <1>1, <1>2, <1>3, <2>1, OthersStay
<1>4. ASSUME NEW i \in Player, i = mover[m].id, i \notin disturbed' PROVE PlacedOf(i)'
  <2>1. /\ PlacedOf(i)
        /\ players[i] # NoObj /\ players'[i] = players[i]
        /\ ~(leaving' # Nobody /\ leaving'.id = i)
        /\ mover[m].pc \in Holding => mover[m].obj = players[i]
        /\ \A n \in Mover : mover[n].pc # "idle" /\ mover[n].id = i => n = m
        /\ \A n \in Mover : mover'[n].pc # "idle" /\ mover'[n].id = i => n = m
        /\ mover'[m].pc # "idle" => mover'[m].id = i
        /\ mover[m].id = i
    BY Zenon, <1>1, <1>2, <1>4, MovedFacts
  <2>2. mover[m].pc \notin Between => At(i, GetGrid(Where(i)))
    <3> SUFFICES ASSUME mover[m].pc \notin Between PROVE At(i, GetGrid(Where(i)))
      BY Zenon
    <3>1. \A n \in Mover : mover[n].pc \in Between => mover[n].id # i
      BY Zenon, <2>1 DEF Between
    <3> QED
      BY Zenon, <2>1, <3>1 DEF PlacedOf
  <2>3. \A c : At(i, c) => \A d \in Cell : entities'[d][i] = IF d = c THEN players'[i] ELSE NoObj
    BY Zenon, <1>1 DEF At
  <2>4. CASE MoveReadOld(m)
    <3>1. mover'[m].pc = "read" /\ mover'[m].old = Where(i)
      BY Zenon, <2>1, <2>4, MoveSteps DEF MoveReadOld, Holding, Where
    <3>2. Where(i)' = Where(i)
      BY Zenon, <2>1, <2>4 DEF MoveReadOld, Where
    <3>3. At(i, GetGrid(Where(i)))
      BY Zenon, <2>2, <2>4 DEF MoveReadOld, Between
    <3>4. At(i, GetGrid(Where(i)))'
      BY Zenon, <2>3, <3>2, <3>3 DEF At
    <3> QED
      BY Zenon, <2>1, <3>1, <3>2, <3>4 DEF PlacedOf
  <2>5. CASE MoveSet(m)
    <3>1. mover'[m].pc = "set" /\ mover'[m].old = Where(i) /\ mover[m].pc = "read"
      BY Zenon, <2>1, <2>5, MoveSteps DEF MoveSet, PlacedOf
    <3>2. At(i, GetGrid(Where(i))) /\ InScene(Where(i))
      BY Zenon, <2>1, <2>2, <3>1 DEF Between, PlacedOf
    <3>3. At(i, GetGrid(mover[m].old))'
      BY Zenon, <2>3, <3>1, <3>2 DEF At
    <3>4. Where(i)' = mover[m].new
      <4>1. mover[m].obj = players[i] /\ players[i] \in Obj
        BY Zenon, <2>1, <3>1 DEF Holding, Shape
      <4> QED
        BY Zenon, <2>1, <2>5, <4>1 DEF MoveSet, Where, TypeOK
    <3>5. InScene(mover[m].new)
      BY Zenon, <1>4, <2>5 DEF MoveSet
    <3>6. ~(\A n \in Mover : mover'[n].pc \in Between => mover'[n].id # i)
      BY Zenon, <2>1, <3>1 DEF Between
    <3> QED
      BY Zenon, <2>1, <3>1, <3>2, <3>3, <3>4, <3>5, <3>6 DEF PlacedOf
  <2>6. CASE MoveCompare(m)
    <3>1. Where(i)' = Where(i) /\ position[mover[m].obj] = Where(i) /\ InScene(Where(i)) /\ mover[m].pc = "set"
      BY Zenon, <2>1, <2>6 DEF MoveCompare, Where, PlacedOf, Holding
    <3>2. InScene(mover[m].old) /\ At(i, GetGrid(mover[m].old))
      BY Zenon, <2>1, <3>1 DEF PlacedOf
    <3>3. \/ mover'[m].pc = "notify" /\ GetGrid(mover[m].old) = GetGrid(Where(i))
          \/ /\ mover'[m].pc = "leave" /\ mover'[m].from = GetGrid(mover[m].old)
             /\ mover'[m].to = GetGrid(Where(i))
      BY Zenon, <2>6, <3>1, <3>2, MoveSteps DEF SameGrid
    <3>4. CASE mover'[m].pc = "notify"
      <4>1. At(i, GetGrid(Where(i)))'
        BY Zenon, <2>3, <3>1, <3>2, <3>3, <3>4 DEF At
      <4> QED
        BY Zenon, <2>1, <3>1, <3>4, <4>1 DEF PlacedOf
    <3>5. CASE mover'[m].pc = "leave"
      <4>1. At(i, mover[m].from)'
        BY <2>3, <3>2, <3>3, <3>5 DEF At
      <4>2. ~(\A n \in Mover : mover'[n].pc \in Between => mover'[n].id # i)
        BY Zenon, <2>1, <3>5 DEF Between
      <4> QED
        BY Zenon, <2>1, <3>1, <3>3, <3>5, <4>1, <4>2 DEF PlacedOf
    <3> QED
      BY Zenon, <3>3, <3>4, <3>5
  <2>7. CASE MoveNotify(m)
    <3>1. mover'[m].pc = "idle" /\ mover[m].pc = "notify"
      BY Zenon, <2>7, MoveSteps DEF MoveNotify
    <3>2. Where(i)' = Where(i) /\ InScene(Where(i))
      BY Zenon, <2>1, <2>7 DEF MoveNotify, Where, PlacedOf
    <3>3. At(i, GetGrid(Where(i)))
      BY Zenon, <2>2, <3>1 DEF Between
    <3>4. At(i, GetGrid(Where(i)))'
      BY Zenon, <2>3, <3>2, <3>3 DEF At
    <3>5. \A n \in Mover : ~(mover'[n].pc # "idle" /\ mover'[n].id = i)
      BY Zenon, <2>1, <3>1
    <3> QED
      BY Zenon, <2>1, <3>2, <3>4, <3>5 DEF PlacedOf
  <2> QED
    BY Zenon, <2>1, <2>4, <2>5, <2>6, <2>7
<1> QED
  BY Zenon, <1>3, <1>4 DEF Placed

\* Moves out of the old cell and into the new one.
LEMMA PlacedGrid ==
  ASSUME TypeInv, Alone, Placed, NEW m \in Mover, MoveLeave(m) \/ MoveEnter(m)
  PROVE  Placed'
<1> USE DEF TypeInv
<1>1. /\ MoveGoesOn(m)
      /\ UNCHANGED <<players, leaving, position, disturbed>>
  BY Zenon, MoveSteps DEF MoveLeave, MoveEnter
<1>2. mover[m].pc # "idle" /\ mover[m].pc \in Holding
  BY Zenon DEF MoveLeave, MoveEnter, Holding
<1>3. ASSUME NEW i \in Player, i \notin disturbed', i # mover[m].id PROVE PlacedOf(i)'
  <2>1. \A d \in Cell : entities'[d][i] = entities[d][i]
    <3>1. /\ mover[m].id \in Player
          /\ Leaves(mover[m].id, mover[m].from) \/ Enters(mover[m].id, mover[m].to)
      BY Zenon, GridSteps
    <3> QED
      BY Zenon, <1>3, <3>1 DEF Leaves, Enters
  <2> QED
    BY Zenon, <1>1, <1>2, <1>3, <2>1, OthersStay
<1>4. ASSUME NEW i \in Player, i = mover[m].id, i \notin disturbed' PROVE PlacedOf(i)'
  <2>1. /\ PlacedOf(i)
        /\ players[i] # NoObj /\ players'[i] = players[i]
        /\ ~(leaving' # Nobody /\ leaving'.id = i)
        /\ mover[m].obj = players[i]
        /\ \A n \in Mover : mover'[n].pc # "idle" /\ mover'[n].id = i => n = m
        /\ mover'[m].pc # "idle" => mover'[m].id = i
    BY Zenon, <1>1, <1>2, <1>4, MovedFacts
  <2>2. Where(i)' = Where(i) /\ InScene(Where(i))
    BY Zenon, <1>1, <2>1 DEF Where, PlacedOf
  <2>3. CASE MoveLeave(m)
    <3>1. mover[m].pc = "leave" /\ mover'[m].pc = "enter" /\ mover'[m].to = mover[m].to
      BY Zenon, <2>3, MoveSteps DEF MoveLeave
    <3>2. At(i, mover[m].from) /\ mover[m].to = GetGrid(Where(i))
      BY Zenon, <1>4, <2>1, <3>1 DEF PlacedOf
    <3>3. Absent(i)'
      <4>1. mover[m].from \in Cell /\ Leaves(i, mover[m].from)
        BY Zenon, <1>4, <2>3, GridSteps
      <4> QED
        BY Zenon, <3>2, <4>1 DEF At, Absent, Leaves
    <3>4. ~(\A n \in Mover : mover'[n].pc \in Between => mover'[n].id # i)
      BY Zenon, <2>1, <3>1 DEF Between
    <3> QED
      BY Zenon, <2>1, <2>2, <3>1, <3>2, <3>3, <3>4 DEF PlacedOf
  <2>4. CASE MoveEnter(m)
    <3>1. mover[m].pc = "enter" /\ mover'[m].pc = "notify"
      BY Zenon, <2>4, MoveSteps DEF MoveEnter
    <3>2. Absent(i) /\ mover[m].to = GetGrid(Where(i))
      BY Zenon, <1>4, <2>1, <3>1 DEF PlacedOf
    <3>3. \A d \in Cell : entities'[d][i] = IF d = mover[m].to THEN players'[i] ELSE NoObj
      <4>1. /\ mover[m].to \in Cell /\ Enters(i, mover[m].to)
            /\ entities'[mover[m].to][i] = mover[m].obj
        BY Zenon, <1>4, <2>4, GridSteps
      <4> QED
        BY Zenon, <2>1, <3>2, <4>1 DEF Absent, Enters
    <3>4. At(i, GetGrid(Where(i)))'
      BY Zenon, <2>2, <3>2, <3>3 DEF At
    <3> QED
      BY Zenon, <2>1, <2>2, <3>1, <3>4 DEF PlacedOf
  <2> QED
    BY Zenon, <2>3, <2>4
<1> QED
  BY Zenon, <1>3, <1>4 DEF Placed

\* Registration and unregistration.
LEMMA PlacedLocked ==
  ASSUME TypeInv, Alone, Placed,
         \/ \E j \in Player : Register(j) \/ UnregisterBegin(j)
         \/ UnregisterEnd
  PROVE  Placed'
<1> USE DEF TypeInv
<1>1. ASSUME NEW j \in Player, Register(j), NEW i \in Player, i \notin disturbed' PROVE PlacedOf(i)'
  <2>1. AloneOf(i) /\ PlacedOf(i)
    BY Zenon, <1>1 DEF Register, Alone, Placed
  <2>2. UNCHANGED <<mover, leaving, position>> /\ leaving = Nobody
    BY Zenon, <1>1 DEF Register, LockFree
  <2>3. CASE i # j
    <3>1. players'[i] = players[i] /\ \A d \in Cell : entities'[d][i] = entities[d][i]
      <4>1. players'[i] = players[i]
        BY Zenon, <1>1, <2>3 DEF Register, Shape
      <4>2. GetGrid(Spawn) \in Cell /\ Enters(j, GetGrid(Spawn))
        BY Zenon, <1>1, GridSteps
      <4> QED
        BY Zenon, <2>3, <4>1, <4>2 DEF Enters
    <3> QED
      BY Zenon, <2>1, <2>2, <3>1, PlacedFrame
  <2>4. CASE i = j
    <3>1. \A n \in Mover : mover[n].pc # "idle" => mover[n].id # i
      <4>1. i \notin Moving
        BY Zenon, <1>1, <2>4 DEF Register
      <4> QED
        BY Zenon, <4>1, MovingFacts
    <3>2. Absent(i)
      BY Zenon, <1>1, <2>1, <2>4 DEF Register, PlacedOf
    <3>3. players'[i] = <<i, lives[i] + 1>> /\ <<i, lives[i] + 1>> \in Obj
      BY <1>1, <2>4, WorldAssumption DEF Register, Shape, TypeOK, Obj
    <3>4. players'[i] # NoObj
      BY Zenon, <3>3, WorldAssumption
    <3>5. position[<<i, lives[i] + 1>>] = Spawn
      BY <3>3, WorldAssumption DEF Objects, TypeOK
    <3>6. Where(i)' = Spawn /\ InScene(Spawn)
      BY Zenon, <2>2, <3>3, <3>5, WorldAssumption DEF Where
    <3>7. \A d \in Cell : entities'[d][i] = IF d = GetGrid(Spawn) THEN players'[i] ELSE NoObj
      <4>1. /\ GetGrid(Spawn) \in Cell /\ Enters(i, GetGrid(Spawn))
            /\ entities'[GetGrid(Spawn)][i] = <<i, lives[i] + 1>>
        BY Zenon, <1>1, <2>4, GridSteps
      <4> QED
        BY Zenon, <3>2, <3>3, <4>1 DEF Absent, Enters
    <3>8. At(i, GetGrid(Where(i)))'
      BY Zenon, <3>6, <3>7 DEF At
    <3> QED
      BY Zenon, <2>2, <3>1, <3>4, <3>6, <3>8 DEF PlacedOf
  <2> QED
    BY Zenon, <2>3, <2>4
<1>2. ASSUME NEW j \in Player, UnregisterBegin(j), NEW i \in Player, i \notin disturbed' PROVE PlacedOf(i)'
  <2>1. AloneOf(i) /\ PlacedOf(i)
    BY Zenon, <1>2 DEF UnregisterBegin, Alone, Placed
  <2>2. UNCHANGED <<mover, players, position, entities>>
    BY Zenon, <1>2 DEF UnregisterBegin
  <2>3. leaving'.id = j /\ leaving'.at = position[players[j]] /\ players[j] # NoObj
    BY Zenon, <1>2 DEF UnregisterBegin
  <2>4. CASE i # j
    BY Zenon, <2>1, <2>2, <2>3, <2>4, PlacedFrame
  <2>5. CASE i = j
    <3>1. \A n \in Mover : mover[n].pc # "idle" => mover[n].id # i
      <4>1. i \notin Moving
        BY Zenon, <1>2, <2>5 DEF UnregisterBegin
      <4> QED
        BY Zenon, <4>1, MovingFacts
    <3>2. \A n \in Mover : mover[n].pc \in Between => mover[n].id # i
      BY Zenon, <3>1 DEF Between
    <3>3. Where(i)' = Where(i) /\ leaving'.at = Where(i)
      BY Zenon, <2>2, <2>3, <2>5 DEF Where
    <3>4. At(i, GetGrid(Where(i))) /\ InScene(Where(i))
      BY Zenon, <2>1, <2>3, <2>5, <3>2 DEF PlacedOf
    <3>5. At(i, GetGrid(Where(i)))'
      BY Zenon, <2>2, <3>3, <3>4 DEF At
    <3> QED
      BY Zenon, <2>2, <2>3, <2>5, <3>1, <3>3, <3>4, <3>5 DEF PlacedOf
  <2> QED
    BY Zenon, <2>4, <2>5
<1>3. ASSUME UnregisterEnd, NEW i \in Player, i \notin disturbed' PROVE PlacedOf(i)'
  <2>1. AloneOf(i) /\ PlacedOf(i)
    BY Zenon, <1>3 DEF UnregisterEnd, Alone, Placed
  <2>2. UNCHANGED <<mover, position>> /\ leaving' = Nobody /\ leaving # Nobody
    BY Zenon, <1>3 DEF UnregisterEnd, LockFree
  <2>3. CASE i # leaving.id
    <3>1. players'[i] = players[i] /\ \A d \in Cell : entities'[d][i] = entities[d][i]
      BY Zenon, <1>3, <2>3, GridSteps DEF UnregisterEnd, Shape, Leaves, GridKept
    <3> QED
      BY Zenon, <2>1, <2>2, <3>1, PlacedFrame
  <2>4. CASE i = leaving.id
    <3>1. \A n \in Mover : mover[n].pc # "idle" => mover[n].id # i
      BY Zenon, <2>1, <2>2, <2>4 DEF AloneOf
    <3>2. \A n \in Mover : mover[n].pc \in Between => mover[n].id # i
      BY Zenon, <3>1 DEF Between
    <3>3. At(i, GetGrid(leaving.at)) /\ InScene(leaving.at)
      BY Zenon, <2>1, <2>2, <2>4, <3>2 DEF PlacedOf
    <3>4. Absent(i)'
      <4>1. Leaves(i, GetGrid(leaving.at))
        BY Zenon, <1>3, <2>4, <3>3, GridSteps
      <4> QED
        BY Zenon, <3>3, <4>1 DEF At, Absent, Leaves
    <3>5. players'[i] = NoObj
      BY Zenon, <1>3, <2>4 DEF UnregisterEnd, Shape
    <3> QED
      BY Zenon, <2>2, <3>1, <3>4, <3>5 DEF PlacedOf
  <2> QED
    BY Zenon, <2>3, <2>4
<1> QED
  BY Zenon, <1>1, <1>2, <1>3 DEF Placed

\* The first step of an update.
LEMMA PlacedBegin ==
  ASSUME TypeInv, Alone, Placed, NEW m \in Mover, NEW j \in Player,
         (\E p \in Pos : MoveBegin(m, j, p)) \/ UpdateOther(m, j)
  PROVE  Placed'
<1> USE DEF TypeInv
<1>1. /\ mover'[m].id = j /\ mover'[m].pc \in {"found", "notify"} /\ mover[m].pc = "idle"
      /\ \A n \in Mover \ {m} : mover'[n] = mover[n]
  <2>1. mover \in [Mover -> MoverState]
    BY Zenon DEF Shape
  <2>2. /\ mover[m] = [pc |-> "idle"]
        /\ \/ \E p : mover' = [mover EXCEPT ![m] = [pc |-> "found", id |-> j, obj |-> <<j, lives[j]>>, new |-> p]]
           \/ mover' = [mover EXCEPT ![m] = [pc |-> "notify", id |-> j, obj |-> <<j, lives[j]>>]]
    BY Zenon DEF MoveBegin, UpdateOther, Step, Resting
  <2>3. CASE mover' = [mover EXCEPT ![m] = [pc |-> "notify", id |-> j, obj |-> <<j, lives[j]>>]]
    BY <2>1, <2>2, <2>3
  <2>4. ASSUME NEW p, mover' = [mover EXCEPT ![m] = [pc |-> "found", id |-> j, obj |-> <<j, lives[j]>>, new |-> p]]
        PROVE  /\ mover'[m].id = j /\ mover'[m].pc = "found" /\ mover[m].pc = "idle"
               /\ \A n \in Mover \ {m} : mover'[n] = mover[n]
    BY <2>1, <2>2, <2>4
  <2> QED
    BY Zenon, <2>2, <2>3, <2>4
<1>2. UNCHANGED <<players, position, leaving, entities>> /\ leaving = Nobody /\ players[j] # NoObj
  BY Zenon DEF MoveBegin, UpdateOther, LockFree, GetPlayer
<1>3. ASSUME NEW i \in Player, i \notin disturbed' PROVE PlacedOf(i)'
  <2>1. AloneOf(i) /\ PlacedOf(i)
    BY Zenon, <1>3 DEF MoveBegin, UpdateOther, Alone, Placed
  <2>2. CASE i # j
    <3>1. \A n \in Mover : \/ mover'[n] = mover[n]
                           \/ /\ mover[n].pc # "idle" => mover[n].id # i
                              /\ mover'[n].pc # "idle" => mover'[n].id # i
      BY Zenon, <1>1, <2>2
    <3> QED
      BY Zenon, <1>2, <2>1, <3>1, PlacedFrame
  <2>3. CASE i = j
    <3>1. \A n \in Mover : mover[n].pc # "idle" => mover[n].id # i
      <4>1. i \notin Moving
        BY Zenon, <1>3, <2>3 DEF MoveBegin, UpdateOther
      <4> QED
        BY Zenon, <4>1, MovingFacts
    <3>2. \A n \in Mover : mover[n].pc \in Between => mover[n].id # i
      BY Zenon, <3>1 DEF Between
    <3>3. Where(i)' = Where(i)
      BY Zenon, <1>2 DEF Where
    <3>4. At(i, GetGrid(Where(i))) /\ InScene(Where(i))
      BY Zenon, <1>2, <2>1, <2>3, <3>2 DEF PlacedOf
    <3>5. At(i, GetGrid(Where(i)))'
      BY Zenon, <1>2, <3>3, <3>4 DEF At
    <3>6. \A n \in Mover : mover'[n].pc # "idle" /\ mover'[n].id = i => mover'[n].pc \in {"found", "notify"}
      BY Zenon, <1>1, <3>1
    <3> QED
      BY Zenon, <1>2, <2>3, <3>3, <3>4, <3>5, <3>6 DEF PlacedOf
  <2> QED
    BY Zenon, <2>2, <2>3
<1> QED
  BY Zenon, <1>3 DEF Placed

\* Every step keeps undisturbed players where they belong.
LEMMA NextPlaced == TypeInv /\ Alone /\ Placed /\ [Next]_vars => Placed'
<1> SUFFICES ASSUME TypeInv, Alone, Placed, [Next]_vars PROVE Placed'
  BY Zenon
<1>1. CASE (\E j \in Player : Register(j) \/ UnregisterBegin(j)) \/ UnregisterEnd
  BY Zenon, <1>1, PlacedLocked
<1>2. CASE \E m \in Mover, j \in Player : (\E p \in Pos : MoveBegin(m, j, p)) \/ UpdateOther(m, j)
  BY Zenon, <1>2, PlacedBegin
<1>3. CASE \E m \in Mover : MoveReadOld(m) \/ MoveSet(m) \/ MoveCompare(m) \/ MoveNotify(m)
  BY Zenon, <1>3, PlacedSet
<1>4. CASE \E m \in Mover : MoveLeave(m) \/ MoveEnter(m)
  BY Zenon, <1>4, PlacedGrid
<1>5. CASE \/ \E s \in Subscriber, j \in Player : Subscribe(s, j) \/ Unsubscribe(s, j)
           \/ UNCHANGED vars
  <2>1. UNCHANGED <<players, position, entities, mover, leaving, disturbed>>
    BY Zenon, <1>5, QuietSteps DEF vars, GridKept
  <2> QED
    BY <2>1 DEF Placed, PlacedOf, At, Absent, Where
<1> QED
  BY Zenon, <1>1, <1>2, <1>3, <1>4, <1>5 DEF Next

\* While no player is disturbed, the counters are exact.
CountExact == disturbed = {} => \A c \in Cell : playerCount[c] = Cardinality(Occupants(c))

\* An undisturbed player enters a cell only from nowhere.
LEMMA EntersFromNowhere ==
  ASSUME TypeInv, Placed, disturbed = {}
  PROVE  /\ \A i \in Player : Register(i) => Absent(i)
         /\ \A m \in Mover : MoveEnter(m) => Absent(mover[m].id)
<1>1. ASSUME NEW i \in Player, Register(i) PROVE Absent(i)
  BY Zenon, <1>1 DEF Register, Placed, PlacedOf
<1>2. ASSUME NEW m \in Mover, MoveEnter(m) PROVE Absent(mover[m].id)
  <2>1. mover[m].id \in Player /\ mover[m].pc = "enter"
    BY Zenon, <1>2, MoverFacts DEF MoveEnter, TypeInv, Holding
  <2> QED
    BY Zenon, <2>1 DEF Placed, PlacedOf
<1> QED
  BY Zenon, <1>1, <1>2

\* Every step keeps the counters exact.
LEMMA NextCount == TypeInv /\ Placed /\ CountExact /\ [Next]_vars => CountExact'
<1> SUFFICES ASSUME TypeInv, Placed, CountExact, [Next]_vars, disturbed' = {}, NEW d \in Cell
             PROVE  playerCount'[d] = Cardinality(Occupants(d)')
  BY Zenon DEF CountExact
<1>1. disturbed = {}
  BY Zenon DEF Next, vars, Register, UnregisterBegin, UnregisterEnd, Subscribe, Unsubscribe, MoveBegin, UpdateOther, MoveReadOld,
         MoveSet, MoveCompare, MoveLeave, MoveEnter, MoveNotify
<1>2. playerCount[d] \in Int /\ playerCount[d] = Cardinality(Occupants(d))
  BY Zenon, <1>1 DEF TypeInv, TypeOK, CountExact
<1>3. ASSUME GridKept PROVE playerCount'[d] = Cardinality(Occupants(d)')
  BY Zenon, <1>2, <1>3 DEF GridKept, Occupants
<1>4. ASSUME NEW i \in Player, NEW c \in Cell, Enters(i, c), Absent(i)
      PROVE  playerCount'[d] = Cardinality(Occupants(d)')
  <2>1. playerCount'[d] = IF d = c THEN playerCount[d] + 1 ELSE playerCount[d]
    BY Zenon, <1>4 DEF Enters
  <2>2. Cardinality(Occupants(d)') = IF d = c THEN Cardinality(Occupants(d)) + 1 ELSE Cardinality(Occupants(d))
    BY Zenon, <1>4, OccupantsCount DEF Absent
  <2> QED
    BY <1>2, <2>1, <2>2
<1>5. ASSUME NEW i \in Player, NEW c, Leaves(i, c) PROVE playerCount'[d] = Cardinality(Occupants(d)')
  <2>1. playerCount'[d] = IF d = c /\ entities[c][i] # NoObj THEN playerCount[d] - 1 ELSE playerCount[d]
    BY Zenon, <1>5 DEF Leaves
  <2>2. Cardinality(Occupants(d)') =
          IF d = c /\ entities[c][i] # NoObj THEN Cardinality(Occupants(d)) - 1 ELSE Cardinality(Occupants(d))
    BY Zenon, <1>5, OccupantsCount
  <2> QED
    BY <1>2, <2>1, <2>2
<1>6. CASE \E i \in Player : Register(i)
  BY Zenon, <1>1, <1>4, <1>6, GridSteps, EntersFromNowhere
<1>7. CASE UnregisterEnd
  BY Zenon, <1>3, <1>5, <1>7, GridSteps
<1>8. CASE \E m \in Mover : MoveLeave(m)
  BY Zenon, <1>5, <1>8, GridSteps
<1>9. CASE \E m \in Mover : MoveEnter(m)
  BY Zenon, <1>1, <1>4, <1>9, GridSteps, EntersFromNowhere
<1>10. CASE \/ \E j \in Player : UnregisterBegin(j)
            \/ \E s \in Subscriber, j \in Player : Subscribe(s, j) \/ Unsubscribe(s, j)
            \/ \E m \in Mover : MoveReadOld(m) \/ MoveSet(m) \/ MoveCompare(m) \/ MoveNotify(m)
            \/ \E m \in Mover, j \in Player, p \in Pos : MoveBegin(m, j, p)
            \/ \E m \in Mover, j \in Player : UpdateOther(m, j)
  BY Zenon, <1>3, <1>10, QuietSteps
<1>11. CASE UNCHANGED vars
  BY Zenon, <1>3, <1>11 DEF vars, GridKept
<1> QED
  BY Zenon, <1>6, <1>7, <1>8, <1>9, <1>10, <1>11 DEF Next

PlacedInv == TypeInv /\ Alone /\ Placed /\ CountExact

\* The inductive invariant behind the next two theorems.
THEOREM PlacedInvariance == Spec => []PlacedInv
<1>1. Init => Placed
  BY DEF Init, Placed, PlacedOf, Absent, Resting
<1>2. Init => CountExact
  <2> SUFFICES ASSUME Init, NEW c \in Cell PROVE playerCount[c] = Cardinality(Occupants(c))
    BY Zenon DEF CountExact
  <2>1. Occupants(c) = {} /\ playerCount[c] = 0
    BY Zenon DEF Init, Occupants
  <2> QED
    BY Zenon, <2>1, FS_EmptySet
<1> QED
  BY <1>1, <1>2, NextPlaced, NextCount, Types, AlwaysAlone, PTL DEF Spec, PlacedInv

\* A settled and undisturbed player is in the cell of its position only.
LEMMA SettledAt ==
  ASSUME PlacedInv, NEW i \in Settled, i \notin disturbed
  PROVE  /\ i \in Player /\ players[i] # NoObj /\ players[i] \in Obj /\ players[i][1] = i
         /\ Where(i) \in Position /\ InScene(Where(i)) /\ GetGrid(Where(i)) \in Cell
         /\ At(i, GetGrid(Where(i)))
<1>1. i \in Player /\ players[i] # NoObj /\ i \notin Moving
  BY Zenon DEF Settled, Registered
<1>2. players[i] \in Obj /\ players[i][1] = i
  BY <1>1 DEF PlacedInv, TypeInv, Shape, TypeOK
<1>3. Where(i) \in Position
  BY <1>2, WorldAssumption DEF Where, PlacedInv, TypeInv, TypeOK, Spawn, Position
<1>4. \A n \in Mover : mover[n].pc \in Between => mover[n].id # i
  BY Zenon, <1>1, MovingFacts DEF Between
<1>5. PlacedOf(i)
  BY Zenon, <1>1 DEF PlacedInv, Placed
<1>6. InScene(Where(i)) /\ At(i, GetGrid(Where(i)))
  BY Zenon, <1>1, <1>4, <1>5 DEF PlacedOf
<1> QED
  BY Zenon, <1>1, <1>2, <1>3, <1>6, GetGridCell

\* A player whose calls never overlapped is, once settled, in the cell of its
\* position, in no other, and as the registered object, and the counters are
\* exact, for every number of players and moves and every scene
\* (RegisterPlayer, UnregisterPlayer, UpdatePlayerPosition, UpdateEntity).
THEOREM ExactPlaces == Spec => []PlacedExactly
<1>1. PlacedInv => PlacedExactly
  <2> SUFFICES ASSUME PlacedInv PROVE PlacedExactly
    BY Zenon
  <2>1. ASSUME NEW i \in Settled \ disturbed
        PROVE  /\ CellsOf(i) = {GetGrid(position[players[i]])}
               /\ entities[GetGrid(position[players[i]])][i] = players[i]
    <3>1. players[i] # NoObj /\ GetGrid(Where(i)) \in Cell /\ At(i, GetGrid(Where(i)))
      BY Zenon, SettledAt
    <3> QED
      BY Zenon, <3>1 DEF At, CellsOf, Where
  <2> QED
    BY Zenon, <2>1 DEF PlacedExactly, PlacedInv, CountExact, Occupants
<1> QED
  BY <1>1, PlacedInvariance, PTL

\* While no calls on a player have overlapped and none is under way, a query
\* by distance returns exactly the players within the distance, for every
\* scene, grid, number of players and distance (GetEntitiesByDistance).
THEOREM ExactQueries == Spec => []NearbyIsExact
<1>1. PlacedInv => NearbyIsExact
  <2> SUFFICES ASSUME PlacedInv, Registered = Settled, disturbed = {}, NEW i \in Registered
               PROVE  Nearby(i) =
                        {j \in Registered \ {i} : Within(position[players[i]], position[players[j]], View)}
    BY Zenon DEF NearbyIsExact
  <2>1. ASSUME NEW j \in Registered
        PROVE  /\ j \in Player /\ players[j] # NoObj /\ players[j] \in Obj /\ players[j][1] = j
               /\ Where(j) \in Position /\ InScene(Where(j)) /\ GetGrid(Where(j)) \in Cell
               /\ At(j, GetGrid(Where(j)))
    BY Zenon, SettledAt
  <2> DEFINE cells == SurroundingGrids(GetGrid(Where(i)), GridRange(View))
             found == {entities[c][j] : c \in cells, j \in Player}
  <2>2. cells \subseteq Cell
    BY Zenon DEF SurroundingGrids
  <2>3. ASSUME NEW o \in found \ {NoObj}, Within(Where(i), position[o], View), o[1] # i
        PROVE  o[1] \in Registered \ {i} /\ Within(Where(i), Where(o[1]), View)
    <3>1. PICK c \in cells, j \in Player : o = entities[c][j]
      BY <2>3
    <3>2. j = o[1] /\ c \in Cell
      BY <2>2, <2>3, <3>1 DEF PlacedInv, TypeInv, TypeOK
    <3>3. j \in Registered
      <4>1. PlacedOf(j)
        BY DEF PlacedInv, Placed
      <4>2. ~Absent(j)
        BY <3>1, <3>2 DEF Absent
      <4> QED
        BY <4>1, <4>2 DEF PlacedOf, Registered
    <3> HIDE DEF cells, found
    <3>4. o = players[j]
      <4>1. At(j, GetGrid(Where(j)))
        BY Zenon, <2>1, <3>3
      <4>2. o # NoObj
        BY Zenon, <2>3
      <4> QED
        BY Zenon, <3>1, <3>2, <4>1, <4>2 DEF At
    <3> QED
      BY Zenon, <2>3, <3>2, <3>3, <3>4 DEF Where
  <2>4. ASSUME NEW j \in Registered \ {i}, Within(Where(i), Where(j), View)
        PROVE  players[j] \in found \ {NoObj} /\ Within(Where(i), position[players[j]], View) /\ players[j][1] = j
    <3>1. GetGrid(Where(j)) \in cells
      BY Zenon, <2>1, <2>4, SurroundingCovers, WorldAssumption
    <3>2. entities[GetGrid(Where(j))][j] = players[j]
      BY Zenon, <2>1 DEF At
    <3>3. j \in Player /\ players[j] # NoObj /\ players[j][1] = j
      BY Zenon, <2>1
    <3> QED
      BY <2>4, <3>1, <3>2, <3>3 DEF Where
  <2>5. Nearby(i) = {o[1] : o \in {q \in found \ {NoObj} : Within(Where(i), position[q], View)}} \ {i}
    BY DEF Nearby, Where
  <2> HIDE DEF found
  <2>6. Nearby(i) \subseteq {j \in Registered \ {i} : Within(Where(i), Where(j), View)}
    BY Zenon, <2>3, <2>5
  <2>7. {j \in Registered \ {i} : Within(Where(i), Where(j), View)} \subseteq Nearby(i)
    BY Zenon, <2>4, <2>5
  <2>8. Nearby(i) = {j \in Registered \ {i} : Within(Where(i), Where(j), View)}
    BY Zenon, <2>6, <2>7
  <2> QED
    BY Zenon, <2>8 DEF Where
<1> QED
  BY <1>1, PlacedInvariance, PTL
=============================================================================
