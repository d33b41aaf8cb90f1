---------------------------- MODULE PlayerWorld ----------------------------
(***************************************************************************)
(* The player state manager (pkg/sync/player_state.go) and the grid it     *)
(* keeps players in (pkg/aoi/aoi.go).  The manager's lock covers the maps  *)
(* of players and subscribers; moving a player takes that lock only to     *)
(* look the player up, and then the player's and two grids' locks one      *)
(* after the other, so moves, registrations and removals interleave.       *)
(*                                                                         *)
(* A registration makes a new PlayerState object, numbered from 1, and a   *)
(* move that began earlier goes on with the old one.  The values of        *)
(* velocity, rotation and attributes decide nothing and are left out; the  *)
(* calls that update them look the player up and notify.                   *)
(***************************************************************************)
EXTENDS AOIGrid, FiniteSets

CONSTANTS
  Player,      \* player identifiers
  Mover,       \* goroutines that update players
  Subscriber,  \* identifiers that subscribe (need not be registered)
  Pos,         \* positions a client may send
  View,        \* distance of a query
  MaxLives,    \* bound on the registrations of one identifier
  MaxMoves,    \* bound on the number of updates
  NoObj        \* "no entry"

Spawn  == <<0, 0>>
Obj    == Player \X (1..MaxLives)

ASSUME WorldAssumption ==
  /\ IsFiniteSet(Player)
  /\ Pos \subseteq Position
  /\ InScene(Spawn)
  /\ View \in Nat
  /\ MaxLives \in Nat /\ MaxMoves \in Nat
  /\ NoObj \notin Obj

VARIABLES
  players,      \* PlayerStateManager.players
  position,     \* PlayerState.Position of every object
  entities,     \* Grid.entities: for each cell and identifier, the object or NoObj
  playerCount,  \* Grid.playerCount
  subscribers,  \* the subscribers of each player
  mover,        \* where each update stands
  leaving,      \* the UnregisterPlayer that holds the manager's lock
  lives,        \* registrations of each identifier so far
  moves,        \* updates begun so far
  disturbed,    \* history: players whose calls overlapped or that left the scene
  gone          \* history: updates whose player was unregistered since they began

vars == <<players, position, entities, playerCount, subscribers, mover, leaving, lives, moves, disturbed, gone>>

Resting == [pc |-> "idle"]
Nobody  == [pc |-> "free"]

Init ==
  /\ players = [i \in Player |-> NoObj]
  /\ position = [o \in Obj |-> Spawn]
  /\ entities = [c \in Cell |-> [i \in Player |-> NoObj]]
  /\ playerCount = [c \in Cell |-> 0]
  /\ subscribers = [i \in Player |-> {}]
  /\ mover = [m \in Mover |-> Resting]
  /\ leaving = Nobody
  /\ lives = [i \in Player |-> 0]
  /\ moves = 0
  /\ disturbed = {}
  /\ gone = {}

\* the players some update is at work on
Moving == {mover[m].id : m \in {n \in Mover : mover[n].pc # "idle"}}

LockFree == leaving = Nobody

-----------------------------------------------------------------------------
(* Grid cells.                                                              *)

\* one more under the cell's lock, also if the identifier is there already
Added(e, c, i, o) == [e EXCEPT ![c][i] = o]

\* mutant: the counter goes down although nothing was removed
CountedDownAlways(c, i) == [playerCount EXCEPT ![c] = @ - 1]

\* one less under the cell's lock, if the identifier is there
CountedDown(c, i) ==
  [playerCount EXCEPT ![c] = IF entities[c][i] = NoObj THEN @ ELSE @ - 1]

-----------------------------------------------------------------------------
(* Registration.                                                            *)

\* RegisterPlayer of a new identifier, with AddEntity; an identifier that is
\* registered already is returned unchanged
Register(i) ==
  /\ LockFree
  /\ players[i] = NoObj
  /\ lives[i] < MaxLives
  /\ LET o == <<i, lives[i] + 1>>
         c == GetGrid(Spawn) IN
       /\ players' = [players EXCEPT ![i] = o]
       /\ entities' = Added(entities, c, i, o)
       /\ playerCount' = [playerCount EXCEPT ![c] = @ + 1]
  /\ lives' = [lives EXCEPT ![i] = @ + 1]
  /\ subscribers' = [subscribers EXCEPT ![i] = {}]
  /\ disturbed' = disturbed \cup ({i} \cap Moving)
  /\ UNCHANGED <<position, mover, leaving, moves, gone>>

\* UnregisterPlayer: lock, find the player, RemoveEntity reads its position
UnregisterBegin(i) ==
  /\ LockFree
  /\ players[i] # NoObj
  /\ leaving' = [pc |-> "leaving", id |-> i, at |-> position[players[i]]]
  /\ disturbed' = disturbed \cup ({i} \cap Moving)
  /\ UNCHANGED <<players, position, entities, playerCount, subscribers, mover, lives, moves, gone>>

\* the player's own list is deleted, and the player taken out of the others
WithoutSubscriber(i) == [j \in Player |-> IF j = i THEN {} ELSE subscribers[j] \ {i}]

\* UnregisterPlayer: RemoveEntity takes the player out of the cell of that
\* position, or fails outside the scene; the maps are cleared; unlock
UnregisterEnd ==
  /\ ~LockFree
  /\ LET i == leaving.id
         c == GetGrid(leaving.at) IN
       /\ \/ /\ InScene(leaving.at)
             /\ entities' = [entities EXCEPT ![c][i] = NoObj]
             /\ playerCount' = CountedDown(c, i)
          \/ /\ ~InScene(leaving.at)
             /\ UNCHANGED <<entities, playerCount>>
       /\ players' = [players EXCEPT ![i] = NoObj]
       /\ subscribers' = WithoutSubscriber(i)
       /\ gone' = gone \cup {m \in Mover : mover[m].pc # "idle" /\ mover[m].id = i}
  /\ leaving' = Nobody
  /\ UNCHANGED <<position, mover, lives, moves, disturbed>>

\* SubscribeToPlayer: the target must exist
Subscribe(s, i) ==
  /\ LockFree
  /\ players[i] # NoObj
  /\ subscribers' = [subscribers EXCEPT ![i] = @ \cup {s}]
  /\ UNCHANGED <<players, position, entities, playerCount, mover, leaving, lives, moves, disturbed, gone>>

\* UnsubscribeFromPlayer
Unsubscribe(s, i) ==
  /\ LockFree
  /\ players[i] # NoObj
  /\ subscribers' = [subscribers EXCEPT ![i] = @ \ {s}]
  /\ UNCHANGED <<players, position, entities, playerCount, mover, leaving, lives, moves, disturbed, gone>>

-----------------------------------------------------------------------------
(* Updates.                                                                 *)

Step(m, r) == mover' = [mover EXCEPT ![m] = r]

\* mutant: a player that has left is still found
GetPlayerStale(i) == lives[i] > 0

\* GetPlayer finds the player; its object is the last one made
GetPlayer(i) == players[i] # NoObj

\* GetPlayer, under the manager's lock
MoveBegin(m, i, p) ==
  /\ LockFree
  /\ mover[m] = Resting
  /\ moves < MaxMoves
  /\ moves' = moves + 1
  /\ GetPlayer(i)
  /\ Step(m, [pc |-> "found", id |-> i, obj |-> <<i, lives[i]>>, new |-> p])
  /\ disturbed' = disturbed \cup ({i} \cap Moving)
  /\ gone' = gone \ {m}
  /\ UNCHANGED <<players, position, entities, playerCount, subscribers, leaving, lives>>

\* UpdatePlayerVelocity, UpdatePlayerRotation, UpdatePlayerAttribute: GetPlayer,
\* and a change of the object that nothing here depends on
UpdateOther(m, i) ==
  /\ LockFree
  /\ mover[m] = Resting
  /\ moves < MaxMoves
  /\ moves' = moves + 1
  /\ GetPlayer(i)
  /\ Step(m, [pc |-> "notify", id |-> i, obj |-> <<i, lives[i]>>])
  /\ disturbed' = disturbed \cup ({i} \cap Moving)
  /\ gone' = gone \ {m}
  /\ UNCHANGED <<players, position, entities, playerCount, subscribers, leaving, lives>>

\* the old position is kept for the grid
MoveReadOld(m) ==
  /\ mover[m].pc = "found"
  /\ Step(m, [pc |-> "read", id |-> mover[m].id, obj |-> mover[m].obj, new |-> mover[m].new,
              old |-> position[mover[m].obj]])
  /\ UNCHANGED <<players, position, entities, playerCount, subscribers, leaving, lives, moves, disturbed, gone>>

\* the position is set, whatever it is
MoveSet(m) ==
  /\ mover[m].pc = "read"
  /\ position' = [position EXCEPT ![mover[m].obj] = mover[m].new]
  /\ disturbed' = IF InScene(mover[m].new) THEN disturbed ELSE disturbed \cup {mover[m].id}
  /\ Step(m, [pc |-> "set", id |-> mover[m].id, obj |-> mover[m].obj, old |-> mover[m].old])
  /\ UNCHANGED <<players, entities, playerCount, subscribers, leaving, lives, moves, gone>>

\* mutant: the cell is compared by its column only
SameGridColumn(p, q) == GetGrid(p)[1] = GetGrid(q)[1]

SameGrid(p, q) == GetGrid(p) = GetGrid(q)

\* UpdateEntity reads the position again; outside the scene, or in the same
\* cell, it leaves the grid alone
MoveCompare(m) ==
  /\ mover[m].pc = "set"
  /\ LET new == position[mover[m].obj]
         old == mover[m].old IN
     Step(m, IF ~InScene(old) \/ ~InScene(new) \/ SameGrid(old, new)
             THEN [pc |-> "notify", id |-> mover[m].id, obj |-> mover[m].obj]
             ELSE [pc |-> "leave", id |-> mover[m].id, obj |-> mover[m].obj,
                   from |-> GetGrid(old), to |-> GetGrid(new)])
  /\ UNCHANGED <<players, position, entities, playerCount, subscribers, leaving, lives, moves, disturbed, gone>>

\* UpdateEntity: out of the old cell
MoveLeave(m) ==
  /\ mover[m].pc = "leave"
  /\ entities' = [entities EXCEPT ![mover[m].from][mover[m].id] = NoObj]
  /\ playerCount' = CountedDown(mover[m].from, mover[m].id)
  /\ Step(m, [pc |-> "enter", id |-> mover[m].id, obj |-> mover[m].obj, to |-> mover[m].to])
  /\ UNCHANGED <<players, position, subscribers, leaving, lives, moves, disturbed, gone>>

\* mutant: the new cell is not entered when the object is no longer registered
MoveEnterIfCurrent(m) ==
  /\ mover[m].pc = "enter"
  /\ IF players[mover[m].id] = mover[m].obj
     THEN /\ entities' = Added(entities, mover[m].to, mover[m].id, mover[m].obj)
          /\ playerCount' = [playerCount EXCEPT ![mover[m].to] = @ + 1]
     ELSE UNCHANGED <<entities, playerCount>>
  /\ Step(m, [pc |-> "notify", id |-> mover[m].id, obj |-> mover[m].obj])
  /\ UNCHANGED <<players, position, subscribers, leaving, lives, moves, disturbed, gone>>

\* UpdateEntity: into the new cell
MoveEnter(m) ==
  /\ mover[m].pc = "enter"
  /\ entities' = Added(entities, mover[m].to, mover[m].id, mover[m].obj)
  /\ playerCount' = [playerCount EXCEPT ![mover[m].to] = @ + 1]
  /\ Step(m, [pc |-> "notify", id |-> mover[m].id, obj |-> mover[m].obj])
  /\ UNCHANGED <<players, position, subscribers, leaving, lives, moves, disturbed, gone>>

\* notifySubscribers looks the player up again: the callbacks get what the
\* map holds by now
MoveNotify(m) ==
  /\ LockFree
  /\ mover[m].pc = "notify"
  /\ Step(m, Resting)
  /\ UNCHANGED <<players, position, entities, playerCount, subscribers, leaving, lives, moves, disturbed, gone>>

-----------------------------------------------------------------------------
Next ==
  \/ \E i \in Player : Register(i) \/ UnregisterBegin(i)
  \/ UnregisterEnd
  \/ \E s \in Subscriber, i \in Player : Subscribe(s, i) \/ Unsubscribe(s, i)
  \/ \E m \in Mover :
       \/ \E i \in Player, p \in Pos : MoveBegin(m, i, p)
       \/ \E i \in Player : UpdateOther(m, i)
       \/ MoveReadOld(m) \/ MoveSet(m) \/ MoveCompare(m)
       \/ MoveLeave(m) \/ MoveEnter(m) \/ MoveNotify(m)

Spec == Init /\ [][Next]_vars

-----------------------------------------------------------------------------
(* Properties.                                                              *)

Registered == {i \in Player : players[i] # NoObj}

\* the players nothing is being done to
Settled == Registered \ (Moving \cup IF LockFree THEN {} ELSE {leaving.id})

\* where an identifier is found in the grid
CellsOf(i) == {c \in Cell : entities[c][i] # NoObj}

\* GetEntitiesByDistance around a player, less the player itself
Nearby(i) ==
  LET p == position[players[i]]
      found == {entities[c][j] : c \in SurroundingGrids(GetGrid(p), GridRange(View)), j \in Player}
  IN {o[1] : o \in {q \in found \ {NoObj} : Within(p, position[q], View)}} \ {i}

\* The shape of the state; the subscribers of an identifier that is not
\* registered are gone (UnregisterPlayer).
TypeOK ==
  /\ \A i \in Player : players[i] # NoObj => players[i] = <<i, lives[i]>>
  /\ position \in [Obj -> Pos \cup {Spawn}]
  /\ entities \in [Cell -> [Player -> Obj \cup {NoObj}]]
  /\ \A c \in Cell, i \in Player : entities[c][i] # NoObj => entities[c][i][1] = i
  /\ playerCount \in [Cell -> Int]
  /\ \A i \in Player : subscribers[i] # {} => players[i] # NoObj
  /\ lives \in [Player -> 0..MaxLives] /\ moves \in 0..MaxMoves

\* Whatever overlaps (two moves of one player, a move with an unregistration
\* and a new registration, positions outside the scene), a registered player
\* is in some cell, or a move that has taken it out is about to put it back.
NeverInvisible ==
  \A i \in Registered :
    \/ CellsOf(i) # {}
    \/ \E m \in Mover : mover[m].pc = "enter" /\ mover[m].id = i

\* Whatever overlaps, the counter of a cell is at least the number of players
\* in it (AddEntity, RemoveEntity, UpdateEntity count separately from the map).
CountCovers == \A c \in Cell : playerCount[c] >= Cardinality({i \in Player : entities[c][i] # NoObj})

\* A settled player whose calls never overlapped and that never left the
\* scene is in the cell of its position, in no other, and as the registered
\* object; and when this is so of all players the counters are exact.
PlacedExactly ==
  /\ \A i \in Settled \ disturbed :
       /\ CellsOf(i) = {GetGrid(position[players[i]])}
       /\ entities[GetGrid(position[players[i]])][i] = players[i]
  /\ disturbed = {} => \A c \in Cell : playerCount[c] = Cardinality({i \in Player : entities[c][i] # NoObj})

\* A query by distance around a player in the scene finds exactly the players
\* within the distance: the cells it looks at are enough, also where the
\* grid is cut off (GetEntitiesByDistance, getNearbyEntities, BroadcastToNearby).
NearbyIsExact ==
  Registered = Settled /\ disturbed = {} =>
    \A i \in Registered :
      Nearby(i) = {j \in Registered \ {i} : Within(position[players[i]], position[players[j]], View)}

\* A callback is handed the state of the very object that its update changed,
\* unless the player was unregistered after that update had found it: only
\* then is it given nil, or the object of a later registration
\* (notifySubscribers looks the player up again).
ToldWhatChanged ==
  \A m \in Mover :
    mover[m].pc = "notify" /\ players[mover[m].id] # mover[m].obj => m \in gone
=============================================================================
