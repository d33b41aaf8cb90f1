\* one connection with two streams; requests of up to three of three identifiers
CONSTANTS
  Conns = {c1}
  Streams = {1, 2}
  Ids = {i1}
  None = None
  Empty = Empty
  id1 = id1
  Id = {id1, id2, id3}
  MaxIds = 3
SPECIFICATION MCSpec
INVARIANTS HandledAsPresented AnsweredOrAsked AskedAsRequested
PROPERTY OrphansExpire
CHECK_DEADLOCK FALSE
