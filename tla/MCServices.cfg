CONSTANTS
  HalfWord = 4
  Word = 8
  ProtocolVersion = 1
  MaxName = 3
  MaxPayload = 5
  Error = Error
  None = None
  Failed = Failed
  NetClients = {"c1", "c2"}
  SendCap = 1
  ConnCallers = {"p1", "p2", "p3"}
  MaxCalls = 2
  RegIds = {"a", "b"}
  RegWeight <- MCRegWeight
  Watchers = {"w"}
  MaxReg = 2
  IdxPeriod = 2
  Calls = {"c"}
  GoCalls = {"g"}
  MaxRetries = 2
  DoneRoom = 10
  SimpleCalls = {"c1", "c2", "c3"}
  Handlers = {"h"}
  PHandlers = {"hp"}
  MaxRegs = 2
  Messages = {"m1", "m2"}
  MaxOpen = 2
  Sessions = {"s1", "s2"}
  MaxPairs = 3
  RouteIds = {"a", "b"}
  RouteWeight <- MCRouteWeight
  RouteCallers = {"p"}
  MaxChanges = 3
  Caps = {1, 2, 4}
  Period = 6
SPECIFICATION Spec
INVARIANTS
  TypeOK
  SomeoneCanStep
  OneLiveConnection
  NoPhantom
  RunsMatchAttempts
  SignalledOnce
  CallsSettle
  HandledOnce
  KeysAgree
  RoutedToRegistered
CHECK_DEADLOCK FALSE
