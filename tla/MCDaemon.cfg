SPECIFICATION MCSpec
CONSTANTS
  c1 = c1
  c2 = c2
  Clients = {c1, c2}
  Users = {user, stranger}
  Allowed = {user}
  Asked <- AllRequests
  HandlerErrors <- AllServiceErrors
  MaxConcurrent = 1
  NoConn = NoConn
  None = None
  Daemons = {d1, d2}
  MaxSockets = 3
INVARIANTS
  SlotsAreServed TruthfulAnswer OrderlyStop PathUsable
PROPERTIES StopExits SlotsReturn
