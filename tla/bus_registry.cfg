SPECIFICATION Spec
CONSTANTS
  c1 = c1  c2 = c2  c3 = c3
  a1 = a1  a2 = a2  b = b
  luffy = luffy  luffy2 = luffy2  zoro = zoro
  NoConn = NoConn  NoSession = NoSession  NoName = NoName  NoMessage = NoMessage
  Stopped = Stopped
  Conns = {c1, c2, c3}
  Sessions = {a1, a2}
  Names = {luffy, luffy2, zoro}
  Messages = {}
  FirstName <- MCFirstName
  Fallback <- MCFallback
  RenameNames = {luffy, zoro}
  Extends <- MCExtends
  Live = {a1}
  DirectWindow = FALSE
  BroadcastCatchUp = FALSE
  MaxHellos = 4
  ReplayLimit = 2
SYMMETRY ConnSymmetry
VIEW WithoutMessages
CHECK_DEADLOCK FALSE
INVARIANTS TypeOK UniqueNames OpenListenersRegistered ServedListenersActive
PROPERTIES RegistryPromise
