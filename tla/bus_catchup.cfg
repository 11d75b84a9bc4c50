SPECIFICATION SpecW
CONSTANTS
  c1 = c1  c2 = c2  c3 = c3
  a1 = a1  a2 = a2  b = b
  luffy = luffy  luffy2 = luffy2  zoro = zoro
  NoConn = NoConn  NoSession = NoSession  NoName = NoName  NoMessage = NoMessage
  Stopped = Stopped
  Conns = {c1, c2}
  Sessions = {a1, b}
  Names = {luffy, luffy2, zoro}
  Messages = {1, 2}
  FirstName <- MCFirstName
  Fallback <- MCFallback
  RenameNames = {}
  Extends <- MCExtends
  Live = {a1}
  DirectWindow = FALSE
  BroadcastCatchUp = TRUE
  MaxHellos = 3
  ReplayLimit = 2
SYMMETRY ConnSymmetry
VIEW WrittenModuloHistory
CHECK_DEADLOCK FALSE
INVARIANTS WrittenOnce
PROPERTIES HelloDrainsQueue DeliveryPromise
