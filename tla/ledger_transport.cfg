SPECIFICATION Spec
CONSTANTS
  s1 = s1
  s2 = s2
  s3 = s3
  Messages = {m1}
  Sessions = {s1, s2}
  Senders <- MCSenders
  DirectWindow = 1
  BroadcastWindow = 1
  Retention = 1
  TransportRetries = TRUE
  MaxAttempts = 2
  MaxClock = 4
SYMMETRY ReceiverSymmetry
INVARIANTS OutstandingUndecided SettledHasReadTime
PROPERTIES OutstandingKept
