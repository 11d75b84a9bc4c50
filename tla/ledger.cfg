SPECIFICATION Spec
CONSTANTS
  s1 = s1
  s2 = s2
  s3 = s3
  Messages = {m1}
  Sessions = {s1, s2, s3}
  Senders <- MCSenders
  DirectWindow = 1
  BroadcastWindow = 1
  Retention = 1
  TransportRetries = FALSE
  MaxAttempts = 1
  MaxClock = 5
SYMMETRY ReceiverSymmetry
INVARIANTS TypeOK OutstandingHasMessage
PROPERTIES ReadStaysRead DeliveryPromise
