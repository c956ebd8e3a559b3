SPECIFICATION Spec
CONSTANTS
  WINDOW = 3
  ACK_RETAIN_WINDOW = 4
  Numbers <- MCNumbers
INVARIANTS
  TypeOK
  AtMostOnce
  RefusalsJustified
  WindowMirrorsAccepted
  FrameRoundTrips
  RetainsRecent
  DebtIsRemembered
PROPERTY TrackedOnArrival
