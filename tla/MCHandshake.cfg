\* A 2-bit cycle counter: deadlines 0..3, so the counter wraps while a command
\* is stalled.  Two events, a known one-shot, a known many-shot and an unknown
\* type, two parameter words, two data words.
SPECIFICATION Spec
CONSTANTS
  EventId <- MCEventId
  EventType <- MCEventType
  Params <- MCParams
  Status <- MCStatus
  Data <- MCData
  NoData = d0
  MaxShots = 2
  CounterSize = 4
  Unset = Unset
  e1 = e1
  e2 = e2
  p1 = p1
  p2 = p2
  d0 = d0
  d1 = d1
INVARIANTS
  TypeOK
  SignalsMatchState
  WaitBounded
PROPERTIES
  TimeoutNotPremature
  OfferStable
