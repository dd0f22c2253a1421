\* Three events; types that succeed, exceed the qubits and are unknown; deadlines that
\* pass before the command is taken (0) and about when the answer comes (3); a 2-bit
\* counter; neighbours that keep every rule, and neighbours that break some.
SPECIFICATION LinkFairSpec
CONSTANTS
  MaxEvents = 3
  EventId <- MCEventId
  Params <- MCEventId
  EventType = {1, 3, 9}
  OfferDeadline = {0, 3}
  Status <- MCStatus
  Data <- MCData
  NoData = "zeros"
  KeyMaterial = "bytes"
  MaxShots = 2
  MaxQubits = 300
  GroverCap = 1
  CounterSize = 4
  LibertySets <- MCLibertySets
  Unset = Unset
  None = None
INVARIANTS
  AnswerBelongsToEvent
  WaitIsAnswerable
PROPERTIES
  ImplementsInterlock
  EveryEventAnswered
