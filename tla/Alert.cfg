CONSTANTS
  Threshold <- SomeThresholds
  Hysteresis <- SomeHysteresis
  Reading <- SomeReadings
  NaN = NaN
  MaxReadings = 4
  MaxDepth = 2
SPECIFICATION Spec
INVARIANTS TypeOK EventsMatchState
PROPERTY ImplementsPolicy
