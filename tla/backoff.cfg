CONSTANTS
  DurationMax = 100000
  AttemptMax = 25
  Initials = {0, 1, 7, 22, 23, 178, 250, 2000, 50000, 99900, 100000}
  Maxima = {0, 1, 300, 2100, 30000, 99999, 100000}
SPECIFICATION Spec
INVARIANTS
  TypeOK
  DelayBounds
  DelayIsReference
PROPERTIES
  DelayFallsLittle
