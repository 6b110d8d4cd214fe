SPECIFICATION Spec
CONSTANTS
  Readings <- MCReadings
  StepDen = 4
INVARIANTS
  TypeOK
  NoRunaway
  PendingMeansDue
  StepIsNearest
PROPERTY
  IsKnob
