SPECIFICATION FairSpec
CONSTANTS
  Stroke = 7
  WALVOLA_DELAY_ON = 7
  WALVOLA_DELAY_OFF = 8
INVARIANTS TypeOK NeverBothHigh MovementCompletes
PROPERTY MotorStops
