CONSTANTS
  SecondTicks = 3
  Interval = 2
  MaxAges = {1, 2, 3}
  Delay = 1
SPECIFICATION FairSpec
INVARIANTS TypeOK HealthyLooksHealthy
PROPERTIES AlarmHasCause FailingEnds
