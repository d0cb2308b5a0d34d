SPECIFICATION Spec
CONSTANTS
  k1 = k1
  k2 = k2
  Calls = {k1, k2}
  Requests <- MCRequests
  MaxDuration = 1
  MaxInFlight = 1
  Rate = 1
  Burst = 1
  MaxTime = 2
  Secured = TRUE
  None = None
CHECK_DEADLOCK FALSE
INVARIANTS SlotsMatch  NeverLate EffectsAdmitted 
PROPERTIES Answered Stops
