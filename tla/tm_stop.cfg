\* Stopped and armed again
SPECIFICATION TimerSpec
CONSTANTS
  InitialEnabled = {TRUE, FALSE}
  MaxChanges = 2
PROPERTIES
  StopTakesEffect
CHECK_DEADLOCK FALSE
