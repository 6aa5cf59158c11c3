SPECIFICATION Spec
CONSTANTS
  Workers = {w1, w2}
  Main = main
  Signals = {INT, TERM}
  Nobody = Nobody
  MaxCalls = 2
PROPERTY SignalEnds
CHECK_DEADLOCK FALSE
