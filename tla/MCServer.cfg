SPECIFICATION FairSpec
CONSTANTS
  Conns = {c1, c2, c3}
  Fds = {3, 4, 5}
  Workers = {w1, w2}
  QueueMax = 2
  Events = {"throw", "hangup", "signal"}
INVARIANTS TypeOK OneOwner TableMatches NoTaskForgotten
PROPERTY Served
CHECK_DEADLOCK FALSE
