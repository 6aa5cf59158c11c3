SPECIFICATION Spec
CONSTANTS
  Partners = {bob, cyd}
  Me = ann
  Nobody = Nobody
  Limit = 2
  Polls = {p1, p2}
  MaxMessages = 3
  MaxFaults = 1
PROPERTIES ReadByReceiver ShownInTheEnd
