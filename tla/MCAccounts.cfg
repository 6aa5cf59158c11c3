SPECIFICATION Spec
CONSTANTS
  Threads = {t1, t2, t3}
  Names = {ann, bob}
  Emails = {x, y}
  Passwords = {p, q}
  Blank = Blank
  Nothing = Nothing
  Requests = 1
SYMMETRY Symmetry
INVARIANT OneAccountPerName
PROPERTY Linearizable
CHECK_DEADLOCK FALSE
