\* One run, cancelled while it is being started or computed.
CONSTANTS
  u1 = u1  u2 = u2  u3 = u3  q1 = q1  q2 = q2  k1 = k1  k2 = k2  i1 = i1  i2 = i2
  NoUser = NoUser
  Runs = {r1}
  Periodes = {p1}
  Users = {u1, u2}
  Instruments = {i1}
  Book = {i1}
  Lineless = {}
  Requests = {q1, q2}
  Workers = {k1}
SYMMETRY MCSymmetry
SPECIFICATION WholeSpec
\* With every run cancelled there is nothing left to ask for.
CHECK_DEADLOCK FALSE
PROPERTIES CancelledIsTerminal
