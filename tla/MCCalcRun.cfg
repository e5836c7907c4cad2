\* One run sealed by three people and filled by two workers; the computation of
\* the first instrument may need no line.
CONSTANTS
  u1 = u1  u2 = u2  u3 = u3  q1 = q1  q2 = q2  k1 = k1  k2 = k2  i1 = i1  i2 = i2
  NoUser = NoUser
  Runs = {r1}
  Periodes = {p1}
  Users = {u1, u2, u3}
  Instruments = {i1, i2}
  Book = {i1}
  Lineless = {i1}
  Requests = {q1, q2}
  Workers = {k1, k2}
SYMMETRY MCSymmetry
SPECIFICATION PartsSpec
\* With every run sealed or cancelled there is nothing left to ask for.
CHECK_DEADLOCK FALSE
INVARIANTS TypeOK SealSoD FourEyesSeal SealedRunComplete
PROPERTIES SealedRunFrozen
