CONSTANTS
  s1 = s1
  s2 = s2
  r1 = r1
  r2 = r2
  Senders = {s1, s2}
  Receivers = {r1, r2}
  Calls <- TwoEach
  Cap = 0
  Ring = 2
  NoThread = NoThread
  NoBlob = NoBlob
SPECIFICATION Spec
CHECK_DEADLOCK FALSE
INVARIANT RingHoldsInFlight
