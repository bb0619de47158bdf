CONSTANTS
  s1 = s1
  s2 = s2
  r1 = r1
  r2 = r2
  Senders = {s1, s2}
  Receivers = {r1, r2}
  Calls <- TwoEach
  Cap = 2
  Ring = 3
  NoThread = NoThread
  NoBlob = NoBlob
SPECIFICATION FairSpec
INVARIANTS TypeOK RingHoldsInFlight OneOwner NoStrandedReceiver NoStrandedSender
CHECK_DEADLOCK FALSE
PROPERTIES ImplementsFifo AllCallsReturn
