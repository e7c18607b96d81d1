SPECIFICATION FairAttendedSpec
CONSTANTS
  w1 = w1
  w2 = w2
  q1 = q1
  q2 = q2
  q3 = q3
  Worker = {w1, w2}
  Queue = {q1, q2}
  NoQueue = NoQueue
  NoTransfer = NoTransfer
INVARIANTS
  PaidOnce
PROPERTIES
  FailedWasNotPaid
  PaymentSpec
  QueueEnds
  PaidIsRecorded
