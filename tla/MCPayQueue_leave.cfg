SPECIFICATION LeaveSpec
CONSTANTS
  w1 = w1
  w2 = w2
  q1 = q1
  q2 = q2
  q3 = q3
  Worker = {w1}
  Queue = {q1, q2}
  NoQueue = NoQueue
  NoTransfer = NoTransfer
INVARIANT
  PaidOnce
