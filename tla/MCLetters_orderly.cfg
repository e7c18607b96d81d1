SPECIFICATION OrderlySpec
CONSTANTS
  Nothing = Nothing
  Doc = {d1, d2}
  Readable = {d1}
  Presses = 3
  Scan = {c1}
  MaxTaken = 2
INVARIANTS NoGap ReadInOrder
PROPERTIES LogSpec SentIsRead
