SPECIFICATION SmallSpec
CONSTANTS
  c1 = c1
  c2 = c2
  v1 = v1
  n1 = n1
  Customer = {c1, c2}
  Vendor = {v1}
  Nobody = Nobody
  Content <- SmallContent
  Amount = {1, 2}
  TaxAmount = {1}
  BillTotal = {2}
  BillNumber = {}
  Unnumbered = Unnumbered
  Resting = {v1}
  LastDate = 2
  MaxDocuments = 3
SYMMETRY Symmetric
INVARIANTS AgingTies NeverOverpaid InStep ConvertsOnce TaxReportTies
CHECK_DEADLOCK FALSE
