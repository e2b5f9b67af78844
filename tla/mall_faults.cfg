SPECIFICATION Spec
CONSTANTS
  p1 = p1
  None = None
  NoKey = NoKey
  Clients = {c1, c2}
  Readers = {}
  Users = {u1, u2}
  Products = {p1}
  Codes = {k1, k2}
  ProductOf <- MCOneProduct
  Price <- MCPrice
  OrderIds = {o1, o2, o3}
  Keys = {key}
  Grant = 6
  EarnAmount = 2
  MaxLedger = 1
  LockMayExpire = TRUE
  DbFaults = TRUE
  CommitLost = TRUE
  RedisFaults = TRUE
  Crashes = TRUE
SYMMETRY MCSymmetry
INVARIANTS TypeOK SaleConsistent LedgerChain RecordedOrderIsOwn StockCoversCodes
