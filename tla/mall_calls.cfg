SPECIFICATION FairSpec
CONSTANTS
  p1 = p1
  None = None
  NoKey = NoKey
  Clients = {c1, c2}
  Readers = {v1}
  Users = {u1}
  Products = {p1}
  Codes = {k1, k2}
  ProductOf <- MCOneProduct
  Price <- MCPrice
  OrderIds = {o1, o2}
  Keys = {key}
  Grant = 4
  EarnAmount = 2
  MaxLedger = 2
  LockMayExpire = FALSE
  DbFaults = TRUE
  CommitLost = FALSE
  RedisFaults = FALSE
  Crashes = TRUE
INVARIANTS RedeemSerialised ErrorMeansNoSale
PROPERTIES ImplementsSales LockLetGo
