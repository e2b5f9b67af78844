SPECIFICATION Spec
CONSTANTS
  u1 = u1
  Consumer = consumer
  Grant = 4
  GrantTxn = grant
  Clients = {c1}
  Txns = {t1}
  Users = {u1}
  MaxKind = 1
  MaxRetries = 2
  KafkaOn = TRUE
  KafkaFaults = TRUE
  DlqFaults = TRUE
  DbFaults = TRUE
  CommitLost = TRUE
  RedisFaults = TRUE
  Crashes = TRUE
  MaxDay = 2
  MaxLog = 1
  UserOf <- MCUserOf
  DayTxn <- MCDayTxn
  Kinds <- MCKinds
  Kind <- MCKind
  Amount <- MCAmount
  Limit <- MCLimit
SYMMETRY MCSymmetry
INVARIANTS TypeOK ReconcileClean CreditedOnce
