SPECIFICATION FairSpec
CONSTANTS
  u1 = u1
  Consumer = consumer
  Grant = 4
  GrantTxn = grant
  Clients = {c1}
  Txns = {t1, t2}
  Users = {u1}
  MaxKind = 1
  MaxRetries = 3
  KafkaOn = TRUE
  KafkaFaults = TRUE
  DlqFaults = TRUE
  DbFaults = TRUE
  CommitLost = FALSE
  RedisFaults = TRUE
  Crashes = TRUE
  MaxDay = 1
  MaxLog = 2
  UserOf <- MCUserOf
  DayTxn <- MCDayTxn
  Kinds <- MCKinds
  Kind <- MCKind
  Amount <- MCAmount
  Limit <- MCLimit
INVARIANTS WithinLimit CommitCovers
PROPERTY EventuallyHandled
