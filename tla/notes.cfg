SPECIFICATION Spec
CONSTANTS
  u1 = u1
  u2 = u2
  m1 = m1
  n1 = n1
  n2 = n2
  None = None
  Miss = Miss
  Users = {u1, u2}
  Sessions = {s1}
  Syncing = {s1}
  UserOf <- MCUserOf
  Notes = {n1, n2}
  Target <- MCTarget
  Other = {n1, n2}
  DMs = {}
  From <- MCFrom
  To <- MCTo
  NoteOf <- MCNoteOf
  Listed = {}
  BatchSize = 2
  KafkaFaults = TRUE
  DbFaults = TRUE
  IdleTimeout = TRUE
  Crashes = 1
  Deletes = 0
  Expiring = {}
INVARIANT TypeOK
PROPERTIES KeptUnlessCrash EventuallyStored
CHECK_DEADLOCK FALSE
