SPECIFICATION Spec
CONSTANTS
  u1 = u1
  u2 = u2
  m1 = m1
  n1 = n1
  n2 = n2
  None = None
  Miss = Miss
  Users = {u1, u2}
  Sessions = {s1, s2}
  Syncing = {}
  UserOf <- MCUserOf
  Notes = {n1}
  Target <- MCTarget
  Other = {}
  DMs = {m1}
  From <- MCFrom
  To <- MCTo
  NoteOf <- MCNoteOf
  Listed <- MCListed
  BatchSize = 2
  KafkaFaults = FALSE
  DbFaults = TRUE
  IdleTimeout = FALSE
  Crashes = 0
  Deletes = 1
  Expiring = {m1}
INVARIANT NoGoneSession
PROPERTIES ListsConverge DmReminded
CHECK_DEADLOCK FALSE
