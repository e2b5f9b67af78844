SPECIFICATION FairSpec
CONSTANTS
  s1 = s1
  None = None
  Clients = {c1, c2}
  Users = {u1}
  Articles = {a1}
  Shards = {s1}
  ShardOf <- MCShardOf
  Ops = {"view", "like", "unlike"}
  MaxCalls = 2
  NsqFaults = TRUE
  Redelivery = TRUE
  RedisFaults = TRUE
  DbFaults = TRUE
  CommitLost = TRUE
  Crashes = TRUE
INVARIANT TypeOK
PROPERTIES ViewsKept BuffersRunDry
