CONSTANTS
  r1 = r1
  r2 = r2
  none = none
  bad = bad
  NoWorker = NoWorker
  Workers = {w1, w2}
  Msgs = {r1, none, bad}
  Kind <- AnyRecords
  RedisWorks = TRUE
  RedisFails = TRUE
  DbMayFail = TRUE
  MaxLog = 3
  MaxDeaths = 1
SPECIFICATION FairSpec
CHECK_DEADLOCK FALSE
INVARIANTS StoredAndPushedOnce LostOnlyIfAbandoned
PROPERTIES RepliesSettle ImplementsReplyDelivery
