SPECIFICATION FairSpec
CONSTANTS
  Calls = {k1, k2}
  MaxReplies = 2
  RecvCap = 1
  Nothing = Nothing
INVARIANTS MailboxClosedOnce NobodyIsForgotten
PROPERTIES RpcSpec CallersAreReleased
