SPECIFICATION Spec
CONSTANTS
  a = a
  None = None
  Summary = Summary
  Chats = {a}
  HttpTurns = {h1, h2}
  ChannelTurns = {}
  ChatOf <- OneChat
  MaxCrashes = 0
INVARIANTS CompletedTurnsAreStored
