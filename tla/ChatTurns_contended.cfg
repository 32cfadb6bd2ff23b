SPECIFICATION Spec
CONSTANTS
  a = a
  None = None
  Summary = Summary
  Chats = {a}
  HttpTurns = {h1, h2}
  ChannelTurns = {k1}
  ChatOf <- OneChat
  MaxCrashes = 1
SYMMETRY Symmetry
INVARIANTS OnlyStaleCopiesErase SlotOwnedByTurn HistoryIsAnsweredTail EventsBracketed StopOnlyWhenAsked
PROPERTIES LogSpec SlotKeepsWritersOut
