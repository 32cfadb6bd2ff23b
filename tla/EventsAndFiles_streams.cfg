SPECIFICATION EitherSpec
CONSTANTS
  a = a
  b = b
  w3 = w3
  None = None
  Chats = {a}
  Turns = {1, 2}
  ChatOf <- OneChat
  Subscribers = {s1, s2}
  BufferSize = 2
  MaxDeltas = 1
  ChatIds = {a, b}
  Saves = {w1, w2, w3}
  SavedChat <- TwoOfOne
  MaxLists = 2
  MaxCrashes = 1
  Absent = Absent
  Part = Part
INVARIANTS SubscribersSeeTheLog  FilesAreWhole ListingIsWhole
PROPERTIES NobodyIsHeldUp
CHECK_DEADLOCK FALSE
