SPECIFICATION EitherSpec
CONSTANTS
  Providers <- AllProviders
  MaxTexts = 1
  MaxPieces = 2
  MaxToolCalls = 2
  MaxRounds = 2
  NoName = NoName
  NoCall = NoCall
  Turns = {t1, t2}
  Names = {s1}
  Versions = {v1, v2}
  FirstVersion = v1
  MaxSelected = 2
  MaxCalls = 1
  MaxEdits = 2
  MaxFaults = 1
  MaxCrashes = 1
  Nothing = Nothing
INVARIANTS StreamIsTheResponse CutStreamIsPrefix CallsAreReal RequestsAreWhole
  InstructionsWereApproved CommandsWereApproved ApprovalsHaveVerdicts OneBundleApproved
