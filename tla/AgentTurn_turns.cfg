SPECIFICATION Spec
CONSTANTS
  MaxTurns = 3
  StepLimit = 8
  MaxAttempts = 2
  ContextSize = 8
  MaxCalls = 2
  ContentSizes = {1}
  PromptSize = 1
INVARIANTS ProviderSeesPairedCalls PlainQuestionsStay
PROPERTIES ContractSpec TurnsEnd
