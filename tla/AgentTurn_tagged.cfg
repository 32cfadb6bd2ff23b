SPECIFICATION Spec
CONSTANTS
  MaxTurns = 2
  StepLimit = 8
  MaxAttempts = 1
  ContextSize = 0
  MaxCalls = 0
  ContentSizes = {1}
  PromptSize = 1
INVARIANTS AnswersHaveQuestions
