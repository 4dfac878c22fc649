\* Two rollouts, three turns, results in any order, requests that may be dropped.
CONSTANTS
  Nested = FALSE
  MaxHints = 1
  MaxTurns = 3
  MaxModelLen = 8
  MaxResponseLen = 4
  AnswerBudget = 1
  MinBuffer = 2
  HintLen = 1
  RefusalLen = 1
  ScaffoldLen = 1
  ClosingLen = 1
  Texts <- MCTexts
  AnswerTexts <- MCAnswerTexts
  NumRollouts = 2
  PromptLens = {1, 3}
  HintCounts = {1}
  Lossy = TRUE
SPECIFICATION Spec
INVARIANTS
  InFlightFresh
  KeepsEngineFull
  ForcingFindsEngineIdle
PROPERTIES
  ImplementsHintRollout
  Terminates
CHECK_DEADLOCK FALSE
