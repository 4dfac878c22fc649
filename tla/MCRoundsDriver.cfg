\* Two rollouts behind the barrier, three rounds, requests inside the think block.
CONSTANTS
  Nested = TRUE
  MaxHints = 1
  MaxTurns = 3
  MaxModelLen = 8
  MaxResponseLen = 4
  AnswerBudget = 1
  MinBuffer = 2
  HintLen = 1
  RefusalLen = 1
  ScaffoldLen = 1
  ClosingLen = 1
  Texts <- MCTexts
  AnswerTexts <- MCAnswerTexts
  Rollouts = {r1, r2}
  PromptLens = {1, 3}
  HintCounts = {1}
SPECIFICATION Spec
INVARIANT
  Lockstep
PROPERTIES
  ImplementsHintRollout
  Terminates
CHECK_DEADLOCK FALSE
