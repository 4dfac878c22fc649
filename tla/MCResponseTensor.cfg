\* Two rollouts, tensor as wide as documented.
CONSTANTS
  Nested = FALSE
  MaxHints = 2
  MaxTurns = 3
  MaxModelLen = 14
  MaxResponseLen = 4
  AnswerBudget = 1
  MinBuffer = 1
  HintLen = 1
  RefusalLen = 1
  ScaffoldLen = 1
  ClosingLen = 1
  Texts <- MCTexts
  AnswerTexts <- MCAnswerTexts
  Rollouts = {r1, r2}
  PromptLens = {1, 14}
  HintCounts = {1}
  Lossy = TRUE
  Width <- MCWidth
  PadIsEos = TRUE
SPECIFICATION TensorSpec
SYMMETRY Symmetry
INVARIANTS
  TrainsOnWhatWasSampled
  GradesTheWholeTape
CHECK_DEADLOCK FALSE
