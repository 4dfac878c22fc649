\* One forced answer that the policy ends without closing it.
CONSTANTS
  Nested = FALSE
  MaxHints = 1
  MaxTurns = 2
  MaxModelLen = 12
  MaxResponseLen = 3
  AnswerBudget = 2
  MinBuffer = 1
  HintLen = 1
  RefusalLen = 1
  ScaffoldLen = 1
  ClosingLen = 1
  Texts <- MCTexts
  AnswerTexts <- MCAnswerTexts
  Rollouts = {r1}
  PromptLens = {1}
  HintCounts = {1}
  Lossy = FALSE
  Width = 20
  PadIsEos = TRUE
SPECIFICATION TensorSpec
INVARIANT
  GradesForcedAnswers
CHECK_DEADLOCK FALSE
