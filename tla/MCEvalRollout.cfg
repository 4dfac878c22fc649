\* All three loops, up to two forced hints.
CONSTANTS
  Nested = FALSE
  MaxHints = 2
  MaxTurns = 4
  MaxModelLen = 12
  MaxResponseLen = 5
  AnswerBudget = 0
  MinBuffer = 2
  HintLen = 1
  RefusalLen = 1
  ScaffoldLen = 1
  ClosingLen = 1
  Texts <- MCTexts
  AnswerTexts <- MCAnswerTexts
  Loops = {"spliced", "async text", "sync text"}
  PromptLens = {1, 6}
  HintCounts = {0, 1, 3}
  Forces = {0, 1, 2}
  HintTransition = FALSE
  MarkupLen = 1
SPECIFICATION Spec
INVARIANTS
  TypeOK
  AgreesWithTraining
  StoppedIsWellFormed
  CutSpentItsBudget
PROPERTIES
  TurnsAreCutAlone
  Terminates
CHECK_DEADLOCK FALSE
