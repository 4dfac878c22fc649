\* Two forced hints in the synchronous text loop.
CONSTANTS
  Nested = FALSE
  MaxHints = 2
  MaxTurns = 4
  MaxModelLen = 12
  MaxResponseLen = 5
  AnswerBudget = 0
  MinBuffer = 2
  HintLen = 1
  RefusalLen = 1
  ScaffoldLen = 1
  ClosingLen = 1
  Texts <- MCTexts
  AnswerTexts <- MCAnswerTexts
  Loops = {"sync text"}
  PromptLens = {1}
  HintCounts = {2}
  Forces = {2}
  HintTransition = TRUE
  MarkupLen = 1
SPECIFICATION Spec
PROPERTY
  TranscriptIsCommitted
CHECK_DEADLOCK FALSE
