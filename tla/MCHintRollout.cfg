\* One rollout, requests outside the think block, every way a turn can go.
CONSTANTS
  Nested = FALSE
  MaxHints = 2
  MaxTurns = 4
  MaxModelLen = 12
  MaxResponseLen = 6
  AnswerBudget = 1
  MinBuffer = 2
  HintLen = 1
  RefusalLen = 1
  ScaffoldLen = 1
  ClosingLen = 1
  Texts <- MCTexts
  AnswerTexts <- MCAnswerTexts
  Rollouts = {r1}
  PromptLens = {1, 5, 11}
  HintCounts = {0, 1, 3}
  Lossy = TRUE
SPECIFICATION Spec
INVARIANTS
  BudgetsRespected
  HintsServedInOrder
  TruncationKinds
  ForcedIsAccepted
  MalformedStaysMalformed
  RewardSeesTheHints
  UnfinishedOnlyAtTurnCap
CHECK_DEADLOCK FALSE
