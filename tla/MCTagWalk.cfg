\* Every response of up to 15 tags that stays within three tags of a rescuable one.
CONSTANTS
  MaxTags = 15
  MaxDead = 3
SPECIFICATION WalkSpec
INVARIANTS
  WalksMatchGrammar
  ScaffoldLandsInValidator
  ScaffoldsAgree
CHECK_DEADLOCK FALSE
