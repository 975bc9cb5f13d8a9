CONSTANTS
  ROB_SIZE = 3
  RENAME_WIDTH = 2
  COMMIT_WIDTH = 2
  Kinds <- Reasons
  Empty = Empty
SPECIFICATION FairSpec
INVARIANT ReasonsRemembered
PROPERTIES ImplementsRetirement SquashTaken
