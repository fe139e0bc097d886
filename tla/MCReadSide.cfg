SPECIFICATION FairSpec
CONSTANTS
  Story <- MCStory
  Facts <- MCFacts
  Seeded <- MCSeeded
  MaxAttempts = 2
  MaxFaults = 1
  Capacity = 2
  GiveUpAfter = 2
  Watched <- MCWatched
INVARIANTS
  TypeOK
  DocumentIsReplay
  StreamGapless
PROPERTIES
  ScreenCatchesUp
CHECK_DEADLOCK FALSE
