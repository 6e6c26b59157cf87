SPECIFICATION FairSpec
CONSTANTS
  mine = mine
  other = other
  Thread = {mine, other}
  Viewed = mine
  MaxReplay = 2
  MaxItems = 2
  MaxEvents = 3
  MaxDrops = 0
  Prompt = TRUE
  Ordered = FALSE
CHECK_DEADLOCK FALSE
INVARIANTS ClientIsPrefix
