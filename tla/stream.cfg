SPECIFICATION FairSpec
CONSTANTS
  mine = mine
  other = other
  Thread = {mine, other}
  Viewed = mine
  MaxReplay = 2
  MaxItems = 2
  MaxEvents = 4
  MaxDrops = 1
  Prompt = TRUE
  Ordered = TRUE
CHECK_DEADLOCK FALSE
INVARIANTS TypeOK ClientIsPrefix QuietIsComplete
PROPERTIES NeverBackward EventsArrive
