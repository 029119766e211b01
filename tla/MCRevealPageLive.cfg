SPECIFICATION FairSpec
CONSTANTS
  right = right
  wrong = wrong
  broken = broken
  missing = missing
  load1 = load1
  load2 = load2
  open1 = open1
  open2 = open2
  tick = tick
  tock = tock
  Keys <- MCOneKey
  Fragments <- MCMissing
  RightKey <- right
  NoFragment <- missing
  Loads <- MCOneLoad
  Opens <- MCOneOpen
  Timers <- MCTimers
  MaxAnimations = 1
PROPERTIES NothingStalls TouchAnswered DestroyEnds ScreenFollows
