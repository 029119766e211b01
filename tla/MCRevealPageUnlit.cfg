SPECIFICATION Spec
CONSTANTS
  right = right
  wrong = wrong
  broken = broken
  missing = missing
  load1 = load1
  load2 = load2
  open1 = open1
  open2 = open2
  tick = tick
  tock = tock
  Keys <- MCOneKey
  Fragments <- MCOneKey
  RightKey <- right
  NoFragment <- missing
  Loads <- MCLoads
  Opens <- MCOneOpen
  Timers <- MCOneTimer
  MaxAnimations = 1
INVARIANTS RevealedIsVisible
CHECK_DEADLOCK FALSE
