SPECIFICATION Spec
CONSTANTS
  right = right
  wrong = wrong
  broken = broken
  missing = missing
  load1 = load1
  load2 = load2
  open1 = open1
  open2 = open2
  tick = tick
  tock = tock
  Keys <- MCKeys
  Fragments <- MCFragments
  RightKey <- right
  NoFragment <- missing
  Loads <- MCOneLoad
  Opens <- MCOpens
  Timers <- MCOneTimer
  MaxAnimations = 1
SYMMETRY MCSymmetry
INVARIANTS TypeOK ShownOnlyOnceBurned TextOnlyInEnvelope ReadableWhenRevealed VanishedMeansRead
PROPERTIES OpenedByConsent RevealedUntilClosed GoneScreensTrue
