SPECIFICATION FairSpec
CONSTANTS
  KeyLength = 2
  Inputs <- MCInputs
  MaxBytes = 5
  Ttls <- MCTtls
  Keys <- MCKeys
  Base <- MCBase
  MaxLetters = 2
  MaxTimers = 1
INVARIANTS TypeOK ClampKeepsLongestPrefix PartsOpenLetter QrIsThisLink
PROPERTIES LinkReplacesDraft NoSilentOrphan PageSettles
