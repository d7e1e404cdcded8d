SPECIFICATION PathFairSpec
CONSTANTS
  Works <- MCWorks
  Selftest = "selftest"
  Kbd = "kbd"
  NoWork = "none"
  RawCap = 2
  EventCap = 1
  Keys <- MCKeys
  MaxKeys = 3
  MaxBytes = 7
  LineLength = 3
  LineCap = 1
INVARIANTS  NoStrandedWork NoStrandedScancodes DecodesWhatWasTyped
  NoStuckModifiers  ReadersNeverFail
PROPERTY PathDrains
CHECK_DEADLOCK FALSE
