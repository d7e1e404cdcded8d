SPECIFICATION Spec
CONSTANTS
  Printers = {p1, p2}
  Letters = {a}
  LF = LF
  BS = BS
  Screens <- MCScreens
  RingSize = 3
  Modulus = 128
  MaxChars = 4
INVARIANTS ScreenShowsText CursorHeals 
SYMMETRY MCSymmetry
CHECK_DEADLOCK FALSE
