CONSTANTS
  Surfaces = {s1, s2, s3}
  NoSurface = NoSurface
  Buttons = {left}
  ButtonCodes = {left, other}
  SuddenLoss = FALSE
SYMMETRY Alike
SPECIFICATION InputSpec
INVARIANTS TypeOK FocusLive FocusAgrees FocusTold NoStaleButtons RepeatHeld PreviousFollows
