SPECIFICATION FairSpec
CONSTANTS
  Chars = {"ESC", "[", "O", "P", "1", "2", "8", "~", "x"}
  NumMax = 218
INVARIANTS FunctionKeysWork ScreenNotStale
PROPERTIES NetworkPolled NewModeDrawn
