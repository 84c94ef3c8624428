SPECIFICATION FairSpec
CONSTANTS
  Chars = {"a"} Newline = "nl" Eof = "eof"
  MaxPromptBytes = 3 LineCapacity = 4 EndsGuide = TRUE
  MaxAsks = 3 MaxKeys = 5
  Quit <- MCQuit Operate <- MCOperate Connect <- MCConnect Yes <- MCYes
INVARIANTS NoStaleAnswer  ZeroMeansClean
PROPERTIES   NobodyWaits
