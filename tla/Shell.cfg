SPECIFICATION Spec
CONSTANTS
  cmd_len = 10
  MAX_ARG_NR = 4
  bufsize = 3
  Name = {"a", "b"}
  Arg <- MCArg
  Output = {2}
  Line <- MCLine
  MaxEdits = 2
  Depth = 2
  MaxNodes = 3
  MaxSize = 1
  Word = "w"
  None = None
  Dir = Dir
  NoPipe = NoPipe
CHECK_DEADLOCK FALSE
INVARIANTS
  ShellInv
  LineExecuted
  CommandsMean
