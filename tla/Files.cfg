SPECIFICATION Spec
CONSTANTS
  a = a
  b = b
  c1 = c1
  c2 = c2
  c3 = c3
  NULL = NULL
  Ring = Ring
  f1 = f1
  f2 = f2
  Proc = {a, b}
  First = a
  File = {f1, f2}
  MAX_FILE_OPEN = 6
  MAX_FILES_OPEN_PER_PROC = 5
  Page = {c1, c2, c3}
  Habit = {}
SYMMETRY Pages
INVARIANTS
  FilesInv
  FdShowsFile
  PipeCounted
