SPECIFICATION Spec
CONSTANTS
  a = a
  b = b
  c = c
  n1 = n1
  n2 = n2
  n3 = n3
  m1 = m1
  d1 = d1
  d2 = d2
  Savers = {a, b}
  Names = {n1, n2, n3, m1}
  Dirs = {d1, d2}
  Dir <- MCDir
  Wanted <- TwoDirectories
  Strict = {}
  Chunks <- MCChunks
  WithMode = TRUE
INVARIANTS DirectoriesUnmasked
CHECK_DEADLOCK FALSE
