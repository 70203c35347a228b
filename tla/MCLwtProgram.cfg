SPECIFICATION ProgramSpec
CONSTANTS
  NULL = NULL
  MainThread = main
  d1 = d1
  d2 = d2
  Threads = {main, t1, t2}
  Chans = {c1, c2, c3, c4, c5}
  Groups = {g1}
  Data = {d1, d2}
  Sizes = {0, 1, 2}
  MaxDrift = 1
  MaxRefs = 2
  Ops <- ProgramOps
  Careless = {}
  Names <- ProgramNames
  Script <- Programs
  MaxYields = 8
INVARIANTS Reset AssertsHold
PROPERTY Terminates
