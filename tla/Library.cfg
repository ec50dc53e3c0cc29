SPECIFICATION Spec
CONSTANTS
  Keys = {1, 2, 3, 4}
  Hashes = {0, 3, 6, 7}
  NoKey = NoKey
  MinRaw = 4
  LoadNum = 4
  LoadDen = 3
  Threshold = 2
  BufCap = 3
  Total = 5
  MaxBody = 4
  MaxPush = 2
  Users = {m, t, u}
  Main = m
  Lazies = {l1, l2}
  Closures = {c}
  NoUser = NoUser
  Iters = 3
  Locals = {a, b}
  FastKeys = {f, g}
  OsKeys = {o}
  Dtors = Dtors
  Unowned = Unowned
  Rounds = 2
  MaxUses = 4
SYMMETRY Symmetry
INVARIANTS TableSound WriterSound ComponentsAgree ExitExact LocalsDropped
CHECK_DEADLOCK FALSE
