SPECIFICATION Spec
CONSTANTS
  Conns = {c1}
  Files = {f1, f2}
  Dirs = {f1, f2}
  DirOf <- OwnDirs
  r1 = r1
  r2 = r2
  Rowgroups = {r1, r2}
  Tables <- MCTables
  Calls = {"reload"}
  None = None
  Junk = Junk
INVARIANT
  VerifiedComplete
