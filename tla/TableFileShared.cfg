SPECIFICATION Spec
CONSTANTS
  Conns = {c1}
  Files = {f1, f2}
  Dirs = {d1}
  DirOf <- OneDir
  r1 = r1
  r2 = r2
  Rowgroups = {r1, r2}
  Tables <- MCTables
  Calls = {}
  None = None
  Junk = Junk
INVARIANT
  VerifiedReadsBack
