\* Two commands, no crash.
CONSTANTS
  Procs = {old, p1, p2}
  Old = old
  Cmds = {c1, c2}
  Files = {f1, f2, f3}
  NoProc = noProc
  NoFile = noFile
  Crashes = FALSE
SPECIFICATION Spec
INVARIANT ServingIsFound
