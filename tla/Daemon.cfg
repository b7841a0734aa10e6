\* Two commands at a time, two daemons and what a third has left behind; crashes.
CONSTANTS
  Procs = {old, p1, p2}
  Old = old
  Cmds = {c1, c2}
  Files = {f1, f2, f3}
  NoProc = noProc
  NoFile = noFile
  Crashes = TRUE
SPECIFICATION FairSpec
INVARIANT TypeOK
INVARIANT FileNamesDaemon
PROPERTY StartServes
