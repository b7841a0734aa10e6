\* A log of up to four lines, windows of up to two; two tasks and three requests of the drawer.
CONSTANTS
  Tasks = {t1, t2}
  None = none
  MaxLines = 4
  MaxCalls = 3
  Windows = {0, 1, 2}
SPECIFICATION Spec
INVARIANT TypeOK
INVARIANT FollowComplete
INVARIANT ContextRight
INVARIANT DrawerShowsSelected
PROPERTY FollowEnds
