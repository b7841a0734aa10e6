\* The shell and up to three processes below it, one plain and one forced cancellation.
CONSTANTS
  Pids = {shell, q1, q2, q3}
  Shell = shell
  Daemon = daemon
  Adopter = adopter
  NoPid = noPid
SPECIFICATION Spec
INVARIANT TypeOK
INVARIANT SeenDescendantsDie
INVARIANT SurvivorsLeftGroup
PROPERTY CancelledRunReturns
CHECK_DEADLOCK FALSE
