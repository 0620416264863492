CONSTANTS
  PullRequests <- MCEdits
  MaxApproved = 1
  MaxSurface = 1
SPECIFICATION Spec
PROPERTIES TransitionsInT
CHECK_DEADLOCK FALSE
