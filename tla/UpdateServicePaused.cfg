SPECIFICATION Spec
CONSTANTS
  Releases = {r1, b1}
  Betas = {b1}
  Installed = installed
  NoRelease = none
INVARIANT PauseHasAnEnd
CHECK_DEADLOCK FALSE
