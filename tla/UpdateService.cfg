SPECIFICATION Spec
CONSTANTS
  Releases = {r1, b1}
  Betas = {b1}
  Installed = installed
  NoRelease = none
INVARIANTS TypeOK RequestsMatch InstallsVerified InstallsQuiet SkippedStaysSilent
PROPERTIES WaitsEnd
\* The application quits when it installs.
CHECK_DEADLOCK FALSE
