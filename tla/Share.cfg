\* Two jobs to an add-on without direct_send and to a built-in provider with it.
SPECIFICATION Spec
CONSTANTS
  Captures = {c1, c2}
  Providers = {"external", "builtin"}
  DirectSend = {"builtin"}
  MaxJobs = 2
  Quota <- MCQuota
  MaxViolations = 2
  MaxPipe = 1
  MaxReports = 2
INVARIANTS TypeOK RightCapture ExternalTruth
PROPERTIES OwnVerdict KeepsPromise ListArrives
