\* Two jobs to one Telegram account.
SPECIFICATION Spec
CONSTANTS
  Captures = {c1, c2}
  Providers = {"telegram"}
  DirectSend = {"telegram"}
  MaxJobs = 2
  Quota <- MCQuota
INVARIANTS SentIsConfirmed
