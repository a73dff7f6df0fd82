SPECIFICATION Spec
CONSTANTS
  Keeps = {1, 2}
  MaxFiles = 6
  MaxCrashes = 0
  MaxFailed = 2
  AudioMayVanish = TRUE
  AudioOnlyFinalizes = FALSE
INVARIANTS NoSilentClip
CHECK_DEADLOCK FALSE
