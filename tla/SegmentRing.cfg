SPECIFICATION Spec
CONSTANTS
  Keeps = {1, 2}
  MaxFiles = 5
  MaxCrashes = 1
  MaxFailed = 2
  AudioMayVanish = TRUE
  AudioOnlyFinalizes = TRUE
INVARIANTS TypeOK LeasedFilesStay RingOnDisk RingBounded SnapshotIsWhole ActiveMeansRecording
CHECK_DEADLOCK FALSE
PROPERTIES ExportEnds
