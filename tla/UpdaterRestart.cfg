SPECIFICATION Spec
CONSTANTS
  Owned <- MCOwned
  OldHas = {"app", "gone"}
  NewHas = {"app", "added"}
INVARIANT RecoveryIsNeeded
