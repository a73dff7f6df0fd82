SPECIFICATION Spec
CONSTANTS
  Owned <- MCOwned
  OldHas = {"app", "gone"}
  NewHas = {"app", "added"}
INVARIANTS TypeOK OldKept MixIsJournaled VersionsWhole
