SPECIFICATION Spec
CONSTANTS
  Games = {g1}
  Desktop = desktop
  NoWindow = noWindow
  NoPipe = noPipe
  MaxSaves = 2
  MaxHdr = 0
  HdrDisplay = {FALSE}
  MaxEvents = 3
  MaxQueue = 2
INVARIANTS TypeOK QuiescentWhenReady NoOwnerNoCapture ConfirmedByThisGeneration
PROPERTIES SavesAnsweredOnce
CHECK_DEADLOCK FALSE
