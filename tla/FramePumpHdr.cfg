SPECIFICATION Spec
CONSTANTS
  Games = {g1, g2}
  Desktop = desktop
  NoWindow = noWindow
  NoPipe = noPipe
  HdrDisplay = {TRUE}
  MaxSaves = 0
  MaxHdr = 2
  MaxEvents = 2
  MaxQueue = 1
PROPERTIES HdrAnsweredOnce
CHECK_DEADLOCK FALSE
