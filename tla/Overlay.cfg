\* Two windows of one game, one control on the pad.
SPECIFICATION Spec
CONSTANTS
  Controls = {cross}
  Games = {g1, g2}
  MaxAttempts = 3
  Grace = 2
INVARIANTS TypeOK PolicyScoped AcquirerFollowsWindow
PROPERTIES HeldNotExposed CloseEnds WatchActs
