SPECIFICATION Spec
CONSTANTS
  Frames = {f1, f2, f3}
  SizeMod = 4
  Ks = {0, 1, 2}
  MaxTimestamp = 5
  NoVictim = NoVictim
INVARIANTS TypeOK HistoryIsWindow ScanFindsVictims NoWindowNoPolicy
