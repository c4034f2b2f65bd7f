SPECIFICATION MCSpec
CONSTANTS
  Thread = {t1, t2}
  NULL = NULL
  Sector = {1, 16777217}
  Value = {0, 1}
  Blank = 0
  Kinds = {"none", "ata", "atapi", "big", "faulty"}
SYMMETRY Symmetry
VIEW View
INVARIANTS BlocksSound SerialSound InterruptsSound PartitionsRight ListsRight
  AlgorithmsRight 
PROPERTIES DisksSound ConsoleSound KeyboardRight TimerRight
  HashRight BitmapRight
