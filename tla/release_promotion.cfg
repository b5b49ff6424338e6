SPECIFICATION Spec
CONSTANTS
  options = options
  shadow = shadow
  signal = signal
  spark = spark
  jei = jei
  Stray = stray
  Authored = {options, shadow}
  Mods = {signal, spark, jei}
  Signal = signal
  CurseForge = {jei}
  Side <- SomeSides
  Path <- SomePaths
  None = None
  TreeFlaws = {"none", "unsealed", "stale", "unlocked", "mislocked", "signalless", "clashing"}
  BuildDefects <- SomeDefects
  Replacements <- SomeReplacements
  MaxReleases = 3
  MaxOddities = 2
  MaxFaults = 1
INVARIANTS AcceptedIsPack PublicIsAccepted
PROPERTIES PushesAreEarned ReleaseConverges
CHECK_DEADLOCK FALSE
