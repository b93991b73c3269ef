\* The leader and two descendants, two files with two contents each, two
\* runtimes that fit the pins and one that does not, and at most two edits;
\* no symmetry, as a liveness property is checked.
SPECIFICATION CheckSpec
CONSTANTS
  Descendant = {d1, d2}
  validation = validation
  test = test
  c1 = c1
  c2 = c2
  File = {validation, test}
  Content = {c1, c2}
  Locked <- LockedFiles
  Validation = validation
  Build = {b1, b2, b3}
  Pinned = {b1, b2}
  Installed = b1
  MaxEdits = 2
INVARIANTS
  VerdictIsItsOwnExit
  KilledTreeIsDead
  NoLeaderLeft
  SnapshotWasThere
  PassSpeaksOfWhatIsLocked
PROPERTIES
  HardTimeout
CHECK_DEADLOCK FALSE
