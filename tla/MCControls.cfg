\* Two executors, four slots of one problem, three dispatches.
SPECIFICATION ControlSpec
CONSTANTS
  p1 = p1
  t1 = t1
  t2 = t2
  t3 = t3
  NoText = NoText
  Executor = {e1, e2}
  Slot <- SomeSlots
  Text = {t1, t2, t3}
  Emission = {t1, t2}
  Said <- SomeSaid
  Verdict = {"PASS"}
  MaxDispatch = 3
  MaxSaid = 2
INVARIANTS
  ShownIsGenuine
  NothingIsReplayed
  OnlyDeathLoses
  EmittedCanBeShown
SYMMETRY Symmetry
CHECK_DEADLOCK FALSE
