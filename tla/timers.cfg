SPECIFICATION FairSpec
CONSTANTS
  ta = ta
  tb = tb
  Timers = {ta, tb}
  Intervals = {1, 2}
  Wrap = 4
  MaxClock = 5
  MaxBack = 1
  MaxDue = 7
  SelfOnly = TRUE
  Nil = Nil
INVARIANTS TypeOK IteratorValid WaitBounded
PROPERTIES FiresWhenDue CatchUp
