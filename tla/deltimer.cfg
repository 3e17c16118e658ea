SPECIFICATION Spec
CONSTANTS
  ta = ta
  tb = tb
  Timers = {ta, tb}
  Intervals = {1, 2}
  Wrap = 16
  MaxClock = 3
  MaxBack = 0
  MaxDue = 5
  SelfOnly = FALSE
  Nil = Nil
INVARIANTS IteratorValid
CHECK_DEADLOCK FALSE
