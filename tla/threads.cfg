SPECIFICATION Spec
CONSTANTS
  b1 = b1
  b2 = b2
  b3 = b3
  b4 = b4
  f1 = f1
  f2 = f2
  f3 = f3
  loop = loop
  t2 = t2
  Socks = {b1, b2, b3, b4}
  Fds = {f1, f2, f3}
  Loop = loop
  Threads = {loop, t2}
  Dispatch = Dispatch
  Serialized = FALSE
  Nil = Nil
SYMMETRY SockSymmetry
INVARIANTS NoUseAfterFree
