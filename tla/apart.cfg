SPECIFICATION Spec
CONSTANTS
  s1 = s1
  s2 = s2
  c1 = c1
  c2 = c2
  u1 = u1
  u2 = u2
  Users = {u1, u2}
  NoUser = NoUser
  Servers = {s1, s2}
  Conns = {c1, c2}
  UserOf <- ApartUserOf
  ServerOf <- ApartServerOf
  Route = Route
  Nil = Nil
  Targets = {u2}
  MaxMsgs = 2
INVARIANTS SessionRegistered AnnouncedIsRouted UnreportedUnrouted
PROPERTIES ImplementsMessenger
CHECK_DEADLOCK FALSE
