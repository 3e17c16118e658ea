SPECIFICATION FairSpec
CONSTANTS
  s1 = s1
  s2 = s2
  c1 = c1
  c2 = c2
  u1 = u1
  u2 = u2
  Users = {u1, u2}
  NoUser = NoUser
  Servers = {s1}
  Conns = {c1, c2}
  UserOf <- ApartUserOf
  ServerOf <- LocalServerOf
  Route = Route
  Nil = Nil
  Targets = {u1, u2, NoUser}
  MaxMsgs = 1
PROPERTIES LocalDelivery LoginReachesRoute
CHECK_DEADLOCK FALSE
