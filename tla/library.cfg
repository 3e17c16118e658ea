SPECIFICATION Spec
CONSTANTS
  ca = ca
  cb = cb
  cc = cc
  cd = cd
  t1 = t1
  t2 = t2
  oa = oa
  ob = ob
  la = la
  w1 = w1
  w2 = w2
  w3 = w3
  ps = ps
  qs = qs
  rs = rs
  p1 = p1
  p2 = p2
  q1 = q1
  r1 = r1
  MaxPdus = 6
  Size = 3
  Cap = 4
  Partial = TRUE
  Early = TRUE
  Clients = {ca, cb, cc, cd}
  MaxOpen = 2
  MaxBacklog = 3
  Wrap = 32
  ReadSize = 4
  Limit = 25
  MaxPut = 27
  Garbage = Garbage
  Base = 4
  Ids <- SomeIds
  Kinds = {1}
  Data <- SomeData
  MaxEncoded = 2
  Room = 9
  Items <- SomeItems
  MaxItems = 4
  SrcMin = 0
  SrcMax = 2
  DstMin = 1
  DstMaxes = {1, 3}
  PktPerSecond = 5
  TimersPerSecond = 2
  NoUser = NoUser
  Threads = {t1, t2}
  Objects = {oa, ob}
  Locks = {la}
  LockOf <- Shared
  MaxHolds = 2
  Nil = Nil
  Workers = {w1, w2, w3}
  Writers = {p1, p2, q1, r1}
  Procs = {ps, qs, rs}
  ProcOf <- ThreadProc
  Pid <- ProcId
  PidWrap = 4
  MaxSize = 2
  MaxLines <- Lines
  Nobody = Nobody
INVARIANTS FlushAsked StrandedOnlyStarved InBounds RoundTrip ReadBack ZeroIsRoute RefsCounted StartStopKept LogKept
PROPERTIES ImplementsChan ImplementsQueue CallsReturn
CHECK_DEADLOCK FALSE
