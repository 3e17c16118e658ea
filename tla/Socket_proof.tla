---------------------------- MODULE Socket_proof ----------------------------
(***************************************************************************)
(* Theorems about the reference counts of sockets: for any number of       *)
(* sockets, descriptors and threads, whatever the callbacks call, as long  *)
(* as other threads wait their turn.                                       *)
(***************************************************************************)
EXTENDS SocketRef, FiniteSetTheorems, SequenceTheorems, TLAPS

Live(s) == s \in Socks /\ state[s] \notin {"none", "deleted"}

InCall(c) == call[c].todo # <<>>

\* A caller that is in a call and does not wait for one made from its callback.
\* There is no more than one.
Turn(c) == InCall(c) /\ (c = Dispatch => ~InCall(Loop))

\* What is left of a call of the given steps.
Suffix(todo, steps) ==
  /\ Len(todo) <= Len(steps)
  /\ \A i \in 1..Len(todo) : todo[i] = steps[Len(steps) - Len(todo) + i]

\* How many references a call has that it has yet to release.  Close() has the
\* one of the entry in the table as well, once that is gone.
Held(todo) ==
  IF todo = <<>> THEN 0
  ELSE CASE Head(todo) \in {"find", "load", "inc"} -> 0
         [] Head(todo) \in {"use", "callback", "unmap"} -> 1
         [] Head(todo) = "shut" -> 2
         [] Head(todo) \in {"drop", "dec"} -> IF Len(todo) > 3 THEN 2 ELSE 1
         [] OTHER -> IF Len(todo) > 1 THEN 1 ELSE 0

HeldOf(c, s) == IF call[c].sock = s THEN Held(call[c].todo) ELSE 0
Entry(s) == IF socketMap[mSocket[s]] = s THEN 1 ELSE 0

-----------------------------------------------------------------------------
(* The invariant, part by part.                                            *)

StepNames ==
  {"find", "load", "inc", "use", "callback", "unmap", "shut", "drop", "dec", "test"}

Records == [todo : Seq(StepNames), fd : Fds \union {Nil}, sock : Socks \union {Nil}, val : Int]
Events == [fd : Fds, sock : Socks]

Types ==
  /\ state \in [Socks -> States]
  /\ refCount \in [Socks -> Nat]
  /\ mSocket \in [Socks -> Fds \union {Nil}]
  /\ socketMap \in [Fds -> Socks \union {Nil}]
  /\ kernel \in [Fds -> Socks \union {Nil}]
  /\ handles \subseteq Fds
  /\ looping \in BOOLEAN
  /\ batch \in Seq(Events)
  /\ call \in [Callers -> Records]

\* A call is one of the four kinds, and knows its object once it has found it.
Calls ==
  /\ Suffix(call[Dispatch].todo, EventSteps)
  /\ \A t \in Threads : Suffix(call[t].todo, SendSteps)
                          \/ (t = Loop /\ Suffix(call[t].todo, CloseSteps))
  /\ \A c \in Callers : call[c].todo = <<>> => call[c].sock = Nil
  /\ \A c \in Callers : InCall(c) =>
       /\ call[c].fd \in Fds
       /\ (call[c].sock = Nil <=> Head(call[c].todo) = "find")

\* Callers take turns: a call of the loop's thread is made from a callback.
Turns ==
  /\ InCall(Loop) => InCall(Dispatch) /\ Head(call[Dispatch].todo) = "callback"
  /\ \A t \in Threads \ {Loop} : InCall(t) => \A c \in Callers \ {t} : ~InCall(c)
  /\ InCall(Dispatch) => looping /\ batch # <<>>
  /\ ~looping => batch = <<>>

\* An object a call works on is there, and what the call has read is so still.
FoundBy(c) ==
  InCall(c) /\ call[c].sock # Nil =>
    LET s == call[c].sock IN
    /\ Live(s) /\ mSocket[s] = call[c].fd
    /\ Head(call[c].todo) = "inc" => call[c].val = refCount[s] + 1
    /\ Head(call[c].todo) = "dec" => call[c].val = refCount[s] - 1
    /\ Len(call[c].todo) > 7 => socketMap[call[c].fd] = s
    /\ Head(call[c].todo) = "shut" => kernel[call[c].fd] = s /\ socketMap[call[c].fd] = Nil
Found == \A c \in Callers : FoundBy(c)

\* The table has objects that are there and open.
Table ==
  /\ \A s \in Socks : Live(s) => mSocket[s] \in Fds
  /\ \A f \in Fds : socketMap[f] # Nil =>
       /\ Live(socketMap[f]) /\ mSocket[socketMap[f]] = f
       /\ kernel[f] = socketMap[f]

\* Reference counts, seen by whose turn it is, and between calls.
CountsBy(c) ==
  \A s \in Socks : Live(s) =>
    /\ refCount[s] = Entry(s) + HeldOf(c, s) + (IF c = Loop THEN HeldOf(Dispatch, s) ELSE 0)
    /\ refCount[s] = 0 => call[c].sock = s /\ Head(call[c].todo) = "test"
CountsIdle == \A s \in Socks : Live(s) => refCount[s] = 1 /\ Entry(s) = 1
Counts ==
  /\ \A c \in Callers : Turn(c) => CountsBy(c)
  /\ (\A c \in Callers : ~InCall(c)) => CountsIdle

\* The events left to be dispatched, the one under way first, are of different
\* descriptors, which stay open until their turn; only the one under way may be
\* closed, and then it is no listening socket's.
Batch ==
  /\ \A i, j \in 1..Len(batch) : batch[i].fd = batch[j].fd => i = j
  /\ \A i \in 1..Len(batch) :
       \/ kernel[batch[i].fd] = batch[i].sock
       \/ /\ i = 1 /\ InCall(Dispatch) /\ call[Dispatch].sock # Nil
          /\ state[batch[1].sock] # "listening"
  /\ InCall(Dispatch) => call[Dispatch].fd = batch[1].fd
  /\ InCall(Dispatch) /\ call[Dispatch].sock # Nil => call[Dispatch].sock = batch[1].sock
  /\ Len(call[Loop].todo) > 7 \/ (InCall(Loop) /\ Head(call[Loop].todo) = "shut") =>
       call[Loop].fd = batch[1].fd /\ state[batch[1].sock] # "listening"

SockInv == Types /\ Calls /\ Turns /\ Found /\ Table /\ Counts /\ Batch

-----------------------------------------------------------------------------
(* The steps of calls.                                                     *)

LEMMA Joined ==
  ASSUME NEW a \in Seq(StepNames), NEW b \in Seq(StepNames), NEW c, c = a \o b
  PROVE  /\ c \in Seq(StepNames) /\ Len(c) = Len(a) + Len(b)
         /\ \A i \in 1..Len(a) : c[i] = a[i]
         /\ \A i \in 1..Len(b) : c[Len(a) + i] = b[i]
<1> HIDE DEF StepNames
<1>1. Len(a) \in Nat /\ Len(b) \in Nat
  OBVIOUS
<1>2. /\ c \in Seq(StepNames) /\ Len(c) = Len(a) + Len(b)
      /\ \A i \in 1..Len(a) + Len(b) : c[i] = IF i <= Len(a) THEN a[i] ELSE b[i - Len(a)]
  BY ConcatProperties, Zenon
<1>3. \A i \in 1..Len(a) : c[i] = a[i]
  BY <1>1, <1>2
<1>4. ASSUME NEW i \in 1..Len(b)
      PROVE  c[Len(a) + i] = b[i]
  <2>1. Len(a) + i \in 1..Len(a) + Len(b) /\ ~(Len(a) + i <= Len(a)) /\ (Len(a) + i) - Len(a) = i
    BY <1>1
  <2> QED
    BY <1>2, <2>1
<1> QED
  BY <1>2, <1>3, <1>4

LEMMA FindShape ==
  /\ Find \in Seq(StepNames) /\ Len(Find) = 3
  /\ Find[1] = "find" /\ Find[2] = "load" /\ Find[3] = "inc"
<1> DEFINE a == <<"find">>
           b == <<"load", "inc">>
<1>1. a \in Seq(StepNames) /\ b \in Seq(StepNames)
  BY DEF StepNames
<1>2. /\ Len(a) = 1 /\ a[1] = "find"
      /\ Len(b) = 2 /\ b[1] = "load" /\ b[2] = "inc"
  OBVIOUS
<1>3. Find = a \o b
  BY DEF Find, AddRef
<1> HIDE DEF a, b
<1>4. /\ Find \in Seq(StepNames) /\ Len(Find) = Len(a) + Len(b)
      /\ \A i \in 1..Len(a) : Find[i] = a[i]
      /\ \A i \in 1..Len(b) : Find[Len(a) + i] = b[i]
  BY <1>1, <1>3, Joined
<1> QED
  BY <1>2, <1>4

\* The steps of a call that does some between finding the object and releasing it.
IsCall(c, b) == c = Find \o b \o ReleaseRef

LEMMA CallShape ==
  ASSUME NEW b \in Seq(StepNames), NEW c, IsCall(c, b)
  PROVE  /\ c \in Seq(StepNames) /\ Len(c) = Len(b) + 6
         /\ c[1] = "find" /\ c[2] = "load" /\ c[3] = "inc"
         /\ \A i \in 1..Len(b) : c[3 + i] = b[i]
         /\ c[Len(b) + 4] = "drop" /\ c[Len(b) + 5] = "dec" /\ c[Len(b) + 6] = "test"
<1> DEFINE r == ReleaseRef
           a == Find \o b
           n == Len(b)
<1>1. r \in Seq(StepNames) /\ Len(r) = 3 /\ r[1] = "drop" /\ r[2] = "dec" /\ r[3] = "test"
  BY DEF ReleaseRef, StepNames
<1>2. c = a \o r /\ n \in Nat
  BY DEF IsCall
<1>3. Find \in Seq(StepNames) /\ r \in Seq(StepNames)
  BY <1>1, FindShape
<1>4. /\ a \in Seq(StepNames) /\ Len(a) = Len(Find) + n
      /\ \A i \in 1..Len(Find) : a[i] = Find[i]
      /\ \A i \in 1..n : a[Len(Find) + i] = b[i]
  <2> HIDE DEF r
  <2> QED
    BY <1>3, Joined
<1> HIDE DEF a, n, r
<1>5. /\ c \in Seq(StepNames) /\ Len(c) = Len(a) + Len(r)
      /\ \A i \in 1..Len(a) : c[i] = a[i]
      /\ \A i \in 1..Len(r) : c[Len(a) + i] = r[i]
  <2>1. a \in Seq(StepNames) /\ r \in Seq(StepNames) /\ c = a \o r
    BY <1>2, <1>3, <1>4
  <2> QED
    BY <2>1, Joined
<1>6. Len(Find) = 3 /\ Len(a) = 3 + n /\ Len(r) = 3
  BY <1>1, <1>4, FindShape
<1>7. c[1] = "find" /\ c[2] = "load" /\ c[3] = "inc"
  <2>1. ASSUME NEW k \in 1..3
        PROVE  c[k] = Find[k]
    BY <1>2, <1>4, <1>5, <1>6
  <2> QED
    BY <2>1, FindShape
<1>8. ASSUME NEW i \in 1..n
      PROVE  c[3 + i] = b[i]
  <2>1. 3 + i \in 1..Len(a)
    BY <1>2, <1>6
  <2> QED
    BY <1>4, <1>5, <1>6, <2>1
<1>9. c[n + 4] = "drop" /\ c[n + 5] = "dec" /\ c[n + 6] = "test"
  <2>1. \A k \in 1..3 : c[(3 + n) + k] = r[k]
    BY <1>5, <1>6
  <2>2. (3 + n) + 1 = n + 4 /\ (3 + n) + 2 = n + 5 /\ (3 + n) + 3 = n + 6
    BY <1>2
  <2>3. c[(3 + n) + 1] = r[1] /\ c[(3 + n) + 2] = r[2] /\ c[(3 + n) + 3] = r[3]
    BY <2>1
  <2> QED
    BY <1>1, <2>2, <2>3
<1>10. Len(c) = n + 6
  BY <1>2, <1>5, <1>6
<1> QED
  BY <1>5, <1>7, <1>8, <1>9, <1>10 DEF n

LEMMA UseShape ==
  ASSUME NEW x \in StepNames, NEW c, IsCall(c, <<x>>)
  PROVE  /\ c \in Seq(StepNames) /\ Len(c) = 7
         /\ c[1] = "find" /\ c[2] = "load" /\ c[3] = "inc" /\ c[4] = x
         /\ c[5] = "drop" /\ c[6] = "dec" /\ c[7] = "test"
<1> DEFINE b == <<x>>
<1>1. b \in Seq(StepNames) /\ Len(b) = 1 /\ b[1] = x
  OBVIOUS
<1>2. IsCall(c, b)
  OBVIOUS
<1> HIDE DEF b
<1>3. b \in Seq(StepNames)
  BY <1>1
<1>4. /\ c \in Seq(StepNames) /\ Len(c) = Len(b) + 6
      /\ c[1] = "find" /\ c[2] = "load" /\ c[3] = "inc"
      /\ \A i \in 1..Len(b) : c[3 + i] = b[i]
      /\ c[Len(b) + 4] = "drop" /\ c[Len(b) + 5] = "dec" /\ c[Len(b) + 6] = "test"
  BY <1>2, <1>3, CallShape
<1>5. c[3 + 1] = b[1]
  BY <1>1, <1>4
<1>6. /\ 1 + 6 = 7 /\ 3 + 1 = 4 /\ 1 + 4 = 5 /\ 1 + 5 = 6
  OBVIOUS
<1> QED
  BY <1>1, <1>4, <1>5, <1>6

LEMMA SendShape ==
  /\ SendSteps \in Seq(StepNames) /\ Len(SendSteps) = 7
  /\ SendSteps[1] = "find" /\ SendSteps[2] = "load" /\ SendSteps[3] = "inc"
  /\ SendSteps[4] = "use"
  /\ SendSteps[5] = "drop" /\ SendSteps[6] = "dec" /\ SendSteps[7] = "test"
<1>1. IsCall(SendSteps, <<"use">>) /\ "use" \in StepNames
  BY DEF IsCall, SendSteps, StepNames
<1> QED
  BY <1>1, UseShape

LEMMA EventShape ==
  /\ EventSteps \in Seq(StepNames) /\ Len(EventSteps) = 7
  /\ EventSteps[1] = "find" /\ EventSteps[2] = "load" /\ EventSteps[3] = "inc"
  /\ EventSteps[4] = "callback"
  /\ EventSteps[5] = "drop" /\ EventSteps[6] = "dec" /\ EventSteps[7] = "test"
<1>1. IsCall(EventSteps, <<"callback">>) /\ "callback" \in StepNames
  BY DEF IsCall, EventSteps, StepNames
<1> QED
  BY <1>1, UseShape

LEMMA CloseShape ==
  /\ CloseSteps \in Seq(StepNames) /\ Len(CloseSteps) = 11
  /\ CloseSteps[1] = "find" /\ CloseSteps[2] = "load" /\ CloseSteps[3] = "inc"
  /\ CloseSteps[4] = "unmap" /\ CloseSteps[5] = "shut"
  /\ CloseSteps[6] = "drop" /\ CloseSteps[7] = "dec" /\ CloseSteps[8] = "test"
  /\ CloseSteps[9] = "drop" /\ CloseSteps[10] = "dec" /\ CloseSteps[11] = "test"
<1> DEFINE b == <<"unmap", "shut">>
           a == Find \o b \o ReleaseRef
           r == ReleaseRef
<1>1. b \in Seq(StepNames) /\ Len(b) = 2 /\ b[1] = "unmap" /\ b[2] = "shut"
  BY DEF StepNames
<1>2. CloseSteps = a \o r
  BY DEF CloseSteps
<1>3. /\ r \in Seq(StepNames) /\ Len(r) = 3
      /\ r[1] = "drop" /\ r[2] = "dec" /\ r[3] = "test"
  BY DEF ReleaseRef, StepNames
<1> HIDE DEF b, r
<1>4. /\ a \in Seq(StepNames) /\ Len(a) = Len(b) + 6
      /\ a[1] = "find" /\ a[2] = "load" /\ a[3] = "inc"
      /\ \A i \in 1..Len(b) : a[3 + i] = b[i]
      /\ a[Len(b) + 4] = "drop" /\ a[Len(b) + 5] = "dec" /\ a[Len(b) + 6] = "test"
  <2>1. b \in Seq(StepNames) /\ IsCall(a, b)
    BY <1>1 DEF IsCall
  <2> HIDE DEF a
  <2> QED
    BY <2>1, CallShape
<1> HIDE DEF a
<1>5. /\ CloseSteps \in Seq(StepNames) /\ Len(CloseSteps) = Len(a) + Len(r)
      /\ \A i \in 1..Len(a) : CloseSteps[i] = a[i]
      /\ \A i \in 1..Len(r) : CloseSteps[Len(a) + i] = r[i]
  <2>1. a \in Seq(StepNames) /\ r \in Seq(StepNames)
    BY <1>3, <1>4
  <2> QED
    BY <1>2, <2>1, Joined
<1>6. a[3 + 1] = "unmap" /\ a[3 + 2] = "shut"
  BY <1>1, <1>4
<1>7. Len(a) = 8 /\ a[4] = "unmap" /\ a[5] = "shut" /\ a[6] = "drop" /\ a[7] = "dec" /\ a[8] = "test"
  BY <1>1, <1>4, <1>6
<1>8. \A i \in 1..8 : CloseSteps[i] = a[i]
  BY <1>5, <1>7
<1>9. \A i \in 1..3 : CloseSteps[8 + i] = r[i]
  BY <1>3, <1>5, <1>7
<1>10. Len(CloseSteps) = 11
  BY <1>3, <1>5, <1>7
<1>11. /\ CloseSteps[1] = a[1] /\ CloseSteps[2] = a[2] /\ CloseSteps[3] = a[3]
       /\ CloseSteps[4] = a[4] /\ CloseSteps[5] = a[5] /\ CloseSteps[6] = a[6]
       /\ CloseSteps[7] = a[7] /\ CloseSteps[8] = a[8]
  BY <1>8
<1>12. CloseSteps[9] = "drop" /\ CloseSteps[10] = "dec" /\ CloseSteps[11] = "test"
  <2>1. CloseSteps[8 + 1] = r[1] /\ CloseSteps[8 + 2] = r[2] /\ CloseSteps[8 + 3] = r[3]
    BY <1>9
  <2>2. 8 + 1 = 9 /\ 8 + 2 = 10 /\ 8 + 3 = 11
    OBVIOUS
  <2> QED
    BY <1>3, <2>1, <2>2
<1>13. CloseSteps \in Seq(StepNames)
  BY <1>5
<1>14. a[1] = "find" /\ a[2] = "load" /\ a[3] = "inc"
  BY <1>4
<1> QED
  BY <1>7, <1>10, <1>11, <1>12, <1>13, <1>14, Zenon


-----------------------------------------------------------------------------
(* One step of a call.                                                     *)

\* What is left of a call of one of the kinds.
Shaped(todo) ==
  /\ todo \in Seq(StepNames)
  /\ Suffix(todo, SendSteps) \/ Suffix(todo, CloseSteps) \/ Suffix(todo, EventSteps)

\* A step, and the one after it, by how many are left.
Follows(h, n, next) ==
  \/ h = "find" /\ n \in {7, 11} /\ next = "load"
  \/ h = "load" /\ n \in {6, 10} /\ next = "inc"
  \/ h = "inc" /\ n = 5 /\ next \in {"use", "callback"}
  \/ h = "inc" /\ n = 9 /\ next = "unmap"
  \/ h \in {"use", "callback"} /\ n = 4 /\ next = "drop"
  \/ h = "unmap" /\ n = 8 /\ next = "shut"
  \/ h = "shut" /\ n = 7 /\ next = "drop"
  \/ h = "drop" /\ n \in {3, 6} /\ next = "dec"
  \/ h = "dec" /\ n \in {2, 5} /\ next = "test"
  \/ h = "test" /\ n = 4 /\ next = "drop"
  \/ h = "test" /\ n = 1

LEMMA NextStep ==
  ASSUME NEW todo, Shaped(todo), todo # <<>>
  PROVE  /\ Len(todo) \in 1..11 /\ Len(Tail(todo)) = Len(todo) - 1
         /\ Tail(todo) \in Seq(StepNames)
         /\ (Tail(todo) = <<>> <=> Len(todo) = 1)
         /\ Follows(Head(todo), Len(todo), Head(Tail(todo)))
<1> DEFINE n == Len(todo)
           r == Tail(todo)
           h == Head(todo)
           g == Head(r)
<1>1. /\ n \in Nat /\ n >= 1 /\ h = todo[1]
      /\ r \in Seq(StepNames) /\ Len(r) = n - 1
      /\ n >= 2 => g = todo[2]
  BY DEF Shaped
<1> HIDE DEF n, r, h, g
<1>2. r = <<>> <=> n = 1
  BY <1>1, EmptySeq
<1>3. ASSUME NEW steps, Suffix(todo, steps), NEW m \in Nat, Len(steps) = m
      PROVE  /\ n \in 1..m /\ h = steps[m - n + 1]
             /\ n >= 2 => g = steps[m - n + 2]
  <2>1. n <= m /\ \A i \in 1..n : todo[i] = steps[m - n + i]
    BY <1>3 DEF Suffix, n
  <2> QED
    BY <1>1, <2>1
<1>4. CASE Suffix(todo, SendSteps)
  <2>1. /\ n \in 1..7 /\ h = SendSteps[7 - n + 1]
        /\ n >= 2 => g = SendSteps[7 - n + 2]
    BY <1>3, <1>4, SendShape
  <2>2. n \in 1..7 /\ Follows(h, n, g)
    BY <2>1, SendShape DEF Follows
  <2>3. n \in 1..11
    BY <2>2
  <2> QED
    BY <1>1, <1>2, <2>2, <2>3 DEF n, r, h, g
<1>5. CASE Suffix(todo, EventSteps)
  <2>1. /\ n \in 1..7 /\ h = EventSteps[7 - n + 1]
        /\ n >= 2 => g = EventSteps[7 - n + 2]
    BY <1>3, <1>5, EventShape
  <2>2. n \in 1..7 /\ Follows(h, n, g)
    BY <2>1, EventShape DEF Follows
  <2>3. n \in 1..11
    BY <2>2
  <2> QED
    BY <1>1, <1>2, <2>2, <2>3 DEF n, r, h, g
<1>6. CASE Suffix(todo, CloseSteps)
  <2>1. /\ n \in 1..11 /\ h = CloseSteps[11 - n + 1]
        /\ n >= 2 => g = CloseSteps[11 - n + 2]
    BY <1>3, <1>6, CloseShape
  <2>2. n \in 1..11 /\ Follows(h, n, g)
    BY <2>1, CloseShape DEF Follows
  <2>3. n \in 1..11
    BY <2>2
  <2> QED
    BY <1>1, <1>2, <2>2, <2>3 DEF n, r, h, g
<1> QED
  BY <1>4, <1>5, <1>6 DEF Shaped

\* What a step leaves of a call, it leaves of a call of the same kind.
LEMMA SuffixTail ==
  ASSUME NEW todo \in Seq(StepNames), todo # <<>>, NEW steps, Len(steps) \in Nat,
         Suffix(todo, steps)
  PROVE  Suffix(Tail(todo), steps)
<1> DEFINE n == Len(todo)
           r == Tail(todo)
<1>1. n \in Nat /\ n >= 1 /\ Len(r) = n - 1 /\ \A i \in 1..n - 1 : r[i] = todo[i + 1]
  OBVIOUS
<1>2. n <= Len(steps) /\ \A i \in 1..n : todo[i] = steps[Len(steps) - n + i]
  BY DEF Suffix
<1> HIDE DEF n, r
<1>3. ASSUME NEW i \in 1..n - 1
      PROVE  r[i] = steps[Len(steps) - (n - 1) + i]
  <2>1. i + 1 \in 1..n /\ Len(steps) - n + (i + 1) = Len(steps) - (n - 1) + i
    BY <1>1
  <2> QED
    BY <1>1, <1>2, <2>1
<1>4. Suffix(r, steps)
  BY <1>1, <1>2, <1>3 DEF Suffix
<1> QED
  BY <1>4 DEF r

\* A whole call.
LEMMA WholeCall ==
  ASSUME NEW steps \in Seq(StepNames), Len(steps) >= 1, steps[1] = "find"
  PROVE  /\ steps # <<>> /\ Head(steps) = "find" /\ Suffix(steps, steps)
         /\ Suffix(<<>>, steps)
<1>1. steps # <<>> /\ Head(steps) = "find"
  OBVIOUS
<1>2. Suffix(steps, steps)
  <2>1. Len(steps) \in Nat
    OBVIOUS
  <2>2. \A i \in 1..Len(steps) : Len(steps) - Len(steps) + i = i
    BY <2>1
  <2> QED
    BY <2>1, <2>2 DEF Suffix
<1>3. Suffix(<<>>, steps)
  BY DEF Suffix
<1> QED
  BY <1>1, <1>2, <1>3

\* Taking a reference, taking over the entry's and releasing one change what a
\* call holds, and no other step does.
LEMMA HeldNext ==
  ASSUME NEW todo, Shaped(todo), todo # <<>>
  PROVE  LET h == Head(todo)
             r == Tail(todo)
         IN  /\ Held(todo) \in 0..2 /\ Held(r) \in 0..2
             /\ h \in {"find", "load"} => Held(todo) = 0
             /\ h \in {"callback", "unmap"} => Held(todo) = 1
             /\ h \notin {"inc", "unmap", "dec"} => Held(r) = Held(todo)
             /\ h \in {"inc", "unmap"} => Held(r) = Held(todo) + 1
             /\ h = "dec" => Held(r) = Held(todo) - 1
             /\ h = "test" => (Held(todo) = 0 <=> r = <<>>)
<1> DEFINE h == Head(todo)
           n == Len(todo)
           r == Tail(todo)
<1>1. /\ n \in 1..11 /\ Len(r) = n - 1 /\ (r = <<>> <=> n = 1)
      /\ Follows(h, n, Head(r))
  BY NextStep
<1>2. /\ Held(todo) = IF h \in {"find", "load", "inc"} THEN 0
                      ELSE IF h \in {"use", "callback", "unmap"} THEN 1
                      ELSE IF h = "shut" THEN 2
                      ELSE IF h \in {"drop", "dec"} THEN (IF n > 3 THEN 2 ELSE 1)
                      ELSE (IF n > 1 THEN 1 ELSE 0)
      /\ Held(r) = IF r = <<>> THEN 0
                   ELSE IF Head(r) \in {"find", "load", "inc"} THEN 0
                   ELSE IF Head(r) \in {"use", "callback", "unmap"} THEN 1
                   ELSE IF Head(r) = "shut" THEN 2
                   ELSE IF Head(r) \in {"drop", "dec"} THEN (IF Len(r) > 3 THEN 2 ELSE 1)
                   ELSE (IF Len(r) > 1 THEN 1 ELSE 0)
  BY DEF Held
<1> HIDE DEF h, n, r
<1>3. /\ Held(todo) \in 0..2 /\ Held(r) \in 0..2
      /\ h \in {"find", "load"} => Held(todo) = 0
      /\ h \in {"callback", "unmap"} => Held(todo) = 1
      /\ h \notin {"inc", "unmap", "dec"} => Held(r) = Held(todo)
      /\ h \in {"inc", "unmap"} => Held(r) = Held(todo) + 1
      /\ h = "dec" => Held(r) = Held(todo) - 1
      /\ h = "test" => (Held(todo) = 0 <=> r = <<>>)
  BY <1>1, <1>2 DEF Follows
<1> QED
  BY <1>3 DEF h, r

-----------------------------------------------------------------------------
(* Whose turn it is, and how calls begin and go on.                        *)

LEMMA CallFacts ==
  ASSUME Types, Calls, NEW c \in Callers
  PROVE  /\ call[c].todo \in Seq(StepNames) /\ call[c].fd \in Fds \union {Nil}
         /\ call[c].sock \in Socks \union {Nil} /\ call[c].val \in Int
         /\ Shaped(call[c].todo)
         /\ c # Loop => Suffix(call[c].todo, SendSteps) \/ Suffix(call[c].todo, EventSteps)
<1>1. call[c] \in Records
  BY DEF Types
<1>2. /\ call[c].todo \in Seq(StepNames) /\ call[c].fd \in Fds \union {Nil}
      /\ call[c].sock \in Socks \union {Nil} /\ call[c].val \in Int
  BY <1>1 DEF Records
<1> QED
  BY <1>2 DEF Calls, Shaped, Callers

\* Only a call of the loop's thread closes a socket.
LEMMA LoopCloses ==
  ASSUME Types, Calls, NEW c \in Callers, InCall(c),
         Len(call[c].todo) > 7 \/ Head(call[c].todo) \in {"unmap", "shut"}
  PROVE  c = Loop
<1> DEFINE todo == call[c].todo
<1>1. /\ Shaped(todo) /\ todo # <<>> /\ todo \in Seq(StepNames)
      /\ c # Loop => Suffix(todo, SendSteps) \/ Suffix(todo, EventSteps)
  BY CallFacts DEF InCall
<1>2. Len(todo) > 7 \/ Head(todo) \in {"unmap", "shut"}
  OBVIOUS
<1> HIDE DEF todo
<1>4. Follows(Head(todo), Len(todo), Head(Tail(todo))) /\ Len(todo) \in 1..11
  BY <1>1, NextStep
<1>5. Len(todo) > 7 \/ (Len(todo) = 7 /\ Head(todo) = "shut")
  <2>1. ASSUME NEW h, NEW n \in 1..11, NEW next, Follows(h, n, next), h \in {"unmap", "shut"}
        PROVE  n > 7 \/ (n = 7 /\ h = "shut")
    BY <2>1 DEF Follows
  <2> QED
    BY <1>2, <1>4, <2>1, Zenon
<1>3. ASSUME NEW steps, Suffix(todo, steps), Len(steps) = 7, steps[1] = "find"
      PROVE  FALSE
  <2>1. Len(todo) = 7 /\ Head(todo) = "shut"
    BY <1>5, <1>3 DEF Suffix
  <2>2. todo[1] = steps[7 - 7 + 1] /\ Head(todo) = todo[1]
    BY <1>1, <1>3, <2>1 DEF Suffix
  <2> QED
    BY <1>3, <2>1, <2>2
<1> QED
  BY <1>1, <1>3, SendShape, EventShape

LEMMA OneTurn ==
  ASSUME Turns, NEW c \in Callers, Turn(c), NEW d \in Callers \ {c}, InCall(d)
  PROVE  c = Loop /\ d = Dispatch /\ Head(call[d].todo) = "callback"
BY DEF Turns, Turn, Callers

LEMMA StepTurn ==
  ASSUME Turns, NEW c \in Callers, Step(c)
  PROVE  Turn(c)
<1>1. InCall(c)
  BY DEF Step, At, DoFind, DoLoad, DoStore, DoTest, DoUse, DoUnmap, DoShut, InCall
<1>2. ASSUME c = Dispatch, InCall(Loop)
      PROVE  FALSE
  <2>1. Head(call[c].todo) = "callback"
    BY <1>2 DEF Turns
  <2> QED
    BY <1>2, <2>1 DEF Step, At, DoFind, DoLoad, DoStore, DoTest, DoUse, DoUnmap, DoShut, InCall
<1> QED
  BY <1>1, <1>2 DEF Turn

\* A call goes on with its next step.
Pops(c, s, v) ==
  /\ call' \in [Callers -> Records]
  /\ \A d \in Callers \ {c} : call'[d] = call[d]
  /\ call'[c].todo = Tail(call[c].todo) /\ call'[c].fd = call[c].fd
  /\ call'[c].sock = s /\ call'[c].val = v

LEMMA PopShape ==
  ASSUME Types, Calls, NEW c \in Callers, InCall(c)
  PROVE  /\ \/ call' = [call EXCEPT ![c].todo = Pop(c)]
            \/ call' = [call EXCEPT ![c] = [@ EXCEPT !.todo = Pop(c)]]
            => Pops(c, call[c].sock, call[c].val)
         /\ \A v \in Int : call' = [call EXCEPT ![c].todo = Pop(c), ![c].val = v]
              => Pops(c, call[c].sock, v)
         /\ \A s \in Socks : call' = [call EXCEPT ![c] = [@ EXCEPT !.todo = Pop(c), !.sock = s]]
              => Pops(c, s, call[c].val)
<1> DEFINE todo == Pop(c)
           r == call[c]
           S == Seq(StepNames)
           F == Fds \union {Nil}
           K == Socks \union {Nil}
<1>1. todo \in S /\ todo = Tail(r.todo)
  BY CallFacts, NextStep DEF InCall, Pop
<1>2. r \in Records /\ call \in [Callers -> Records] /\ Records = [todo : S, fd : F, sock : K, val : Int]
  BY DEF Types, Records
<1> HIDE DEF S, F, K, r, todo
<1>3. ASSUME NEW new, new = [r EXCEPT !.todo = todo]
      PROVE  new \in Records /\ new.todo = todo /\ new.fd = r.fd /\ new.sock = r.sock /\ new.val = r.val
  BY <1>1, <1>2, <1>3
<1>4. ASSUME NEW v \in Int, NEW new, new = [r EXCEPT !.todo = todo, !.val = v]
      PROVE  new \in Records /\ new.todo = todo /\ new.fd = r.fd /\ new.sock = r.sock /\ new.val = v
  BY <1>1, <1>2, <1>4
<1>5. ASSUME NEW s \in K, NEW new, new = [r EXCEPT !.todo = todo, !.sock = s]
      PROVE  new \in Records /\ new.todo = todo /\ new.fd = r.fd /\ new.sock = s /\ new.val = r.val
  BY <1>1, <1>2, <1>5
<1>6. ASSUME NEW new \in Records, call' = [call EXCEPT ![c] = new],
             new.todo = todo, new.fd = r.fd
      PROVE  Pops(c, new.sock, new.val)
  <2>1. call'[c] = new /\ (\A d \in Callers \ {c} : call'[d] = call[d]) /\ call' \in [Callers -> Records]
    BY <1>2, <1>6
  <2> QED
    BY <1>1, <1>6, <2>1 DEF Pops, r
<1>7. ASSUME \/ call' = [call EXCEPT ![c].todo = Pop(c)]
             \/ call' = [call EXCEPT ![c] = [@ EXCEPT !.todo = Pop(c)]]
      PROVE  Pops(c, r.sock, r.val)
  <2> DEFINE new == [r EXCEPT !.todo = todo]
  <2>1. call' = [call EXCEPT ![c] = new]
    BY <1>7 DEF r, todo
  <2> HIDE DEF new
  <2>2. new \in Records /\ new.todo = todo /\ new.fd = r.fd /\ new.sock = r.sock /\ new.val = r.val
    BY <1>3 DEF new
  <2> QED
    BY <1>6, <2>1, <2>2
<1>8. ASSUME NEW v \in Int, call' = [call EXCEPT ![c].todo = Pop(c), ![c].val = v]
      PROVE  Pops(c, r.sock, v)
  <2> DEFINE new == [r EXCEPT !.todo = todo, !.val = v]
  <2>1. call' = [call EXCEPT ![c] = new]
    BY <1>2, <1>8 DEF r, todo
  <2> HIDE DEF new
  <2>2. new \in Records /\ new.todo = todo /\ new.fd = r.fd /\ new.sock = r.sock /\ new.val = v
    BY <1>4 DEF new
  <2> QED
    BY <1>6, <2>1, <2>2
<1>9. ASSUME NEW s \in Socks, call' = [call EXCEPT ![c] = [@ EXCEPT !.todo = Pop(c), !.sock = s]]
      PROVE  Pops(c, s, r.val)
  <2> DEFINE new == [r EXCEPT !.todo = todo, !.sock = s]
  <2>1. call' = [call EXCEPT ![c] = new]
    BY <1>9 DEF r, todo
  <2>3. s \in K
    BY DEF K
  <2> HIDE DEF new
  <2>2. new \in Records /\ new.todo = todo /\ new.fd = r.fd /\ new.sock = s /\ new.val = r.val
    BY <1>5, <2>3 DEF new
  <2> QED
    BY <1>6, <2>1, <2>2
<1> QED
  BY <1>7, <1>8, <1>9 DEF r

LEMMA PopKeeps ==
  ASSUME Types, Calls, Turns, NEW c \in Callers, Turn(c), NEW s \in Socks, NEW v \in Int,
         Pops(c, s, v), Tail(call[c].todo) # <<>>, UNCHANGED <<looping, batch>>
  PROVE  /\ call' \in [Callers -> Records] /\ Calls' /\ Turns' /\ Turn(c)'
         /\ call'[c].todo = Tail(call[c].todo) /\ call'[c].fd = call[c].fd
         /\ call'[c].sock = s /\ call'[c].val = v
         /\ \A d \in Callers \ {c} : call'[d] = call[d]
<1> DEFINE todo == call[c].todo
<1>1. /\ Shaped(todo) /\ todo # <<>> /\ todo \in Seq(StepNames)
      /\ call[c].fd \in Fds
  BY CallFacts DEF Turn, InCall, Calls
<1>2. /\ Tail(todo) \in Seq(StepNames)
      /\ Head(Tail(todo)) # "find"
  BY <1>1, NextStep DEF Follows
<1>3. /\ call'[c].todo = Tail(todo) /\ call'[c].fd = call[c].fd
      /\ call'[c].sock = s /\ call'[c].val = v
      /\ \A d \in Callers \ {c} : call'[d] = call[d]
      /\ call' \in [Callers -> Records]
  BY DEF Pops
<1>4. ASSUME NEW steps \in Seq(StepNames), Suffix(todo, steps)
      PROVE  Suffix(call'[c].todo, steps)
  BY <1>1, <1>3, <1>4, SuffixTail
<1>5. s # Nil
  BY RefAssumption
<1>6. Calls'
  <2>1. Suffix(call'[Dispatch].todo, EventSteps)
    BY <1>3, <1>4, EventShape DEF Calls, Callers
  <2>2. ASSUME NEW t \in Threads
        PROVE  Suffix(call'[t].todo, SendSteps)
                 \/ (t = Loop /\ Suffix(call'[t].todo, CloseSteps))
    BY <1>3, <1>4, SendShape, CloseShape DEF Calls, Callers
  <2>3. \A d \in Callers : call'[d].todo = <<>> => call'[d].sock = Nil
    BY <1>3 DEF Calls
  <2>4. \A d \in Callers : call'[d].todo # <<>> =>
          /\ call'[d].fd \in Fds
          /\ (call'[d].sock = Nil <=> Head(call'[d].todo) = "find")
    BY <1>1, <1>2, <1>3, <1>5 DEF Calls, InCall
  <2> QED
    BY <2>1, <2>2, <2>3, <2>4 DEF Calls, InCall
<1>7. \A d \in Callers : InCall(d)' <=> InCall(d)
  BY <1>1, <1>3 DEF InCall
<1>8. Dispatch \in Callers /\ Loop \in Callers
  BY RefAssumption DEF Callers
<1>9. InCall(Loop) => call'[Dispatch] = call[Dispatch]
  BY <1>3, <1>8 DEF Turn
<1>10. Turns' /\ Turn(c)'
  BY <1>7, <1>8, <1>9 DEF Turns, Turn, Callers
<1> QED
  BY <1>3, <1>6, <1>10

\* A call returns.
LEMMA ReturnKeeps ==
  ASSUME Types, Calls, Turns, NEW c \in Callers, Turn(c),
         call' = [call EXCEPT ![c] = Idle],
         batch' = IF c = Dispatch THEN Tail(batch) ELSE batch, UNCHANGED looping
  PROVE  /\ call' \in [Callers -> Records] /\ Calls' /\ Turns'
         /\ call'[c] = Idle /\ ~InCall(c)'
         /\ \A d \in Callers \ {c} : call'[d] = call[d] /\ (InCall(d)' <=> InCall(d))
<1>1. Idle \in Records /\ Idle.todo = <<>> /\ Idle.sock = Nil
  BY DEF Idle, Records
<1>2. /\ call'[c] = Idle
      /\ \A d \in Callers \ {c} : call'[d] = call[d]
      /\ call' \in [Callers -> Records]
  BY <1>1 DEF Types
<1>3. ~InCall(c)' /\ \A d \in Callers \ {c} : InCall(d)' <=> InCall(d)
  BY <1>1, <1>2 DEF InCall
<1>4. \A steps \in {SendSteps, CloseSteps, EventSteps} : Suffix(call'[c].todo, steps)
  <2>1. ASSUME NEW steps, steps \in Seq(StepNames), Len(steps) >= 1, steps[1] = "find"
        PROVE  Suffix(<<>>, steps)
    BY <2>1, WholeCall
  <2>2. Suffix(<<>>, SendSteps)
    BY <2>1, SendShape
  <2>3. Suffix(<<>>, CloseSteps)
    BY <2>1, CloseShape
  <2>4. Suffix(<<>>, EventSteps)
    BY <2>1, EventShape
  <2>5. call'[c].todo = <<>>
    BY <1>1, <1>2
  <2> QED
    BY <2>2, <2>3, <2>4, <2>5
<1>5. Dispatch \in Callers /\ Loop \in Callers /\ Dispatch # Loop
  BY RefAssumption DEF Callers
<1>6. Calls'
  <2>1. Suffix(call'[Dispatch].todo, EventSteps)
    BY <1>2, <1>4, <1>5 DEF Calls
  <2>2. ASSUME NEW t \in Threads
        PROVE  Suffix(call'[t].todo, SendSteps)
                 \/ (t = Loop /\ Suffix(call'[t].todo, CloseSteps))
    BY <1>2, <1>4 DEF Calls, Callers
  <2>3. \A d \in Callers : call'[d].todo = <<>> => call'[d].sock = Nil
    BY <1>1, <1>2 DEF Calls
  <2>4. \A d \in Callers : call'[d].todo # <<>> =>
          /\ call'[d].fd \in Fds
          /\ (call'[d].sock = Nil <=> Head(call'[d].todo) = "find")
    BY <1>1, <1>2 DEF Calls, InCall
  <2> QED
    BY <2>1, <2>2, <2>3, <2>4 DEF Calls, InCall
<1>7. Turns'
  <2>1. InCall(Loop)' => InCall(Dispatch)' /\ Head(call'[Dispatch].todo) = "callback"
    BY <1>2, <1>3, <1>5 DEF Turns, Turn
  <2>2. \A t \in Threads \ {Loop} : InCall(t)' => \A d \in Callers \ {t} : ~InCall(d)'
    BY <1>3 DEF Turns, Callers
  <2>3. InCall(Dispatch)' => looping' /\ batch' # <<>>
    BY <1>3, <1>5 DEF Turns
  <2>4. ~looping' => batch' = <<>>
    BY <1>3, <1>5 DEF Turns, Turn
  <2> QED
    BY <2>1, <2>2, <2>3, <2>4 DEF Turns
<1> QED
  BY <1>2, <1>3, <1>6, <1>7

\* Who may make which call, and when.
MayBegin(c, steps) ==
  \/ /\ c = Dispatch /\ steps = EventSteps
     /\ looping /\ batch # <<>> /\ \A d \in Callers : ~InCall(d)
  \/ /\ c = Loop /\ steps \in {SendSteps, CloseSteps} /\ ~InCall(Loop)
     /\ InCall(Dispatch) /\ Head(call[Dispatch].todo) = "callback"
  \/ /\ c \in Threads \ {Loop} /\ steps = SendSteps
     /\ \A d \in Callers : ~InCall(d)

LEMMA BeginKeeps ==
  ASSUME Types, Calls, Turns, NEW c \in Callers, NEW f \in Fds, NEW steps,
         MayBegin(c, steps), Called(c, f, steps), UNCHANGED <<looping, batch>>
  PROVE  /\ call' \in [Callers -> Records] /\ Calls' /\ Turns' /\ Turn(c)'
         /\ call'[c].todo = steps /\ call'[c].fd = f /\ call'[c].sock = Nil
         /\ Head(steps) = "find" /\ Held(steps) = 0
         /\ \A d \in Callers \ {c} : call'[d] = call[d]
         /\ \A d \in Callers \ {c} : InCall(d) => c = Loop /\ d = Dispatch
<1>1. /\ steps \in Seq(StepNames) /\ Len(steps) >= 1 /\ steps[1] = "find"
      /\ steps \in {SendSteps, CloseSteps, EventSteps}
      /\ c = Dispatch => steps = EventSteps
      /\ c \in Threads => steps = SendSteps \/ (c = Loop /\ steps = CloseSteps)
  BY SendShape, CloseShape, EventShape, RefAssumption DEF MayBegin
<1>2. steps # <<>> /\ Head(steps) = "find" /\ Suffix(steps, steps)
  BY <1>1, WholeCall
<1>3. Held(steps) = 0
  BY <1>2 DEF Held
<1>4. /\ call'[c].todo = steps /\ call'[c].fd = f /\ call'[c].sock = Nil
      /\ \A d \in Callers \ {c} : call'[d] = call[d]
      /\ call' \in [Callers -> Records]
  <2> DEFINE r == [Idle EXCEPT !.todo = steps, !.fd = f]
  <2>1. r \in Records /\ r.todo = steps /\ r.fd = f /\ r.sock = Nil
    <3> DEFINE S == Seq(StepNames)
               F == Fds \union {Nil}
               K == Socks \union {Nil}
    <3>1. steps \in S /\ f \in F /\ Nil \in K
      BY <1>1
    <3>2. ASSUME NEW none, NEW zero \in Int, NEW idle,
                 idle = [todo |-> none, fd |-> Nil, sock |-> Nil, val |-> zero],
                 NEW new, new = [idle EXCEPT !.todo = steps, !.fd = f]
          PROVE  /\ new \in [todo : S, fd : F, sock : K, val : Int]
                 /\ new.todo = steps /\ new.fd = f /\ new.sock = Nil
      <4> HIDE DEF S, F, K
      <4> QED
        BY <3>1, <3>2
    <3>3. Idle = [todo |-> <<>>, fd |-> Nil, sock |-> Nil, val |-> 0] /\ 0 \in Int
      BY DEF Idle
    <3>4. Records = [todo : S, fd : F, sock : K, val : Int]
      BY DEF Records
    <3> QED
      BY <3>2, <3>3, <3>4, Zenon
  <2>2. call' = [call EXCEPT ![c] = r] /\ call \in [Callers -> Records]
    BY DEF Called, Types
  <2> HIDE DEF r
  <2>3. call'[c] = r /\ (\A d \in Callers \ {c} : call'[d] = call[d]) /\ call' \in [Callers -> Records]
    BY <2>1, <2>2
  <2> QED
    BY <2>1, <2>3
<1>5. Dispatch \in Callers /\ Loop \in Callers /\ Dispatch # Loop
  BY RefAssumption DEF Callers
<1>6. Calls'
  <2>1. Suffix(call'[Dispatch].todo, EventSteps)
    BY <1>1, <1>2, <1>4, <1>5 DEF Calls
  <2>2. ASSUME NEW t \in Threads
        PROVE  Suffix(call'[t].todo, SendSteps)
                 \/ (t = Loop /\ Suffix(call'[t].todo, CloseSteps))
    BY <1>1, <1>2, <1>4 DEF Calls, Callers
  <2>3. \A d \in Callers : call'[d].todo = <<>> => call'[d].sock = Nil
    BY <1>4 DEF Calls
  <2>4. \A d \in Callers : call'[d].todo # <<>> =>
          /\ call'[d].fd \in Fds
          /\ (call'[d].sock = Nil <=> Head(call'[d].todo) = "find")
    BY <1>2, <1>4 DEF Calls, InCall
  <2> QED
    BY <2>1, <2>2, <2>3, <2>4 DEF Calls, InCall
<1>7. InCall(c)' /\ \A d \in Callers \ {c} : InCall(d)' <=> InCall(d)
  BY <1>2, <1>4 DEF InCall
<1>8. \A d \in Callers \ {c} : InCall(d) => c = Loop /\ d = Dispatch
  BY <1>5 DEF MayBegin, Turns, Callers
<1>9. Turns' /\ Turn(c)'
  <2>1. InCall(Loop)' => InCall(Dispatch)' /\ Head(call'[Dispatch].todo) = "callback"
    BY <1>4, <1>5, <1>7, <1>8 DEF MayBegin
  <2>2. ASSUME NEW t \in Threads \ {Loop}, InCall(t)', NEW d \in Callers \ {t}, InCall(d)'
        PROVE  FALSE
    <3>1. t \in Callers /\ t # Dispatch
      BY RefAssumption DEF Callers
    <3>2. CASE t = c
      <4>1. InCall(d)
        BY <1>7, <2>2, <3>2
      <4> QED
        BY <1>8, <3>2, <4>1
    <3>3. CASE t # c
      <4>1. InCall(t)
        BY <1>7, <2>2, <3>1, <3>3
      <4> QED
        BY <1>8, <3>1, <3>3, <4>1
    <3> QED
      BY <3>2, <3>3
  <2>3. (InCall(Dispatch)' => looping' /\ batch' # <<>>) /\ (~looping' => batch' = <<>>)
    <3>1. InCall(Dispatch) => looping /\ batch # <<>>
      BY DEF Turns
    <3>2. ~looping => batch = <<>>
      BY DEF Turns
    <3>3. InCall(Dispatch)' => InCall(Dispatch) \/ c = Dispatch
      BY <1>5, <1>7
    <3>4. c = Dispatch => looping /\ batch # <<>>
      BY <1>5, RefAssumption DEF MayBegin
    <3> QED
      BY <3>1, <3>2, <3>3, <3>4
  <2>4. Turn(c)'
    BY <1>5, <1>7 DEF Turn, MayBegin
  <2> QED
    BY <2>1, <2>2, <2>3, <2>4 DEF Turns
<1> QED
  BY <1>2, <1>3, <1>4, <1>6, <1>8, <1>9

-----------------------------------------------------------------------------
(* What a step of one caller means for the others.                         *)

LEMMA Names == Dispatch \in Callers /\ Loop \in Callers /\ Dispatch # Loop /\ Nil \notin Socks
BY RefAssumption DEF Callers

LEMMA TurnFacts ==
  ASSUME SockInv, NEW c \in Callers, Turn(c)
  PROVE  /\ Shaped(call[c].todo) /\ call[c].todo # <<>> /\ call[c].fd \in Fds
         /\ call[c].sock \in Socks \union {Nil} /\ call[c].val \in Int
         /\ CountsBy(c) /\ FoundBy(c)
         /\ call[c].sock = Nil <=> Head(call[c].todo) = "find"
         /\ \A d \in Callers \ {c} : InCall(d) =>
              /\ c = Loop /\ d = Dispatch /\ Head(call[d].todo) = "callback"
              /\ call[d].sock \in Socks /\ Live(call[d].sock) /\ Held(call[d].todo) = 1
<1>1. Types /\ Calls /\ Turns /\ Found /\ Counts
  BY DEF SockInv
<1>2. InCall(c) /\ call[c].todo # <<>>
  BY DEF Turn, InCall
<1>3. /\ Shaped(call[c].todo) /\ call[c].sock \in Socks \union {Nil} /\ call[c].val \in Int
  BY <1>1, CallFacts
<1>4. call[c].fd \in Fds /\ (call[c].sock = Nil <=> Head(call[c].todo) = "find")
  BY <1>1, <1>2 DEF Calls
<1>5. CountsBy(c) /\ FoundBy(c)
  BY <1>1 DEF Counts, Found
<1>6. ASSUME NEW d \in Callers \ {c}, InCall(d)
      PROVE  /\ c = Loop /\ d = Dispatch /\ Head(call[d].todo) = "callback"
             /\ call[d].sock \in Socks /\ Live(call[d].sock) /\ Held(call[d].todo) = 1
  <2>1. c = Loop /\ d = Dispatch /\ Head(call[d].todo) = "callback"
    BY <1>1, <1>6, OneTurn
  <2>2. call[d].sock # Nil
    BY <1>1, <1>6, <2>1 DEF Calls
  <2>3. Live(call[d].sock) /\ call[d].sock \in Socks
    BY <1>1, <1>6, <2>2 DEF Found, FoundBy, Live
  <2>4. Held(call[d].todo) = 1
    BY <1>6, <2>1 DEF Held, InCall
  <2> QED
    BY <2>1, <2>3, <2>4
<1> QED
  BY <1>2, <1>3, <1>4, <1>5, <1>6

LEMMA CountsFrom ==
  ASSUME Turns', NEW c \in Callers, Turn(c)', CountsBy(c)'
  PROVE  Counts'
<1>1. InCall(c)'
  BY DEF Turn
<1>2. ASSUME NEW d \in Callers, Turn(d)'
      PROVE  d = c
  BY <1>1, <1>2, Names DEF Turns, Turn, Callers
<1> QED
  BY <1>1, <1>2 DEF Counts

\* The others wait in a callback, and their object has to stay.
LEMMA FoundFrom ==
  ASSUME SockInv, NEW c \in Callers, FoundBy(c)',
         \A d \in Callers \ {c} : call'[d] = call[d],
         \A d \in Callers \ {c} : InCall(d) =>
           /\ d = Dispatch /\ Head(call[d].todo) = "callback"
           /\ state'[call[d].sock] \notin {"none", "deleted"}
           /\ mSocket'[call[d].sock] = mSocket[call[d].sock]
  PROVE  Found'
<1>1. ASSUME NEW d \in Callers, d # c, InCall(d)', call'[d].sock # Nil
      PROVE  FoundBy(d)'
  <2>1. call'[d] = call[d] /\ InCall(d) /\ call[d].sock # Nil
    BY <1>1 DEF InCall
  <2>2. /\ d = Dispatch /\ Head(call[d].todo) = "callback"
        /\ state'[call[d].sock] \notin {"none", "deleted"}
        /\ mSocket'[call[d].sock] = mSocket[call[d].sock]
    BY <1>1, <2>1
  <2>3. Live(call[d].sock) /\ mSocket[call[d].sock] = call[d].fd
    BY <2>1 DEF SockInv, Found, FoundBy
  <2>4. ~(Len(call[d].todo) > 7)
    <3>1. Len(call[d].todo) <= 7 /\ call[d].todo \in Seq(StepNames)
      BY <2>2, EventShape, CallFacts DEF SockInv, Calls, Suffix
    <3>2. Len(call[d].todo) \in Nat
      BY <3>1
    <3> QED
      BY <3>1, <3>2
  <2> QED
    BY <2>1, <2>2, <2>3, <2>4 DEF FoundBy, Live
<1> QED
  BY <1>1 DEF Found, FoundBy

\* A call that goes on leaves the events as they were.
LEMMA BatchFrom ==
  ASSUME SockInv, NEW c \in Callers, Turn(c), NEW s \in Socks, NEW v \in Int, Pops(c, s, v),
         Tail(call[c].todo) # <<>>, UNCHANGED <<state, batch>>,
         call[c].sock \in {Nil, s}, c = Dispatch => s = batch[1].sock,
         \A i \in 1..Len(batch) : kernel[batch[i].fd] = batch[i].sock =>
           \/ kernel'[batch[i].fd] = batch[i].sock
           \/ i = 1 /\ c = Loop /\ state[batch[1].sock] # "listening",
         UNCHANGED looping
  PROVE  Batch'
<1>1. /\ Turn(c)'
      /\ call'[c].todo = Tail(call[c].todo) /\ call'[c].fd = call[c].fd /\ call'[c].sock = s
      /\ \A d \in Callers \ {c} : call'[d] = call[d]
  BY PopKeeps DEF SockInv
<1>2. /\ call[c].todo # <<>> /\ Shaped(call[c].todo)
      /\ Follows(Head(call[c].todo), Len(call[c].todo), Head(Tail(call[c].todo)))
      /\ Len(Tail(call[c].todo)) = Len(call[c].todo) - 1 /\ Len(call[c].todo) \in 1..11
  BY TurnFacts, NextStep
<1>3. \A d \in Callers : InCall(d)' <=> InCall(d)
  BY <1>1, <1>2 DEF InCall
<1>4. InCall(Dispatch) => call'[Dispatch].fd = call[Dispatch].fd
  BY <1>1, Names
<1>5. InCall(Dispatch) /\ call'[Dispatch].sock # Nil => call'[Dispatch].sock = batch[1].sock
  BY <1>1, Names DEF SockInv, Batch
<1>6. InCall(Dispatch) /\ call[Dispatch].sock # Nil => call'[Dispatch].sock # Nil
  BY <1>1, Names
<1>7. c = Loop => InCall(Dispatch) /\ call[Dispatch].sock # Nil
  BY Names DEF SockInv, Turns, Turn, Calls
<1>8. (Len(call'[Loop].todo) > 7 \/ (InCall(Loop)' /\ Head(call'[Loop].todo) = "shut"))
        => Len(call[Loop].todo) > 7 \/ (InCall(Loop) /\ Head(call[Loop].todo) = "shut")
  <2>1. CASE c = Loop
    <3>1. ASSUME NEW h, NEW n \in 1..11, NEW next, Follows(h, n, next), n # 1,
                 n - 1 > 7 \/ next = "shut"
          PROVE  n > 7
      BY <3>1 DEF Follows
    <3>2. Len(call[c].todo) # 1
      BY <1>2, NextStep
    <3> QED
      BY <1>1, <1>2, <2>1, <3>1, <3>2
  <2>2. CASE c # Loop
    BY <1>1, <1>3, <2>2, Names
  <2> QED
    BY <2>1, <2>2
<1>9. call'[Loop].fd = call[Loop].fd
  BY <1>1, Names
<1>10. \A i \in 1..Len(batch) :
         \/ kernel'[batch[i].fd] = batch[i].sock
         \/ /\ i = 1 /\ InCall(Dispatch) /\ call'[Dispatch].sock # Nil
            /\ state[batch[1].sock] # "listening"
  BY <1>6, <1>7 DEF SockInv, Batch
<1>11. Batch /\ batch' = batch /\ state' = state
  BY DEF SockInv
<1>12. /\ InCall(Dispatch)' <=> InCall(Dispatch)
       /\ InCall(Loop)' <=> InCall(Loop)
  BY <1>3, Names
<1>13. InCall(Dispatch)' => call'[Dispatch].fd = batch'[1].fd
  BY <1>4, <1>11, <1>12 DEF Batch
<1>14. (Len(call'[Loop].todo) > 7 \/ (InCall(Loop)' /\ Head(call'[Loop].todo) = "shut"))
         => call'[Loop].fd = batch'[1].fd /\ state'[batch'[1].sock] # "listening"
  BY <1>8, <1>9, <1>11 DEF Batch
<1>15. \A i, j \in 1..Len(batch') : batch'[i].fd = batch'[j].fd => i = j
  BY <1>11 DEF Batch
<1> QED
  BY <1>5, <1>10, <1>11, <1>12, <1>13, <1>14, <1>15 DEF Batch

\* So it is enough to look at what the call itself is about.
LEMMA GoesOn ==
  ASSUME SockInv, NEW c \in Callers, Turn(c), NEW s \in Socks, NEW v \in Int, Pops(c, s, v),
         Tail(call[c].todo) # <<>>, UNCHANGED <<state, mSocket, handles, looping, batch>>,
         refCount' \in [Socks -> Nat], socketMap' \in [Fds -> Socks \union {Nil}],
         kernel' \in [Fds -> Socks \union {Nil}],
         call[c].sock \in {Nil, s}, c = Dispatch => s = batch[1].sock,
         \A i \in 1..Len(batch) : kernel[batch[i].fd] = batch[i].sock =>
           \/ kernel'[batch[i].fd] = batch[i].sock
           \/ i = 1 /\ c = Loop /\ state[batch[1].sock] # "listening",
         FoundBy(c)', CountsBy(c)', Table'
  PROVE  SockInv'
<1>1. /\ call' \in [Callers -> Records] /\ Calls' /\ Turns' /\ Turn(c)'
      /\ \A d \in Callers \ {c} : call'[d] = call[d]
  BY PopKeeps DEF SockInv
<1>2. Types'
  BY <1>1 DEF SockInv, Types
<1>3. Found'
  <2>1. \A d \in Callers \ {c} : InCall(d) =>
          /\ d = Dispatch /\ Head(call[d].todo) = "callback"
          /\ state'[call[d].sock] \notin {"none", "deleted"}
          /\ mSocket'[call[d].sock] = mSocket[call[d].sock]
    BY TurnFacts DEF Live
  <2> QED
    BY <1>1, <2>1, FoundFrom
<1>4. Counts'
  BY <1>1, CountsFrom
<1>5. Batch'
  BY BatchFrom
<1> QED
  BY <1>1, <1>2, <1>3, <1>4, <1>5 DEF SockInv

-----------------------------------------------------------------------------
(* Each step of a call.                                                    *)

\* A step that is not the last, and the object it works on.
LEMMA MidStep ==
  ASSUME SockInv, NEW c \in Callers, Turn(c), NEW s \in Socks, NEW v \in Int, Pops(c, s, v),
         Tail(call[c].todo) # <<>>
  PROVE  LET h == Head(call[c].todo)
             n == Len(call[c].todo)
             g == Head(Tail(call[c].todo))
         IN  /\ n \in 2..11 /\ Follows(h, n, g)
             /\ call'[c].todo = Tail(call[c].todo) /\ call'[c].fd = call[c].fd
             /\ call'[c].sock = s /\ call'[c].val = v
             /\ Head(call'[c].todo) = g /\ Len(call'[c].todo) = n - 1
             /\ \A d \in Callers \ {c} : call'[d] = call[d]
             /\ InCall(c)'
             /\ call[c].sock = Nil <=> h = "find"
<1>1. /\ Shaped(call[c].todo) /\ call[c].todo # <<>>
      /\ call[c].sock = Nil <=> Head(call[c].todo) = "find"
  BY TurnFacts
<1>2. /\ Len(call[c].todo) \in 1..11 /\ Len(Tail(call[c].todo)) = Len(call[c].todo) - 1
      /\ (Tail(call[c].todo) = <<>> <=> Len(call[c].todo) = 1)
      /\ Follows(Head(call[c].todo), Len(call[c].todo), Head(Tail(call[c].todo)))
  BY <1>1, NextStep
<1> QED
  BY <1>1, <1>2 DEF Pops, InCall

LEMMA FoundOn ==
  ASSUME NEW c, NEW s \in Socks, call'[c].sock = s, state'[s] \notin {"none", "deleted"},
         mSocket'[s] = call'[c].fd,
         NEW h, NEW n \in Nat, Head(call'[c].todo) = h, Len(call'[c].todo) = n,
         h = "inc" => call'[c].val = refCount'[s] + 1,
         h = "dec" => call'[c].val = refCount'[s] - 1,
         n > 7 => socketMap'[call'[c].fd] = s,
         h = "shut" => kernel'[call'[c].fd] = s /\ socketMap'[call'[c].fd] = Nil
  PROVE  FoundBy(c)'
BY DEF FoundBy, Live

\* What each caller holds after a step.
LEMMA HoldsNext ==
  ASSUME SockInv, NEW c \in Callers, Turn(c), NEW s \in Socks, NEW v \in Int, Pops(c, s, v),
         Tail(call[c].todo) # <<>>, call[c].sock \in {Nil, s}, NEW x \in Socks
  PROVE  /\ x # s => HeldOf(c, x)' = 0 /\ HeldOf(c, x) = 0
         /\ HeldOf(c, s)' = Held(Tail(call[c].todo)) /\ HeldOf(c, s) = Held(call[c].todo)
         /\ c = Loop => HeldOf(Dispatch, x)' = HeldOf(Dispatch, x)
         /\ HeldOf(c, x) \in Nat /\ HeldOf(c, x)' \in Nat /\ HeldOf(Dispatch, x) \in Nat
<1>1. /\ call'[c].todo = Tail(call[c].todo) /\ call'[c].sock = s
      /\ \A d \in Callers \ {c} : call'[d] = call[d]
      /\ (call[c].sock = Nil <=> Head(call[c].todo) = "find")
  BY MidStep
<1>2. /\ Held(call[c].todo) \in 0..2 /\ Held(Tail(call[c].todo)) \in 0..2
      /\ Head(call[c].todo) = "find" => Held(call[c].todo) = 0
  BY TurnFacts, HeldNext
<1>3. HeldOf(Dispatch, x) \in Nat
  <2>1. Held(call[Dispatch].todo) \in Nat
    <3>1. CASE call[Dispatch].todo = <<>>
      BY <3>1 DEF Held
    <3>2. CASE call[Dispatch].todo # <<>>
      <4>1. Shaped(call[Dispatch].todo)
        BY CallFacts, Names DEF SockInv
      <4> QED
        BY <3>2, <4>1, HeldNext
    <3> QED
      BY <3>1, <3>2
  <2> QED
    BY <2>1 DEF HeldOf
<1>4. c = Loop => HeldOf(Dispatch, x)' = HeldOf(Dispatch, x)
  BY <1>1, Names DEF HeldOf
<1>5. Nil # s /\ Nil # x
  BY Names
<1>6. /\ x # s => HeldOf(c, x)' = 0 /\ HeldOf(c, x) = 0
      /\ HeldOf(c, s)' = Held(Tail(call[c].todo)) /\ HeldOf(c, s) = Held(call[c].todo)
      /\ HeldOf(c, x) \in Nat /\ HeldOf(c, x)' \in Nat
  BY <1>1, <1>2, <1>5 DEF HeldOf
<1> QED
  BY <1>3, <1>4, <1>6

\* Steps that only read, or that do nothing with the counts and tables.
LEMMA QuietKeeps ==
  ASSUME SockInv, NEW c \in Callers, Turn(c), NEW s \in Socks, call[c].sock = s, NEW v \in Int,
         Pops(c, s, v), Tail(call[c].todo) # <<>>,
         Head(call[c].todo) \in {"load", "drop", "use", "callback", "test"},
         Head(call[c].todo) = "load" => v = refCount[s] + 1,
         Head(call[c].todo) = "drop" => v = refCount[s] - 1,
         UNCHANGED <<state, refCount, mSocket, socketMap, kernel, handles, looping, batch>>
  PROVE  SockInv'
<1> DEFINE todo == call[c].todo
<1>1. s # Nil
  BY Names
<1>2. InCall(c) /\ Live(s) /\ mSocket[s] = call[c].fd
  BY <1>1 DEF SockInv, Found, FoundBy, Turn
<1>3. /\ Follows(Head(todo), Len(todo), Head(Tail(todo))) /\ Len(todo) \in 2..11
      /\ call'[c].sock = s /\ call'[c].fd = call[c].fd /\ call'[c].val = v
      /\ Head(call'[c].todo) = Head(Tail(todo)) /\ Len(call'[c].todo) = Len(todo) - 1
      /\ call'[c].todo = Tail(todo)
  BY <1>1, MidStep
<1>4. FoundBy(c)'
  <2>1. /\ Head(Tail(todo)) = "inc" => Head(todo) = "load"
        /\ Head(Tail(todo)) = "dec" => Head(todo) = "drop"
        /\ Head(Tail(todo)) # "shut"
    <3>1. ASSUME NEW h, NEW n \in 2..11, NEW next, Follows(h, n, next),
                 h \in {"load", "drop", "use", "callback", "test"}
          PROVE  /\ next = "inc" => h = "load"
                 /\ next = "dec" => h = "drop"
                 /\ next # "shut"
      BY <3>1 DEF Follows
    <3> QED
      BY <1>3, <3>1
  <2>2. Len(todo) > 7 => socketMap[call[c].fd] = s
    BY <1>1, <1>2 DEF SockInv, Found, FoundBy
  <2>3. Live(s)'
    BY <1>2 DEF Live
  <2>4. Len(todo) - 1 > 7 => Len(todo) > 7
    BY <1>3
  <2> HIDE DEF todo
  <2> QED
    BY <1>2, <1>3, <2>1, <2>2, <2>3, <2>4 DEF FoundBy, todo
<1>5. CountsBy(c)'
  <2> SUFFICES ASSUME NEW x \in Socks, Live(x)
               PROVE  /\ refCount[x] = Entry(x)' + HeldOf(c, x)'
                                         + (IF c = Loop THEN HeldOf(Dispatch, x)' ELSE 0)
                      /\ refCount[x] # 0
    BY DEF CountsBy, Live
  <2>1. /\ refCount[x] = Entry(x) + HeldOf(c, x) + (IF c = Loop THEN HeldOf(Dispatch, x) ELSE 0)
        /\ refCount[x] = 0 => call[c].sock = x /\ Head(todo) = "test"
    BY TurnFacts DEF CountsBy
  <2>2. /\ x # s => HeldOf(c, x)' = 0 /\ HeldOf(c, x) = 0
        /\ HeldOf(c, s)' = Held(Tail(todo)) /\ HeldOf(c, s) = Held(todo)
        /\ c = Loop => HeldOf(Dispatch, x)' = HeldOf(Dispatch, x)
        /\ HeldOf(c, x) \in Nat /\ HeldOf(Dispatch, x) \in Nat
    BY <1>1, HoldsNext
  <2>3. Held(Tail(todo)) = Held(todo) /\ (Head(todo) = "test" => Held(todo) # 0) /\ Held(todo) \in 0..2
    BY HeldNext, TurnFacts
  <2>4. Entry(x)' = Entry(x) /\ Entry(x) \in {0, 1}
    BY DEF Entry
  <2> HIDE DEF todo
  <2>5. HeldOf(c, x)' = HeldOf(c, x)
    BY <2>2, <2>3
  <2>6. refCount[x] # 0
    <3>1. CASE refCount[x] = 0
      <4>1. x = s /\ HeldOf(c, x) # 0
        BY <2>1, <2>2, <2>3, <3>1
      <4> QED
        BY <2>1, <2>2, <2>4, <3>1, <4>1
    <3> QED
      BY <3>1
  <2> QED
    BY <2>1, <2>2, <2>4, <2>5, <2>6
<1>6. Table'
  BY DEF SockInv, Table, Live
<1>7. c = Dispatch => s = batch[1].sock
  BY <1>1, <1>2 DEF SockInv, Batch
<1>8. refCount' \in [Socks -> Nat] /\ socketMap' \in [Fds -> Socks \union {Nil}]
       /\ kernel' \in [Fds -> Socks \union {Nil}]
  BY DEF SockInv, Types
<1> QED
  BY <1>4, <1>5, <1>6, <1>7, <1>8, GoesOn

\* A lookup that finds an object.
LEMMA FindKeeps ==
  ASSUME SockInv, NEW c \in Callers, Turn(c), At(c, "find"), NEW s \in Socks,
         socketMap[call[c].fd] = s, Pops(c, s, call[c].val), Tail(call[c].todo) # <<>>,
         UNCHANGED <<state, refCount, mSocket, socketMap, kernel, handles, looping, batch>>
  PROVE  SockInv'
<1> DEFINE todo == call[c].todo
           v == call[c].val
<1>1. /\ Head(todo) = "find" /\ call[c].sock = Nil /\ s # Nil /\ call[c].fd \in Fds /\ v \in Int
  BY TurnFacts, Names DEF At
<1>2. Live(s) /\ mSocket[s] = call[c].fd /\ kernel[call[c].fd] = s
  BY <1>1 DEF SockInv, Table
<1>3. /\ Follows(Head(todo), Len(todo), Head(Tail(todo))) /\ Len(todo) \in 2..11
      /\ call'[c].sock = s /\ call'[c].fd = call[c].fd
      /\ Head(call'[c].todo) = Head(Tail(todo)) /\ Len(call'[c].todo) = Len(todo) - 1
      /\ call'[c].todo = Tail(todo)
  BY <1>1, MidStep
<1>4. FoundBy(c)'
  <2>1. Head(Tail(todo)) = "load"
    BY <1>1, <1>3 DEF Follows
  <2>2. Live(s)'
    BY <1>2 DEF Live
  <2> HIDE DEF todo
  <2> QED
    BY <1>2, <1>3, <2>1, <2>2 DEF FoundBy
<1>5. CountsBy(c)'
  <2> SUFFICES ASSUME NEW x \in Socks, Live(x)
               PROVE  /\ refCount[x] = Entry(x)' + HeldOf(c, x)'
                                         + (IF c = Loop THEN HeldOf(Dispatch, x)' ELSE 0)
                      /\ refCount[x] # 0
    BY DEF CountsBy, Live
  <2>1. /\ refCount[x] = Entry(x) + HeldOf(c, x) + (IF c = Loop THEN HeldOf(Dispatch, x) ELSE 0)
        /\ refCount[x] = 0 => call[c].sock = x
    BY TurnFacts DEF CountsBy
  <2>2. /\ x # s => HeldOf(c, x)' = 0 /\ HeldOf(c, x) = 0
        /\ HeldOf(c, s)' = Held(Tail(todo)) /\ HeldOf(c, s) = Held(todo)
        /\ c = Loop => HeldOf(Dispatch, x)' = HeldOf(Dispatch, x)
    BY <1>1, HoldsNext
  <2>3. Held(Tail(todo)) = Held(todo)
    BY <1>1, HeldNext, TurnFacts
  <2>4. Entry(x)' = Entry(x)
    BY DEF Entry
  <2>5. HeldOf(c, x)' = HeldOf(c, x)
    BY <2>2, <2>3
  <2>6. refCount[x] # 0
    BY <1>1, <2>1, Names
  <2> QED
    BY <2>1, <2>2, <2>4, <2>5, <2>6
<1>6. Table'
  BY DEF SockInv, Table, Live
<1>7. c = Dispatch => s = batch[1].sock
  <2> SUFFICES ASSUME c = Dispatch
               PROVE  s = batch[1].sock
    OBVIOUS
  <2>1. InCall(Dispatch) /\ batch # <<>> /\ call[Dispatch].fd = batch[1].fd /\ batch \in Seq(Events)
    BY DEF SockInv, Turn, Turns, Batch, Types
  <2>2. 1 \in 1..Len(batch)
    BY <2>1
  <2>3. kernel[batch[1].fd] = batch[1].sock
    BY <1>1, <2>2 DEF SockInv, Batch
  <2> QED
    BY <1>2, <2>1, <2>3
<1>8. refCount' \in [Socks -> Nat] /\ socketMap' \in [Fds -> Socks \union {Nil}]
       /\ kernel' \in [Fds -> Socks \union {Nil}]
  BY DEF SockInv, Types
<1> QED
  BY <1>1, <1>4, <1>5, <1>6, <1>7, <1>8, GoesOn

\* The store of a count.
LEMMA StoreKeeps ==
  ASSUME SockInv, NEW c \in Callers, Turn(c), NEW s \in Socks, call[c].sock = s,
         Head(call[c].todo) \in {"inc", "dec"},
         refCount' = [refCount EXCEPT ![s] = call[c].val],
         Pops(c, s, call[c].val), Tail(call[c].todo) # <<>>,
         UNCHANGED <<state, mSocket, socketMap, kernel, handles, looping, batch>>
  PROVE  SockInv'
<1> DEFINE todo == call[c].todo
           v == call[c].val
<1>1. s # Nil /\ v \in Int
  BY TurnFacts, Names
<1>2. /\ InCall(c) /\ Live(s) /\ mSocket[s] = call[c].fd
      /\ Head(todo) = "inc" => v = refCount[s] + 1
      /\ Head(todo) = "dec" => v = refCount[s] - 1
  BY <1>1 DEF SockInv, Found, FoundBy, Turn
<1>3. /\ Follows(Head(todo), Len(todo), Head(Tail(todo))) /\ Len(todo) \in 2..11
      /\ call'[c].sock = s /\ call'[c].fd = call[c].fd /\ call'[c].val = v
      /\ Head(call'[c].todo) = Head(Tail(todo)) /\ Len(call'[c].todo) = Len(todo) - 1
      /\ call'[c].todo = Tail(todo)
  BY <1>1, MidStep
<1>4. /\ Head(todo) = "dec" => Head(Tail(todo)) = "test"
      /\ Head(Tail(todo)) \notin {"inc", "dec", "shut"}
  BY <1>3 DEF Follows
<1>5. FoundBy(c)'
  <2>1. Len(todo) > 7 => socketMap[call[c].fd] = s
    BY <1>1, <1>2 DEF SockInv, Found, FoundBy
  <2>2. Live(s)'
    BY <1>2 DEF Live
  <2>3. Len(todo) - 1 > 7 => Len(todo) > 7
    BY <1>3
  <2> HIDE DEF todo
  <2> QED
    BY <1>2, <1>3, <1>4, <2>1, <2>2, <2>3 DEF FoundBy
<1>6. /\ Held(todo) \in 0..2 /\ Held(Tail(todo)) \in 0..2
      /\ Head(todo) = "inc" => Held(Tail(todo)) = Held(todo) + 1
      /\ Head(todo) = "dec" => Held(Tail(todo)) = Held(todo) - 1
  BY HeldNext, TurnFacts
<1>7. refCount \in [Socks -> Nat]
  BY DEF SockInv, Types
<1>8. ASSUME NEW x \in Socks, Live(x)
      PROVE  /\ refCount[x] = Entry(x) + HeldOf(c, x) + (IF c = Loop THEN HeldOf(Dispatch, x) ELSE 0)
             /\ refCount[x] = 0 => call[c].sock = x /\ Head(todo) = "test"
             /\ x # s => HeldOf(c, x)' = 0 /\ HeldOf(c, x) = 0
             /\ HeldOf(c, s)' = Held(Tail(todo)) /\ HeldOf(c, s) = Held(todo)
             /\ c = Loop => HeldOf(Dispatch, x)' = HeldOf(Dispatch, x)
             /\ HeldOf(c, x) \in Nat /\ HeldOf(Dispatch, x) \in Nat
             /\ Entry(x)' = Entry(x) /\ Entry(x) \in {0, 1}
  <2>1. /\ refCount[x] = Entry(x) + HeldOf(c, x) + (IF c = Loop THEN HeldOf(Dispatch, x) ELSE 0)
        /\ refCount[x] = 0 => call[c].sock = x /\ Head(todo) = "test"
    BY <1>8, TurnFacts DEF CountsBy
  <2>2. /\ x # s => HeldOf(c, x)' = 0 /\ HeldOf(c, x) = 0
        /\ HeldOf(c, s)' = Held(Tail(todo)) /\ HeldOf(c, s) = Held(todo)
        /\ c = Loop => HeldOf(Dispatch, x)' = HeldOf(Dispatch, x)
        /\ HeldOf(c, x) \in Nat /\ HeldOf(Dispatch, x) \in Nat
    BY <1>1, HoldsNext
  <2>3. Entry(x)' = Entry(x) /\ Entry(x) \in {0, 1}
    BY DEF Entry
  <2> QED
    BY <2>1, <2>2, <2>3
<1> HIDE DEF todo, v
<1>9. /\ v \in Nat
      /\ v = refCount[s] + (Held(Tail(todo)) - Held(todo))
  <2>1. CASE Head(todo) = "inc"
    BY <1>2, <1>6, <1>7, <2>1
  <2>2. CASE Head(todo) = "dec"
    <3>1. refCount[s] >= 1
      BY <1>2, <1>6, <1>7, <1>8, <2>2
    <3> QED
      BY <1>2, <1>6, <1>7, <2>2, <3>1
  <2> QED
    BY <2>1, <2>2 DEF todo
<1>10. refCount'[s] = v /\ (\A x \in Socks \ {s} : refCount'[x] = refCount[x])
       /\ refCount' \in [Socks -> Nat]
  BY <1>7, <1>9 DEF v
<1>11. CountsBy(c)'
  <2> SUFFICES ASSUME NEW x \in Socks, Live(x)
               PROVE  /\ refCount'[x] = Entry(x)' + HeldOf(c, x)'
                                          + (IF c = Loop THEN HeldOf(Dispatch, x)' ELSE 0)
                      /\ refCount'[x] = 0 => call'[c].sock = x /\ Head(call'[c].todo) = "test"
    BY DEF CountsBy, Live
  <2>1. CASE x = s
    <3>1. refCount'[x] = Entry(x)' + HeldOf(c, x)' + (IF c = Loop THEN HeldOf(Dispatch, x)' ELSE 0)
      <4> DEFINE b == IF c = Loop THEN HeldOf(Dispatch, x) ELSE 0
                 d == Held(Tail(todo)) - Held(todo)
      <4>1. b \in Nat /\ b = IF c = Loop THEN HeldOf(Dispatch, x)' ELSE 0
        BY <1>8
      <4>2. d \in Int /\ HeldOf(c, x)' = HeldOf(c, x) + d /\ refCount'[x] = refCount[x] + d
        BY <1>6, <1>7, <1>8, <1>9, <1>10, <2>1
      <4>3. refCount[x] = Entry(x) + HeldOf(c, x) + b /\ Entry(x)' = Entry(x)
            /\ Entry(x) \in Int /\ HeldOf(c, x) \in Int
        BY <1>8
      <4> HIDE DEF b, d
      <4> QED
        BY <4>1, <4>2, <4>3
    <3>2. Head(todo) = "inc" => refCount'[x] # 0
      BY <1>2, <1>7, <1>10, <2>1 DEF todo
    <3> QED
      BY <1>3, <1>4, <2>1, <3>1, <3>2 DEF todo
  <2>2. CASE x # s
    BY <1>8, <1>10, <2>2
  <2> QED
    BY <2>1, <2>2
<1>12. Table'
  BY DEF SockInv, Table, Live
<1>13. c = Dispatch => s = batch[1].sock
  BY <1>1, <1>2 DEF SockInv, Batch
<1>14. socketMap' \in [Fds -> Socks \union {Nil}] /\ kernel' \in [Fds -> Socks \union {Nil}]
  BY DEF SockInv, Types
<1> QED
  BY <1>1, <1>5, <1>10, <1>11, <1>12, <1>13, <1>14, GoesOn DEF v

\* Close() takes the object out of the table...
LEMMA UnmapKeeps ==
  ASSUME SockInv, NEW c \in Callers, Turn(c), NEW s \in Socks, call[c].sock = s,
         Head(call[c].todo) = "unmap",
         socketMap' = [socketMap EXCEPT ![mSocket[s]] = Nil],
         Pops(c, s, call[c].val), Tail(call[c].todo) # <<>>,
         UNCHANGED <<state, refCount, mSocket, kernel, handles, looping, batch>>
  PROVE  SockInv'
<1> DEFINE todo == call[c].todo
           v == call[c].val
           f == mSocket[s]
<1>1. s # Nil /\ v \in Int
  BY TurnFacts, Names
<1>2. /\ Follows(Head(todo), Len(todo), Head(Tail(todo))) /\ Len(todo) \in 2..11
      /\ call'[c].sock = s /\ call'[c].fd = call[c].fd /\ call'[c].val = v
      /\ Head(call'[c].todo) = Head(Tail(todo)) /\ Len(call'[c].todo) = Len(todo) - 1
      /\ call'[c].todo = Tail(todo)
  BY <1>1, MidStep
<1>3. Len(todo) = 8 /\ Head(Tail(todo)) = "shut"
  BY <1>2 DEF Follows
<1>4. InCall(c) /\ Live(s) /\ f = call[c].fd /\ socketMap[f] = s /\ f \in Fds
  <2>1. FoundBy(c) /\ call[c].fd \in Fds /\ InCall(c)
    BY TurnFacts DEF Turn
  <2>2. Live(s) /\ f = call[c].fd /\ (Len(todo) > 7 => socketMap[call[c].fd] = s)
    BY <1>1, <2>1 DEF FoundBy
  <2> QED
    BY <1>3, <2>1, <2>2
<1>5. kernel[f] = s
  BY <1>1, <1>4 DEF SockInv, Table
<1>6. socketMap \in [Fds -> Socks \union {Nil}] /\ kernel \in [Fds -> Socks \union {Nil}]
      /\ refCount \in [Socks -> Nat]
  BY DEF SockInv, Types
<1>7. socketMap'[f] = Nil /\ (\A g \in Fds \ {f} : socketMap'[g] = socketMap[g])
      /\ socketMap' \in [Fds -> Socks \union {Nil}]
  BY <1>4, <1>6
<1>8. c = Loop
  BY <1>3, <1>4, LoopCloses DEF SockInv
<1>9. FoundBy(c)'
  <2>1. state'[s] \notin {"none", "deleted"}
    BY <1>4 DEF Live
  <2>2. Len(call'[c].todo) = 7 /\ Head(call'[c].todo) = "shut" /\ mSocket'[s] = call'[c].fd
    BY <1>2, <1>3, <1>4
  <2>3. kernel'[call'[c].fd] = s /\ socketMap'[call'[c].fd] = Nil
    BY <1>2, <1>4, <1>5, <1>7
  <2>4. ~(7 > 7) /\ "shut" # "inc" /\ "shut" # "dec"
    OBVIOUS
  <2>5. call'[c].sock = s
    BY <1>2
  <2> QED
    BY <2>1, <2>2, <2>3, <2>4, <2>5, FoundOn
<1>10. CountsBy(c)'
  <2> SUFFICES ASSUME NEW x \in Socks, Live(x)
               PROVE  /\ refCount[x] = Entry(x)' + HeldOf(c, x)' + HeldOf(Dispatch, x)'
                      /\ refCount[x] # 0
    BY <1>8 DEF CountsBy, Live
  <2>1. /\ refCount[x] = Entry(x) + HeldOf(c, x) + HeldOf(Dispatch, x)
        /\ refCount[x] # 0
    BY <1>8, TurnFacts DEF CountsBy
  <2>2. /\ x # s => HeldOf(c, x)' = 0 /\ HeldOf(c, x) = 0
        /\ HeldOf(c, s)' = Held(Tail(todo)) /\ HeldOf(c, s) = Held(todo)
        /\ HeldOf(Dispatch, x)' = HeldOf(Dispatch, x) /\ HeldOf(Dispatch, x) \in Nat
    BY <1>1, <1>8, HoldsNext
  <2>3. Held(Tail(todo)) = Held(todo) + 1 /\ Held(todo) = 1
    BY HeldNext, TurnFacts
  <2>4. x = s => Entry(x) = 1 /\ Entry(x)' = 0
    BY <1>1, <1>4, <1>7 DEF Entry
  <2>5. x # s => Entry(x)' = Entry(x)
    <3>1. x # Nil /\ mSocket[x] \in Fds /\ mSocket'[x] = mSocket[x]
      BY Names DEF SockInv, Table
    <3> QED
      BY <1>4, <1>7, <3>1 DEF Entry
  <2>6. Entry(x) \in {0, 1}
    BY DEF Entry
  <2> HIDE DEF todo
  <2> QED
    BY <2>1, <2>2, <2>3, <2>4, <2>5, <2>6
<1>11. Table'
  <2>1. \A x \in Socks : Live(x)' <=> Live(x)
    BY DEF Live
  <2> HIDE DEF f
  <2>2. ASSUME NEW g \in Fds, socketMap'[g] # Nil
        PROVE  g # f /\ socketMap'[g] = socketMap[g]
    BY <1>7, <2>2
  <2>3. ASSUME NEW g \in Fds, socketMap[g] # Nil
        PROVE  /\ state'[socketMap[g]] \notin {"none", "deleted"} /\ socketMap[g] \in Socks
               /\ mSocket'[socketMap[g]] = g /\ kernel'[g] = socketMap[g]
    BY <2>3 DEF SockInv, Table, Live
  <2>4. \A x \in Socks : Live(x)' => mSocket'[x] \in Fds
    BY <2>1 DEF SockInv, Table
  <2>5. ASSUME NEW g \in Fds, socketMap'[g] # Nil
        PROVE  /\ state'[socketMap'[g]] \notin {"none", "deleted"} /\ socketMap'[g] \in Socks
               /\ mSocket'[socketMap'[g]] = g /\ kernel'[g] = socketMap'[g]
    BY <2>2, <2>3, <2>5
  <2> QED
    BY <2>4, <2>5 DEF Table, Live
<1>12. c = Dispatch => s = batch[1].sock
  BY <1>8, Names
<1>13. refCount' \in [Socks -> Nat] /\ kernel' \in [Fds -> Socks \union {Nil}]
  BY <1>6
<1> QED
  BY <1>1, <1>7, <1>9, <1>10, <1>11, <1>12, <1>13, GoesOn

\* ... and gives its descriptor back.
LEMMA ShutKeeps ==
  ASSUME SockInv, NEW c \in Callers, Turn(c), NEW s \in Socks, call[c].sock = s,
         Head(call[c].todo) = "shut",
         kernel' = [kernel EXCEPT ![mSocket[s]] = Nil],
         Pops(c, s, call[c].val), Tail(call[c].todo) # <<>>,
         UNCHANGED <<state, refCount, mSocket, socketMap, handles, looping, batch>>
  PROVE  SockInv'
<1> DEFINE todo == call[c].todo
           v == call[c].val
           f == mSocket[s]
<1>1. s # Nil /\ v \in Int
  BY TurnFacts, Names
<1>2. /\ Follows(Head(todo), Len(todo), Head(Tail(todo))) /\ Len(todo) \in 2..11
      /\ call'[c].sock = s /\ call'[c].fd = call[c].fd /\ call'[c].val = v
      /\ Head(call'[c].todo) = Head(Tail(todo)) /\ Len(call'[c].todo) = Len(todo) - 1
      /\ call'[c].todo = Tail(todo)
  BY <1>1, MidStep
<1>3. Len(todo) = 7 /\ Head(Tail(todo)) = "drop"
  BY <1>2 DEF Follows
<1>4. InCall(c) /\ Live(s) /\ f = call[c].fd /\ socketMap[f] = Nil /\ f \in Fds
  BY <1>1, TurnFacts DEF FoundBy, Turn
<1>6. socketMap \in [Fds -> Socks \union {Nil}] /\ kernel \in [Fds -> Socks \union {Nil}]
      /\ refCount \in [Socks -> Nat]
  BY DEF SockInv, Types
<1>7. kernel'[f] = Nil /\ (\A g \in Fds \ {f} : kernel'[g] = kernel[g])
      /\ kernel' \in [Fds -> Socks \union {Nil}]
  BY <1>4, <1>6
<1>8. c = Loop
  BY <1>4, LoopCloses DEF SockInv
<1>9. FoundBy(c)'
  <2>1. state'[s] \notin {"none", "deleted"}
    BY <1>4 DEF Live
  <2>2. Len(call'[c].todo) = 6 /\ Head(call'[c].todo) = "drop" /\ mSocket'[s] = call'[c].fd
    BY <1>2, <1>3, <1>4
  <2>3. ~(6 > 7) /\ "drop" # "shut" /\ "drop" # "inc" /\ "drop" # "dec"
    OBVIOUS
  <2>4. call'[c].sock = s
    BY <1>2
  <2> QED
    BY <2>1, <2>2, <2>3, <2>4, FoundOn
<1>10. CountsBy(c)'
  <2> SUFFICES ASSUME NEW x \in Socks, Live(x)
               PROVE  /\ refCount[x] = Entry(x)' + HeldOf(c, x)' + HeldOf(Dispatch, x)'
                      /\ refCount[x] # 0
    BY <1>8 DEF CountsBy, Live
  <2>1. /\ refCount[x] = Entry(x) + HeldOf(c, x) + HeldOf(Dispatch, x)
        /\ refCount[x] # 0
    BY <1>8, TurnFacts DEF CountsBy
  <2>2. /\ x # s => HeldOf(c, x)' = 0 /\ HeldOf(c, x) = 0
        /\ HeldOf(c, s)' = Held(Tail(todo)) /\ HeldOf(c, s) = Held(todo)
        /\ HeldOf(Dispatch, x)' = HeldOf(Dispatch, x)
    BY <1>1, <1>8, HoldsNext
  <2>3. Held(Tail(todo)) = Held(todo)
    BY HeldNext, TurnFacts
  <2>4. Entry(x)' = Entry(x)
    BY DEF Entry
  <2> HIDE DEF todo
  <2> QED
    BY <2>1, <2>2, <2>3, <2>4
<1>11. Table'
  <2>1. \A x \in Socks : Live(x)' <=> Live(x)
    BY DEF Live
  <2> HIDE DEF f
  <2>2. ASSUME NEW g \in Fds, socketMap[g] # Nil
        PROVE  /\ Live(socketMap[g])' /\ mSocket[socketMap[g]] = g
               /\ kernel'[g] = socketMap[g]
    <3>1. g # f /\ kernel'[g] = kernel[g]
      BY <1>4, <1>7, <2>2
    <3>2. Live(socketMap[g]) /\ mSocket[socketMap[g]] = g /\ kernel[g] = socketMap[g]
      BY <2>2 DEF SockInv, Table
    <3> QED
      BY <3>1, <3>2 DEF Live
  <2> QED
    BY <2>1, <2>2 DEF SockInv, Table
<1>12. c = Dispatch => s = batch[1].sock
  BY <1>8, Names
<1>13. \A i \in 1..Len(batch) : kernel[batch[i].fd] = batch[i].sock =>
         \/ kernel'[batch[i].fd] = batch[i].sock
         \/ i = 1 /\ c = Loop /\ state[batch[1].sock] # "listening"
  <2> SUFFICES ASSUME NEW i \in 1..Len(batch)
               PROVE  \/ kernel[batch[i].fd] = kernel'[batch[i].fd]
                      \/ i = 1 /\ c = Loop /\ state[batch[1].sock] # "listening"
    OBVIOUS
  <2>1. f = batch[1].fd /\ state[batch[1].sock] # "listening"
    BY <1>4, <1>8 DEF SockInv, Batch
  <2>2. batch \in Seq(Events) /\ batch[i].fd \in Fds /\ 1 \in 1..Len(batch)
    <3>1. batch \in Seq(Events)
      BY DEF SockInv, Types
    <3>2. batch[i] \in Events /\ 1 \in 1..Len(batch)
      BY <3>1
    <3> QED
      BY <3>1, <3>2 DEF Events
  <2>3. i = 1 \/ batch[i].fd # f
    BY <2>1, <2>2 DEF SockInv, Batch
  <2> QED
    BY <1>7, <1>8, <2>1, <2>2, <2>3
<1>14. refCount' \in [Socks -> Nat] /\ socketMap' \in [Fds -> Socks \union {Nil}]
  BY <1>6
<1> QED
  BY <1>1, <1>7, <1>9, <1>10, <1>11, <1>12, <1>13, <1>14, GoesOn

\* A call that returns has released what it held.  An object whose last
\* reference that was is deleted.
LEMMA Returns ==
  ASSUME SockInv, NEW c \in Callers, Turn(c), Held(call[c].todo) = 0,
         call' = [call EXCEPT ![c] = Idle],
         batch' = IF c = Dispatch THEN Tail(batch) ELSE batch,
         UNCHANGED <<looping, refCount, mSocket, socketMap, kernel, handles>>,
         state' \in [Socks -> States],
         \A x \in Socks : state'[x] = IF Live(x) /\ refCount[x] = 0 THEN "deleted" ELSE state[x]
  PROVE  SockInv'
<1>1. /\ call' \in [Callers -> Records] /\ Calls' /\ Turns'
      /\ call'[c] = Idle /\ ~InCall(c)'
      /\ \A d \in Callers \ {c} : call'[d] = call[d] /\ (InCall(d)' <=> InCall(d))
  BY ReturnKeeps DEF SockInv
<1>2. /\ CountsBy(c)
      /\ \A d \in Callers \ {c} : InCall(d) =>
           /\ c = Loop /\ d = Dispatch /\ Head(call[d].todo) = "callback"
           /\ call[d].sock \in Socks /\ Live(call[d].sock) /\ Held(call[d].todo) = 1
  BY TurnFacts
<1>3. c = Loop => InCall(Dispatch) /\ Head(call[Dispatch].todo) = "callback"
  BY DEF SockInv, Turns, Turn
<1>4. ASSUME NEW x \in Socks, Live(x)
      PROVE  /\ refCount[x] = Entry(x) + (IF c = Loop THEN HeldOf(Dispatch, x) ELSE 0)
             /\ Entry(x) \in {0, 1}
             /\ c = Loop => HeldOf(Dispatch, x) \in {0, 1}
  <2>1. Entry(x) \in {0, 1} /\ HeldOf(c, x) = 0
    BY DEF Entry, HeldOf
  <2>2. c = Loop => Held(call[Dispatch].todo) = 1
    BY <1>2, <1>3, Names
  <2>3. c = Loop => HeldOf(Dispatch, x) \in {0, 1}
    BY <2>2 DEF HeldOf
  <2>4. refCount[x] = Entry(x) + HeldOf(c, x) + (IF c = Loop THEN HeldOf(Dispatch, x) ELSE 0)
    BY <1>2, <1>4 DEF CountsBy
  <2> QED
    BY <2>1, <2>3, <2>4
<1>5. \A x \in Socks : Live(x)' <=> Live(x) /\ refCount[x] # 0
  BY DEF Live
<1>6. batch' \in Seq(Events)
  <2>1. batch \in Seq(Events) /\ (c = Dispatch => batch # <<>>)
    BY DEF SockInv, Types, Turns, Turn
  <2> QED
    BY <2>1
<1>7. Types'
  BY <1>1, <1>6 DEF SockInv, Types
<1>8. Found'
  <2>1. FoundBy(c)'
    BY <1>1 DEF FoundBy
  <2>2. ASSUME NEW d \in Callers \ {c}, InCall(d)
        PROVE  /\ d = Dispatch /\ Head(call[d].todo) = "callback"
               /\ state'[call[d].sock] \notin {"none", "deleted"}
               /\ mSocket'[call[d].sock] = mSocket[call[d].sock]
    <3>1. /\ c = Loop /\ d = Dispatch /\ Head(call[d].todo) = "callback"
          /\ call[d].sock \in Socks /\ Live(call[d].sock) /\ Held(call[d].todo) = 1
      BY <1>2, <2>2
    <3>2. HeldOf(Dispatch, call[d].sock) = 1
      BY <3>1 DEF HeldOf
    <3>3. refCount[call[d].sock] # 0
      BY <1>4, <3>1, <3>2
    <3> QED
      BY <3>1, <3>3 DEF Live
  <2> QED
    BY <1>1, <2>1, <2>2, FoundFrom
<1>9. Table'
  <2>1. ASSUME NEW f \in Fds, socketMap[f] # Nil
        PROVE  /\ state'[socketMap[f]] \notin {"none", "deleted"} /\ socketMap[f] \in Socks
               /\ mSocket[socketMap[f]] = f /\ kernel[f] = socketMap[f]
    <3>1. Live(socketMap[f]) /\ mSocket[socketMap[f]] = f /\ kernel[f] = socketMap[f]
      BY <2>1 DEF SockInv, Table
    <3>2. socketMap[f] \in Socks /\ Entry(socketMap[f]) = 1
      BY <3>1 DEF Live, Entry
    <3>3. refCount[socketMap[f]] # 0
      BY <1>4, <3>1, <3>2
    <3> QED
      BY <3>1, <3>2, <3>3 DEF Live
  <2>2. \A x \in Socks : Live(x)' => mSocket[x] \in Fds
    BY <1>5 DEF SockInv, Table
  <2> QED
    BY <2>1, <2>2 DEF Table, Live
<1>10. Counts'
  <2>1. CASE c = Loop
    <3>1. InCall(Dispatch)' /\ ~InCall(Loop)' /\ call'[Dispatch] = call[Dispatch]
      BY <1>1, <1>3, <2>1, Names
    <3>2. Turn(Dispatch)'
      BY <3>1 DEF Turn
    <3>3. ASSUME NEW x \in Socks, Live(x)'
          PROVE  /\ refCount'[x] = Entry(x)' + HeldOf(Dispatch, x)'
                 /\ refCount'[x] # 0
      <4>1. Entry(x)' = Entry(x) /\ HeldOf(Dispatch, x)' = HeldOf(Dispatch, x)
        BY <3>1 DEF Entry, HeldOf
      <4>2. Live(x) /\ refCount[x] # 0
        BY <1>5, <3>3
      <4> QED
        BY <1>4, <2>1, <4>1, <4>2
    <3>4. CountsBy(Dispatch)'
      <4>1. ASSUME NEW x \in Socks
            PROVE  HeldOf(Dispatch, x)' \in Int /\ Entry(x)' \in Int
        <5>1. Held(call'[Dispatch].todo) = 1
          BY <1>2, <1>3, <2>1, <3>1, Names
        <5> QED
          BY <5>1 DEF HeldOf, Entry
      <4>2. ASSUME NEW x \in Socks, Live(x)'
            PROVE  refCount'[x] = Entry(x)' + HeldOf(Dispatch, x)' + 0
        BY <3>3, <4>1, <4>2
      <4> QED
        BY <3>3, <4>2, Names DEF CountsBy
    <3> QED
      BY <1>1, <3>2, <3>4, CountsFrom, Names
  <2>2. CASE c # Loop
    <3>1. \A d \in Callers : ~InCall(d)'
      BY <1>1, <1>2, <2>2
    <3>2. CountsIdle'
      <4>1. ASSUME NEW x \in Socks, Live(x)'
            PROVE  refCount'[x] = 1 /\ Entry(x)' = 1
        <5>1. Live(x) /\ refCount[x] # 0 /\ Entry(x)' = Entry(x)
          BY <1>5, <4>1 DEF Entry
        <5> QED
          BY <1>4, <2>2, <5>1
      <4> QED
        BY <4>1 DEF CountsIdle
    <3> QED
      BY <3>1, <3>2 DEF Counts, Turn
  <2> QED
    BY <2>1, <2>2
<1>11. Batch'
  <2>1. ~(Len(call'[Loop].todo) > 7 \/ (InCall(Loop)' /\ Head(call'[Loop].todo) = "shut"))
    <3>1. call'[Loop].todo = <<>>
      <4>1. CASE c = Loop
        BY <1>1, <4>1 DEF Idle
      <4>2. CASE c # Loop
        BY <1>1, <1>2, <4>2, Names DEF InCall
      <4> QED
        BY <4>1, <4>2
    <3> QED
      BY <3>1 DEF InCall
  <2>2. CASE c = Dispatch
    <3>1. batch \in Seq(Events) /\ batch # <<>> /\ batch' = Tail(batch)
      BY <2>2 DEF SockInv, Types, Turns, Turn
    <3>2. /\ Len(batch) \in Nat /\ Len(batch') = Len(batch) - 1
          /\ \A i \in 1..Len(batch') : i + 1 \in 1..Len(batch) /\ batch'[i] = batch[i + 1]
                                         /\ i + 1 # 1
      BY <3>1
    <3>3. \A i \in 1..Len(batch) : i # 1 => kernel[batch[i].fd] = batch[i].sock
      BY DEF SockInv, Batch
    <3>4. \A i \in 1..Len(batch') : kernel[batch'[i].fd] = batch'[i].sock
      BY <3>2, <3>3
    <3>5. \A i, j \in 1..Len(batch') : batch'[i].fd = batch'[j].fd => i = j
      <4>1. \A i, j \in 1..Len(batch) : batch[i].fd = batch[j].fd => i = j
        BY DEF SockInv, Batch
      <4>2. ASSUME NEW i \in 1..Len(batch'), NEW j \in 1..Len(batch'), batch'[i].fd = batch'[j].fd
            PROVE  i = j
        <5>1. i + 1 = j + 1
          BY <3>2, <4>1, <4>2
        <5>2. i \in Int /\ j \in Int
          BY <3>2
        <5> QED
          BY <5>1, <5>2
      <4> QED
        BY <4>2
    <3> QED
      BY <1>1, <2>1, <2>2, <3>4, <3>5 DEF Batch
  <2>3. CASE c # Dispatch
    <3>1. /\ batch' = batch /\ call'[Dispatch] = call[Dispatch]
          /\ (InCall(Dispatch)' <=> InCall(Dispatch))
      BY <1>1, <2>3, Names
    <3>2. \A x : state[x] # "listening" => (x \in Socks => state'[x] # "listening")
      OBVIOUS
    <3>3. batch # <<>> => batch[1].sock \in Socks
      <4>1. batch \in Seq(Events)
        BY DEF SockInv, Types
      <4>2. batch # <<>> => batch[1] \in Events
        BY <4>1
      <4> QED
        BY <4>2 DEF Events
    <3>4. ASSUME InCall(Dispatch), state[batch[1].sock] # "listening"
          PROVE  state'[batch[1].sock] # "listening"
      <4>1. batch # <<>>
        BY <3>4 DEF SockInv, Turns
      <4> QED
        BY <3>2, <3>3, <3>4, <4>1
    <3>5. Batch
      BY DEF SockInv
    <3>6. \A i \in 1..Len(batch) :
            \/ kernel[batch[i].fd] = batch[i].sock
            \/ /\ i = 1 /\ InCall(Dispatch) /\ call[Dispatch].sock # Nil
               /\ state'[batch[1].sock] # "listening"
      BY <3>4, <3>5 DEF Batch
    <3>7. /\ InCall(Dispatch) => call[Dispatch].fd = batch[1].fd
          /\ InCall(Dispatch) /\ call[Dispatch].sock # Nil => call[Dispatch].sock = batch[1].sock
          /\ \A i, j \in 1..Len(batch) : batch[i].fd = batch[j].fd => i = j
      BY <3>5 DEF Batch
    <3>8. \A i \in 1..Len(batch') :
            \/ kernel'[batch'[i].fd] = batch'[i].sock
            \/ /\ i = 1 /\ InCall(Dispatch)' /\ call'[Dispatch].sock # Nil
               /\ state'[batch'[1].sock] # "listening"
      BY <3>1, <3>6
    <3>9. \A i, j \in 1..Len(batch') : batch'[i].fd = batch'[j].fd => i = j
      BY <3>1, <3>7, Zenon
    <3>10. /\ InCall(Dispatch)' => call'[Dispatch].fd = batch'[1].fd
           /\ InCall(Dispatch)' /\ call'[Dispatch].sock # Nil => call'[Dispatch].sock = batch'[1].sock
      <4>1. call'[Dispatch] = call[Dispatch] /\ batch'[1] = batch[1] /\ (InCall(Dispatch)' => InCall(Dispatch))
        BY <3>1
      <4> QED
        BY <3>7, <4>1
    <3> QED
      BY <2>1, <3>8, <3>9, <3>10 DEF Batch
  <2> QED
    BY <2>2, <2>3
<1> QED
  BY <1>1, <1>7, <1>8, <1>9, <1>10, <1>11 DEF SockInv

LEMMA StepKeeps ==
  ASSUME SockInv, NEW c \in Callers, Step(c)
  PROVE  SockInv'
<1> DEFINE todo == call[c].todo
           h == Head(todo)
<1>1. Turn(c) /\ InCall(c) /\ Types /\ Calls
  BY StepTurn DEF SockInv, Turn
<1>2. /\ call[c].sock \in Socks \union {Nil} /\ (call[c].sock = Nil <=> h = "find")
      /\ call[c].val \in Int /\ call[c].fd \in Fds /\ Shaped(todo) /\ todo # <<>>
  BY <1>1, TurnFacts
<1>3. Follows(h, Len(todo), Head(Tail(todo))) /\ (Tail(todo) = <<>> <=> Len(todo) = 1)
  BY <1>2, NextStep
<1>4. h # "test" => Tail(todo) # <<>>
  <2>1. ASSUME NEW first, NEW next, Follows(first, 1, next)
        PROVE  first = "test"
    BY <2>1 DEF Follows
  <2> HIDE DEF h, todo
  <2> QED
    BY <1>3, <2>1
<1>5. Nil \notin Socks
  BY Names
<1>6. CASE DoFind(c)
  <2>1. At(c, "find") /\ h = "find" /\ socketMap[call[c].fd] \in Socks \union {Nil}
    BY <1>1, <1>2, <1>6 DEF DoFind, At, Types
  <2>2. CASE socketMap[call[c].fd] = Nil
    <3>1. Held(todo) = 0
      BY <1>2, <2>1, HeldNext
    <3>2. /\ call' = [call EXCEPT ![c] = Idle]
          /\ batch' = IF c = Dispatch THEN Tail(batch) ELSE batch
          /\ UNCHANGED <<state, refCount, mSocket, socketMap, kernel, handles, looping>>
      BY <1>6, <2>2 DEF DoFind
    <3>3. \A x \in Socks : Live(x) => refCount[x] # 0
      BY <1>1, <2>1, TurnFacts DEF CountsBy
    <3>4. state' \in [Socks -> States]
      BY <1>1, <3>2 DEF Types
    <3>5. \A x \in Socks : state'[x] = IF Live(x) /\ refCount[x] = 0 THEN "deleted" ELSE state[x]
      BY <3>2, <3>3
    <3> QED
      BY <1>1, <3>1, <3>2, <3>4, <3>5, Returns
  <2>3. CASE socketMap[call[c].fd] # Nil
    <3>1. PICK s \in Socks : socketMap[call[c].fd] = s
      BY <2>1, <2>3
    <3>2. /\ call' = [call EXCEPT ![c] = [@ EXCEPT !.todo = Pop(c), !.sock = s]]
          /\ UNCHANGED <<state, refCount, mSocket, socketMap, kernel, handles, looping, batch>>
      BY <1>6, <2>3, <3>1 DEF DoFind
    <3>3. Pops(c, s, call[c].val)
      BY <1>1, <3>2, PopShape
    <3> QED
      BY <1>1, <1>4, <2>1, <3>1, <3>2, <3>3, FindKeeps
  <2> QED
    BY <2>2, <2>3
<1> SUFFICES ASSUME ~DoFind(c)
             PROVE  SockInv'
  BY <1>6
<1>7. h # "find" /\ h \in {"load", "drop", "inc", "dec", "test", "use", "callback", "unmap", "shut"}
  BY DEF Step, DoLoad, DoStore, DoTest, DoUse, DoUnmap, DoShut, At
<1>8. PICK s \in Socks : call[c].sock = s
  BY <1>2, <1>7
<1>9. CASE DoLoad(c)
  <2>1. refCount[s] \in Nat
    BY <1>1 DEF Types
  <2>2. UNCHANGED <<state, refCount, mSocket, socketMap, kernel, handles, looping, batch>>
    BY <1>9 DEF DoLoad
  <2>3. CASE h = "load"
    <3>1. call' = [call EXCEPT ![c].todo = Pop(c), ![c].val = refCount[s] + 1]
      BY <1>8, <1>9, <2>3 DEF DoLoad, At
    <3>2. PICK v \in Int : v = refCount[s] + 1
      BY <2>1
    <3>3. Pops(c, s, v)
      BY <1>1, <1>8, <3>1, <3>2, PopShape
    <3> QED
      BY <1>1, <1>4, <1>8, <2>2, <2>3, <3>2, <3>3, QuietKeeps
  <2>4. CASE h = "drop"
    <3>1. call' = [call EXCEPT ![c].todo = Pop(c), ![c].val = refCount[s] - 1]
      BY <1>8, <1>9, <2>4 DEF DoLoad, At
    <3>2. PICK v \in Int : v = refCount[s] - 1
      BY <2>1
    <3>3. Pops(c, s, v)
      BY <1>1, <1>8, <3>1, <3>2, PopShape
    <3> QED
      BY <1>1, <1>4, <1>8, <2>2, <2>4, <3>2, <3>3, QuietKeeps
  <2> QED
    BY <1>9, <2>3, <2>4 DEF DoLoad, At
<1>10. CASE DoStore(c)
  <2>1. /\ h \in {"inc", "dec"} /\ refCount' = [refCount EXCEPT ![s] = call[c].val]
        /\ call' = [call EXCEPT ![c].todo = Pop(c)]
        /\ UNCHANGED <<state, mSocket, socketMap, kernel, handles, looping, batch>>
    BY <1>8, <1>10 DEF DoStore, At
  <2>2. Pops(c, s, call[c].val)
    BY <1>1, <1>8, <2>1, PopShape
  <2> QED
    BY <1>1, <1>4, <1>8, <2>1, <2>2, StoreKeeps
<1>11. CASE DoTest(c)
  <2>1. /\ h = "test" /\ refCount \in [Socks -> Nat] /\ state \in [Socks -> States]
        /\ state' = IF refCount[s] = 0 THEN [state EXCEPT ![s] = "deleted"] ELSE state
        /\ call' = [call EXCEPT ![c] = IF Pop(c) = <<>> THEN Idle ELSE [@ EXCEPT !.todo = Pop(c)]]
        /\ batch' = IF c = Dispatch /\ Pop(c) = <<>> THEN Tail(batch) ELSE batch
        /\ UNCHANGED <<refCount, mSocket, socketMap, kernel, handles, looping>>
    BY <1>1, <1>8, <1>11 DEF DoTest, At, Types
  <2>2. /\ Held(todo) = 0 <=> Tail(todo) = <<>>
        /\ Held(todo) \in 0..2
    BY <1>2, <2>1, HeldNext
  <2>3. /\ CountsBy(c) /\ Live(s)
    BY <1>1, <1>5, <1>8, TurnFacts DEF FoundBy
  <2>4. CASE Tail(todo) = <<>>
    <3>1. /\ call' = [call EXCEPT ![c] = Idle]
          /\ batch' = IF c = Dispatch THEN Tail(batch) ELSE batch
      BY <2>1, <2>4 DEF Pop
    <3>2. state' \in [Socks -> States]
      BY <2>1 DEF States
    <3>3. \A x \in Socks : Live(x) /\ refCount[x] = 0 => x = s
      BY <1>8, <2>3 DEF CountsBy
    <3>4. \A x \in Socks : state'[x] = IF Live(x) /\ refCount[x] = 0 THEN "deleted" ELSE state[x]
      BY <2>1, <2>3, <3>3
    <3>5. Held(todo) = 0
      BY <2>2, <2>4
    <3> QED
      BY <1>1, <2>1, <3>1, <3>2, <3>4, <3>5, Returns
  <2>5. CASE Tail(todo) # <<>>
    <3>1. call' = [call EXCEPT ![c] = [@ EXCEPT !.todo = Pop(c)]] /\ batch' = batch
      BY <2>1, <2>5 DEF Pop
    <3>2. Pops(c, s, call[c].val)
      BY <1>1, <1>8, <3>1, PopShape
    <3>3. refCount[s] # 0
      <4>1. refCount[s] = Entry(s) + HeldOf(c, s) + (IF c = Loop THEN HeldOf(Dispatch, s) ELSE 0)
        BY <2>3 DEF CountsBy
      <4>2. Entry(s) \in {0, 1} /\ HeldOf(c, s) \in 1..2
        BY <1>8, <2>2, <2>5 DEF Entry, HeldOf
      <4>3. HeldOf(Dispatch, s) \in Nat
        BY <1>1, <1>2, <1>8, <2>5, <3>2, HoldsNext
      <4> QED
        BY <4>1, <4>2, <4>3
    <3> QED
      BY <1>1, <1>2, <1>8, <2>1, <2>5, <3>1, <3>2, <3>3, QuietKeeps
  <2> QED
    BY <2>4, <2>5
<1>12. CASE DoUse(c)
  <2>1. /\ h \in {"use", "callback"} /\ call' = [call EXCEPT ![c].todo = Pop(c)]
        /\ UNCHANGED <<state, refCount, mSocket, socketMap, kernel, handles, looping, batch>>
    BY <1>12 DEF DoUse, At
  <2>2. Pops(c, s, call[c].val)
    BY <1>1, <1>8, <2>1, PopShape
  <2> QED
    BY <1>1, <1>2, <1>4, <1>8, <2>1, <2>2, QuietKeeps
<1>13. CASE DoUnmap(c)
  <2>1. /\ h = "unmap" /\ call' = [call EXCEPT ![c].todo = Pop(c)]
        /\ socketMap' = [socketMap EXCEPT ![mSocket[s]] = Nil]
        /\ UNCHANGED <<state, refCount, mSocket, kernel, handles, looping, batch>>
    BY <1>8, <1>13 DEF DoUnmap, At
  <2>2. Pops(c, s, call[c].val)
    BY <1>1, <1>8, <2>1, PopShape
  <2> QED
    BY <1>1, <1>4, <1>8, <2>1, <2>2, UnmapKeeps
<1>14. CASE DoShut(c)
  <2>1. /\ h = "shut" /\ call' = [call EXCEPT ![c].todo = Pop(c)]
        /\ kernel' = [kernel EXCEPT ![mSocket[s]] = Nil]
        /\ UNCHANGED <<state, refCount, mSocket, socketMap, handles, looping, batch>>
    BY <1>8, <1>14 DEF DoShut, At
  <2>2. Pops(c, s, call[c].val)
    BY <1>1, <1>8, <2>1, PopShape
  <2> QED
    BY <1>1, <1>4, <1>8, <2>1, <2>2, ShutKeeps
<1> QED
  BY <1>9, <1>10, <1>11, <1>12, <1>13, <1>14 DEF Step

-----------------------------------------------------------------------------
(* What the program does between steps.                                    *)

LEMMA BatchEvents ==
  ASSUME SockInv
  PROVE  /\ batch \in Seq(Events) /\ Len(batch) \in Nat
         /\ \A i \in 1..Len(batch) : batch[i].fd \in Fds /\ batch[i].sock \in Socks
         /\ batch # <<>> => 1 \in 1..Len(batch)
<1>1. batch \in Seq(Events)
  BY DEF SockInv, Types
<1>2. Len(batch) \in Nat /\ (\A i \in 1..Len(batch) : batch[i] \in Events) /\ (batch # <<>> => 1 \in 1..Len(batch))
  BY <1>1
<1> QED
  BY <1>1, <1>2 DEF Events

\* A new object has its own descriptor and an entry in the table.
LEMMA Created ==
  ASSUME SockInv, NEW s \in Socks, NEW f \in Fds, NEW st \in {"listening", "connecting", "connected"},
         Create(s, f, st)
  PROVE  /\ state' \in [Socks -> States] /\ refCount' \in [Socks -> Nat]
         /\ mSocket' \in [Socks -> Fds \union {Nil}] /\ kernel' \in [Fds -> Socks \union {Nil}]
         /\ socketMap' \in [Fds -> Socks \union {Nil}]
         /\ ~Live(s) /\ kernel[f] = Nil /\ socketMap[f] = Nil
         /\ \A x \in Socks : Live(x)' <=> Live(x) \/ x = s
         /\ \A x \in Socks : Live(x) => /\ state'[x] = state[x] /\ mSocket'[x] = mSocket[x]
                                        /\ refCount'[x] = refCount[x] /\ Entry(x)' = Entry(x)
         /\ refCount'[s] = 1 /\ Entry(s)' = 1
         /\ \A g \in Fds \ {f} : kernel'[g] = kernel[g] /\ socketMap'[g] = socketMap[g]
         /\ Table'
<1>1. /\ state \in [Socks -> States] /\ refCount \in [Socks -> Nat]
      /\ mSocket \in [Socks -> Fds \union {Nil}] /\ kernel \in [Fds -> Socks \union {Nil}]
      /\ socketMap \in [Fds -> Socks \union {Nil}]
  BY DEF SockInv, Types
<1>2. s # Nil /\ state[s] = "none" /\ ~Live(s) /\ kernel[f] = Nil
  BY Names DEF Create, Live
<1>3. Table
  BY DEF SockInv
<1>4. socketMap[f] = Nil
  BY <1>2, <1>3 DEF Table
<1>5. /\ state' = [state EXCEPT ![s] = st] /\ refCount' = [refCount EXCEPT ![s] = 1]
      /\ mSocket' = [mSocket EXCEPT ![s] = f] /\ kernel' = [kernel EXCEPT ![f] = s]
      /\ socketMap' = [socketMap EXCEPT ![f] = s]
  BY <1>4 DEF Create
<1>6. /\ state' \in [Socks -> States] /\ refCount' \in [Socks -> Nat]
      /\ mSocket' \in [Socks -> Fds \union {Nil}] /\ kernel' \in [Fds -> Socks \union {Nil}]
      /\ socketMap' \in [Fds -> Socks \union {Nil}]
      /\ state'[s] = st /\ refCount'[s] = 1 /\ mSocket'[s] = f
      /\ kernel'[f] = s /\ socketMap'[f] = s
  BY <1>1, <1>5 DEF States
<1>7. \A x \in Socks \ {s} : /\ state'[x] = state[x] /\ mSocket'[x] = mSocket[x]
                             /\ refCount'[x] = refCount[x]
  BY <1>1, <1>5
<1>8. \A g \in Fds \ {f} : kernel'[g] = kernel[g] /\ socketMap'[g] = socketMap[g]
  BY <1>1, <1>5
<1>9. \A x \in Socks : Live(x)' <=> Live(x) \/ x = s
  BY <1>6, <1>7 DEF Live
<1>10. ASSUME NEW x \in Socks, Live(x)
       PROVE  /\ x # s /\ mSocket[x] \in Fds /\ Entry(x)' = Entry(x)
  <2>1. x # s /\ mSocket[x] \in Fds /\ mSocket'[x] = mSocket[x]
    BY <1>2, <1>3, <1>7, <1>10 DEF Table
  <2>2. socketMap'[mSocket[x]] = x <=> socketMap[mSocket[x]] = x
    <3>1. CASE mSocket[x] = f
      BY <1>4, <1>6, <2>1, <3>1, Names
    <3>2. CASE mSocket[x] # f
      BY <1>8, <2>1, <3>2
    <3> QED
      BY <3>1, <3>2
  <2> QED
    BY <2>1, <2>2 DEF Entry
<1>11. Entry(s)' = 1
  BY <1>6 DEF Entry
<1>12. Table'
  <2>1. \A x \in Socks : Live(x)' => mSocket'[x] \in Fds
    BY <1>6, <1>7, <1>9, <1>10
  <2>2. ASSUME NEW g \in Fds, socketMap'[g] # Nil
        PROVE  /\ state'[socketMap'[g]] \notin {"none", "deleted"} /\ socketMap'[g] \in Socks
               /\ mSocket'[socketMap'[g]] = g /\ kernel'[g] = socketMap'[g]
    <3>1. CASE g = f
      BY <1>6, <3>1
    <3>2. CASE g # f
      <4>1. socketMap'[g] = socketMap[g] /\ kernel'[g] = kernel[g]
        BY <1>8, <3>2
      <4>2. Live(socketMap[g]) /\ mSocket[socketMap[g]] = g /\ kernel[g] = socketMap[g]
        BY <1>3, <2>2, <4>1 DEF Table
      <4>3. socketMap[g] \in Socks \ {s}
        BY <1>2, <4>2 DEF Live
      <4> QED
        BY <1>7, <4>1, <4>2, <4>3 DEF Live
    <3> QED
      BY <3>1, <3>2
  <2> QED
    BY <2>1, <2>2 DEF Table, Live
<1> QED
  BY <1>2, <1>4, <1>6, <1>7, <1>8, <1>9, <1>10, <1>11, <1>12

\* A call begins; what else the caller did before it, it did to objects nobody
\* works on.
LEMMA Begins ==
  ASSUME SockInv, NEW c \in Callers, NEW f \in Fds, NEW steps,
         MayBegin(c, steps), Called(c, f, steps), UNCHANGED <<looping, batch>>,
         state' \in [Socks -> States], refCount' \in [Socks -> Nat],
         mSocket' \in [Socks -> Fds \union {Nil}], kernel' \in [Fds -> Socks \union {Nil}],
         socketMap' \in [Fds -> Socks \union {Nil}], handles' \subseteq Fds, Table',
         \A x \in Socks : Live(x) => /\ Live(x)' /\ mSocket'[x] = mSocket[x]
                                     /\ refCount'[x] = refCount[x] /\ Entry(x)' = Entry(x),
         \A x \in Socks : Live(x)' /\ ~Live(x) => refCount'[x] = 1 /\ Entry(x)' = 1,
         \A i \in 1..Len(batch) : kernel[batch[i].fd] = batch[i].sock =>
                                    kernel'[batch[i].fd] = batch[i].sock,
         c = Loop /\ state[batch[1].sock] # "listening" => state'[batch[1].sock] # "listening",
         c = Dispatch => f = batch[1].fd,
         steps = CloseSteps => f = batch[1].fd /\ state[batch[1].sock] # "listening"
  PROVE  SockInv'
<1>1. /\ call' \in [Callers -> Records] /\ Calls' /\ Turns' /\ Turn(c)'
      /\ call'[c].todo = steps /\ call'[c].fd = f /\ call'[c].sock = Nil
      /\ Head(steps) = "find" /\ Held(steps) = 0
      /\ \A d \in Callers \ {c} : call'[d] = call[d]
      /\ \A d \in Callers \ {c} : InCall(d) => c = Loop /\ d = Dispatch
  BY BeginKeeps DEF SockInv
<1>2. Types'
  BY <1>1 DEF SockInv, Types
<1>3. ~InCall(c) /\ (c = Loop => InCall(Dispatch) /\ Head(call[Dispatch].todo) = "callback")
  BY Names DEF MayBegin
<1>4. c = Loop => /\ Live(call[Dispatch].sock) /\ call[Dispatch].sock \in Socks
                  /\ Held(call[Dispatch].todo) = 1
                  /\ CountsBy(Dispatch)
  <2> SUFFICES ASSUME c = Loop
               PROVE  /\ Live(call[Dispatch].sock) /\ call[Dispatch].sock \in Socks
                      /\ Held(call[Dispatch].todo) = 1
                      /\ CountsBy(Dispatch)
    OBVIOUS
  <2>1. Turn(Dispatch)
    BY <1>3 DEF Turn
  <2>2. CountsBy(Dispatch) /\ FoundBy(Dispatch) /\ call[Dispatch].sock # Nil
    BY <1>3, <2>1, TurnFacts, Names
  <2>3. Held(call[Dispatch].todo) = 1
    BY <1>3 DEF Held, InCall
  <2> QED
    BY <1>3, <2>2, <2>3 DEF FoundBy, Live
<1>5. Found'
  <2>1. FoundBy(c)'
    BY <1>1 DEF FoundBy
  <2>2. ASSUME NEW d \in Callers \ {c}, InCall(d)
        PROVE  /\ d = Dispatch /\ Head(call[d].todo) = "callback"
               /\ state'[call[d].sock] \notin {"none", "deleted"}
               /\ mSocket'[call[d].sock] = mSocket[call[d].sock]
    <3>1. c = Loop /\ d = Dispatch
      BY <1>1, <2>2
    <3>2. \A x \in Socks : Live(x) => state'[x] \notin {"none", "deleted"} /\ mSocket'[x] = mSocket[x]
      BY DEF Live
    <3> QED
      BY <1>3, <1>4, <3>1, <3>2
  <2> QED
    BY <1>1, <2>1, <2>2, FoundFrom
<1>6. CountsBy(c)'
  <2>1. ASSUME NEW x \in Socks, Live(x)'
        PROVE  /\ refCount'[x] = Entry(x)' + HeldOf(c, x)'
                                   + (IF c = Loop THEN HeldOf(Dispatch, x)' ELSE 0)
               /\ refCount'[x] # 0
    <3>1. HeldOf(c, x)' = 0
      BY <1>1, Names DEF HeldOf
    <3>2. CASE c = Loop
      <4>1. HeldOf(Dispatch, x)' = HeldOf(Dispatch, x) /\ HeldOf(Dispatch, x) \in Nat
        BY <1>1, <1>4, <3>2, Names DEF HeldOf
      <4>2. Entry(x) \in {0, 1}
        BY DEF Entry
      <4>3. CASE Live(x)
        <5>1. /\ refCount[x] = Entry(x) + HeldOf(Dispatch, x) + 0
              /\ refCount[x] # 0
          BY <1>3, <1>4, <3>2, <4>3, Names DEF CountsBy
        <5> QED
          BY <3>1, <3>2, <4>1, <4>2, <4>3, <5>1
      <4>4. CASE ~Live(x)
        <5>1. HeldOf(Dispatch, x) = 0
          BY <1>4, <3>2, <4>4 DEF HeldOf
        <5> QED
          BY <2>1, <3>1, <3>2, <4>1, <4>4, <5>1
      <4> QED
        BY <4>3, <4>4
    <3>3. CASE c # Loop
      <4>1. CountsIdle
        BY <1>1, <1>3, <3>3 DEF SockInv, Counts
      <4>2. Live(x) => refCount[x] = 1 /\ Entry(x) = 1
        BY <4>1 DEF CountsIdle
      <4>3. refCount'[x] = 1 /\ Entry(x)' = 1
        BY <2>1, <4>2
      <4> QED
        BY <3>1, <3>3, <4>3
    <3> QED
      BY <3>2, <3>3
  <2> QED
    BY <2>1 DEF CountsBy
<1>7. Counts'
  BY <1>1, <1>6, CountsFrom
<1>8. Batch'
  <2>1. Batch
    BY DEF SockInv
  <2>2. \A i, j \in 1..Len(batch') : batch'[i].fd = batch'[j].fd => i = j
    BY <2>1 DEF Batch
  <2>3. \A i \in 1..Len(batch) :
          \/ kernel'[batch[i].fd] = batch[i].sock
          \/ /\ i = 1 /\ InCall(Dispatch)' /\ call'[Dispatch].sock # Nil
             /\ state'[batch[1].sock] # "listening"
    <3>1. ASSUME InCall(Dispatch), state[batch[1].sock] # "listening"
          PROVE  InCall(Dispatch)' /\ state'[batch[1].sock] # "listening" /\ call'[Dispatch] = call[Dispatch]
      <4>1. c = Loop /\ c # Dispatch
        BY <1>1, <1>3, <3>1, Names
      <4>2. call'[Dispatch] = call[Dispatch]
        BY <1>1, <4>1, Names
      <4> QED
        BY <3>1, <4>1, <4>2 DEF InCall
    <3> QED
      BY <2>1, <3>1 DEF Batch
  <2>4. InCall(Dispatch)' => call'[Dispatch].fd = batch[1].fd
    <3>1. CASE c = Dispatch
      BY <1>1, <3>1
    <3>2. CASE c # Dispatch
      <4>1. call'[Dispatch] = call[Dispatch]
        BY <1>1, <3>2, Names
      <4> QED
        BY <2>1, <4>1 DEF Batch, InCall
    <3> QED
      BY <3>1, <3>2
  <2>5. InCall(Dispatch)' /\ call'[Dispatch].sock # Nil => call'[Dispatch].sock = batch[1].sock
    <3>1. CASE c = Dispatch
      BY <1>1, <3>1
    <3>2. CASE c # Dispatch
      <4>1. call'[Dispatch] = call[Dispatch]
        BY <1>1, <3>2, Names
      <4> QED
        BY <2>1, <4>1 DEF Batch, InCall
    <3> QED
      BY <3>1, <3>2
  <2>6. ASSUME Len(call'[Loop].todo) > 7 \/ (InCall(Loop)' /\ Head(call'[Loop].todo) = "shut")
        PROVE  call'[Loop].fd = batch[1].fd /\ state'[batch[1].sock] # "listening"
    <3>1. c = Loop
      <4>1. CASE c # Loop
        <5>1. call'[Loop] = call[Loop] /\ ~InCall(Loop)
          BY <1>1, <4>1, Names
        <5> QED
          BY <2>6, <5>1 DEF InCall
      <4> QED
        BY <4>1
    <3>2. call'[Loop].todo = steps /\ Head(steps) # "shut"
      BY <1>1, <3>1
    <3>3. steps = CloseSteps
      <4>1. Len(steps) > 7
        BY <2>6, <3>2
      <4>2. steps \in {SendSteps, CloseSteps}
        BY <3>1, Names DEF MayBegin
      <4>3. ASSUME steps = SendSteps
            PROVE  FALSE
        <5>1. Len(steps) = 7
          BY <4>3, SendShape, Zenon
        <5> QED
          BY <4>1, <5>1
      <4> QED
        BY <4>2, <4>3
    <3> QED
      BY <1>1, <3>1, <3>3
  <2> QED
    BY <2>2, <2>3, <2>4, <2>5, <2>6 DEF Batch
<1> QED
  BY <1>1, <1>2, <1>5, <1>7, <1>8 DEF SockInv

\* A step that makes and deletes no object and changes no count.
LEMMA Framed ==
  ASSUME SockInv, UNCHANGED <<refCount, mSocket, socketMap, kernel, call>>,
         \A x \in Socks : Live(x)' <=> Live(x)
  PROVE  Calls' /\ Found' /\ Table' /\ Counts'
<1>1. Calls'
  BY DEF SockInv, Calls, InCall
<1>2. ASSUME NEW x
      PROVE  Live(x)' <=> Live(x)
  BY DEF Live
<1>3. ASSUME NEW c \in Callers
      PROVE  FoundBy(c)'
  <2>1. FoundBy(c)
    BY DEF SockInv, Found
  <2> DEFINE y == call[c].sock
  <2>2. InCall(c)' => InCall(c)
    BY DEF InCall
  <2>3. Live(y) => state'[y] \notin {"none", "deleted"} /\ y \in Socks
    BY DEF Live
  <2> QED
    BY <2>1, <2>2, <2>3 DEF FoundBy, Live
<1>4. Table'
  BY <1>2 DEF SockInv, Table, Live
<1>5. Counts'
  <2>1. \A c : InCall(c)' <=> InCall(c)
    BY DEF InCall
  <2>2. \A c : Turn(c)' <=> Turn(c)
    BY <2>1 DEF Turn
  <2>3. \A x : Entry(x)' = Entry(x)
    BY DEF Entry
  <2>4. \A c, x : HeldOf(c, x)' = HeldOf(c, x)
    BY DEF HeldOf
  <2>5. ASSUME NEW c \in Callers, CountsBy(c)
        PROVE  CountsBy(c)'
    BY <2>3, <2>4, <2>5 DEF CountsBy
  <2>6. CountsIdle => CountsIdle'
    BY <2>3 DEF CountsIdle
  <2>7. Counts
    BY DEF SockInv
  <2> QED
    BY <2>1, <2>2, <2>5, <2>6, <2>7 DEF Counts
<1> QED
  BY <1>1, <1>3, <1>4, <1>5 DEF Found

\* The loop's thread in a callback.
LEMMA CallbackTurn ==
  ASSUME SockInv, NEW s \in Socks, InCallback(s)
  PROVE  /\ Turn(Dispatch) /\ InCall(Dispatch) /\ ~InCall(Loop)
         /\ Head(call[Dispatch].todo) = "callback"
         /\ call[Dispatch].sock = s /\ Live(s) /\ mSocket[s] = batch[1].fd /\ batch[1].sock = s
         /\ MayBegin(Loop, SendSteps) /\ MayBegin(Loop, CloseSteps)
<1>1. /\ InCall(Dispatch) /\ ~InCall(Loop) /\ Head(call[Dispatch].todo) = "callback"
      /\ call[Dispatch].sock = s
  BY DEF InCallback, InCall
<1>2. s # Nil /\ Dispatch \in Callers
  BY Names
<1>3. Live(s) /\ mSocket[s] = call[Dispatch].fd
  BY <1>1, <1>2 DEF SockInv, Found, FoundBy
<1>4. call[Dispatch].fd = batch[1].fd /\ call[Dispatch].sock = batch[1].sock
  BY <1>1, <1>2 DEF SockInv, Batch
<1>5. MayBegin(Loop, SendSteps) /\ MayBegin(Loop, CloseSteps)
  BY <1>1 DEF MayBegin
<1> QED
  BY <1>1, <1>3, <1>4, <1>5 DEF Turn

\* A call that begins and nothing else but a state that changes.
LEMMA BeginsOnly ==
  ASSUME SockInv, NEW c \in Callers, NEW f \in Fds, NEW steps,
         MayBegin(c, steps), Called(c, f, steps),
         UNCHANGED <<refCount, mSocket, socketMap, kernel, looping, batch>>,
         handles' \subseteq Fds, state' \in [Socks -> States],
         \A x \in Socks : Live(x)' <=> Live(x),
         c = Loop /\ state[batch[1].sock] # "listening" => state'[batch[1].sock] # "listening",
         c = Dispatch => f = batch[1].fd,
         steps = CloseSteps => f = batch[1].fd /\ state[batch[1].sock] # "listening"
  PROVE  SockInv'
<1>1. /\ refCount' \in [Socks -> Nat] /\ mSocket' \in [Socks -> Fds \union {Nil}]
      /\ kernel' \in [Fds -> Socks \union {Nil}] /\ socketMap' \in [Fds -> Socks \union {Nil}]
  BY DEF SockInv, Types
<1>2. \A x \in Socks : Entry(x)' = Entry(x)
  BY DEF Entry
<1>3. Table'
  <2>1. \A x : Live(x)' <=> Live(x)
    BY DEF Live
  <2> QED
    BY <2>1 DEF SockInv, Table, Live
<1>4. \A i \in 1..Len(batch) : kernel[batch[i].fd] = batch[i].sock =>
                                 kernel'[batch[i].fd] = batch[i].sock
  OBVIOUS
<1>5. \A x \in Socks : Live(x) => /\ Live(x)' /\ mSocket'[x] = mSocket[x]
                                  /\ refCount'[x] = refCount[x] /\ Entry(x)' = Entry(x)
  BY <1>2
<1>6. \A x \in Socks : Live(x)' /\ ~Live(x) => refCount'[x] = 1 /\ Entry(x)' = 1
  OBVIOUS
<1> QED
  BY <1>1, <1>3, <1>4, <1>5, <1>6, Begins

LEMMA OpenKeeps ==
  ASSUME SockInv, NEW s \in Socks, NEW f \in Fds, NEW st \in States, Open(s, f, st)
  PROVE  SockInv'
<1>1. /\ ~looping /\ st \in {"listening", "connecting", "connected"} /\ Create(s, f, st)
      /\ handles' \subseteq Fds /\ UNCHANGED <<looping, batch, call>>
  BY DEF Open, SockInv, Types
<1>2. /\ state' \in [Socks -> States] /\ refCount' \in [Socks -> Nat]
      /\ mSocket' \in [Socks -> Fds \union {Nil}] /\ kernel' \in [Fds -> Socks \union {Nil}]
      /\ socketMap' \in [Fds -> Socks \union {Nil}]
      /\ ~Live(s) /\ kernel[f] = Nil /\ socketMap[f] = Nil
      /\ \A x \in Socks : Live(x)' <=> Live(x) \/ x = s
      /\ \A x \in Socks : Live(x) => /\ state'[x] = state[x] /\ mSocket'[x] = mSocket[x]
                                     /\ refCount'[x] = refCount[x] /\ Entry(x)' = Entry(x)
      /\ refCount'[s] = 1 /\ Entry(s)' = 1
      /\ \A g \in Fds \ {f} : kernel'[g] = kernel[g] /\ socketMap'[g] = socketMap[g]
      /\ Table'
  BY <1>1, Created
<1>3. ~InCall(Dispatch) /\ ~InCall(Loop) /\ batch = <<>>
  BY <1>1 DEF SockInv, Turns
<1>4. \A c \in Callers : (InCall(c)' <=> InCall(c)) /\ (Turn(c)' <=> Turn(c))
  BY <1>1 DEF InCall, Turn
<1>5. Types' /\ Calls' /\ Turns'
  <2>1. Types'
    BY <1>1, <1>2 DEF SockInv, Types
  <2>2. Calls'
    BY <1>1 DEF SockInv, Calls, InCall
  <2>3. Turns'
    BY <1>1 DEF SockInv, Turns, InCall
  <2> QED
    BY <2>1, <2>2, <2>3
<1>6. Found'
  <2> SUFFICES ASSUME NEW c \in Callers, InCall(c), call[c].sock # Nil
               PROVE  FoundBy(c)'
    BY <1>1, <1>4 DEF Found, FoundBy
  <2>1. PICK y \in Socks : call[c].sock = y
    BY CallFacts DEF SockInv
  <2>2. FoundBy(c) /\ call[c].fd \in Fds /\ Shaped(call[c].todo) /\ call[c].todo # <<>>
    BY CallFacts DEF SockInv, Found, Calls, InCall
  <2>3. /\ Live(y) /\ mSocket[y] = call[c].fd
        /\ Head(call[c].todo) = "inc" => call[c].val = refCount[y] + 1
        /\ Head(call[c].todo) = "dec" => call[c].val = refCount[y] - 1
        /\ Len(call[c].todo) > 7 => socketMap[call[c].fd] = y
        /\ Head(call[c].todo) = "shut" => kernel[call[c].fd] = y /\ socketMap[call[c].fd] = Nil
    BY <2>1, <2>2 DEF FoundBy
  <2>4. /\ state'[y] \notin {"none", "deleted"} /\ mSocket'[y] = mSocket[y] /\ refCount'[y] = refCount[y]
    BY <1>2, <2>3 DEF Live
  <2>5. /\ socketMap[call[c].fd] = y => socketMap'[call[c].fd] = y
        /\ kernel[call[c].fd] = y => /\ kernel'[call[c].fd] = y
                                     /\ socketMap'[call[c].fd] = socketMap[call[c].fd]
    <3>1. y # Nil
      BY Names
    <3> QED
      BY <1>2, <2>2, <3>1
  <2>6. PICK n \in Nat : Len(call[c].todo) = n
    BY <2>2, NextStep
  <2>7. PICK h : Head(call[c].todo) = h
    OBVIOUS
  <2>8. /\ call'[c].sock = y /\ mSocket'[y] = call'[c].fd
        /\ Head(call'[c].todo) = h /\ Len(call'[c].todo) = n
        /\ h = "inc" => call'[c].val = refCount'[y] + 1
        /\ h = "dec" => call'[c].val = refCount'[y] - 1
        /\ n > 7 => socketMap'[call'[c].fd] = y
        /\ h = "shut" => kernel'[call'[c].fd] = y /\ socketMap'[call'[c].fd] = Nil
    BY <1>1, <2>1, <2>3, <2>4, <2>5, <2>6, <2>7
  <2> QED
    BY <2>4, <2>8, FoundOn
<1>7. Counts'
  <2>1. ASSUME NEW c \in Callers, Turn(c), CountsBy(c)
        PROVE  CountsBy(c)'
    <3>1. c # Loop
      BY <1>3, <2>1 DEF Turn
    <3>2. ASSUME NEW x \in Socks, Live(x)'
          PROVE  /\ refCount'[x] = Entry(x)' + HeldOf(c, x)' + 0
                 /\ refCount'[x] = 0 => call'[c].sock = x /\ Head(call'[c].todo) = "test"
      <4>1. HeldOf(c, x)' = HeldOf(c, x)
        BY <1>1 DEF HeldOf
      <4>2. CASE Live(x)
        <5>1. /\ refCount[x] = Entry(x) + HeldOf(c, x) + 0
              /\ refCount[x] = 0 => call[c].sock = x /\ Head(call[c].todo) = "test"
          BY <2>1, <3>1, <4>2 DEF CountsBy
        <5>2. refCount'[x] = refCount[x] /\ Entry(x)' = Entry(x)
          BY <1>2, <4>2
        <5> QED
          BY <1>1, <4>1, <5>1, <5>2
      <4>3. CASE ~Live(x)
        <5>1. x = s
          BY <1>2, <3>2, <4>3
        <5>2. call[c].sock # x
          BY <2>1, <4>3, Names DEF SockInv, Found, FoundBy, Turn
        <5>3. HeldOf(c, x) = 0
          BY <5>2 DEF HeldOf
        <5> QED
          BY <1>2, <4>1, <5>1, <5>3
      <4> QED
        BY <4>2, <4>3
    <3> QED
      BY <3>1, <3>2 DEF CountsBy
  <2>2. CountsIdle => CountsIdle'
    BY <1>2 DEF CountsIdle
  <2>3. Counts
    BY DEF SockInv
  <2> QED
    BY <1>4, <2>1, <2>2, <2>3 DEF Counts
<1>8. Batch'
  <2>1. batch' = <<>> /\ Len(batch') = 0 /\ ~InCall(Dispatch)' /\ ~InCall(Loop)'
    BY <1>1, <1>3 DEF InCall
  <2>2. Len(call'[Loop].todo) = 0
    BY <2>1 DEF InCall
  <2> QED
    BY <2>1, <2>2 DEF Batch
<1> QED
  BY <1>5, <1>2, <1>6, <1>7, <1>8 DEF SockInv

LEMMA OpenFailsKeeps ==
  ASSUME SockInv, NEW s \in Socks, OpenFails(s)
  PROVE  SockInv'
<1>1. /\ ~looping /\ state[s] = "none" /\ state' = [state EXCEPT ![s] = "deleted"]
      /\ UNCHANGED <<refCount, mSocket, socketMap, kernel, handles, looping, batch, call>>
  BY DEF OpenFails
<1>2. Types
  BY DEF SockInv
<1>3. state' \in [Socks -> States] /\ \A x \in Socks : Live(x)' <=> Live(x)
  BY <1>1, <1>2 DEF Types, States, Live
<1>4. Calls' /\ Found' /\ Table' /\ Counts'
  BY <1>1, <1>3, Framed
<1>5. ~InCall(Dispatch) /\ ~InCall(Loop) /\ batch = <<>>
  BY <1>1 DEF SockInv, Turns
<1>6. Types' /\ Turns'
  <2>1. Types'
    BY <1>1, <1>2, <1>3 DEF Types
  <2>2. Turns'
    BY <1>1 DEF SockInv, Turns, InCall
  <2> QED
    BY <2>1, <2>2
<1>7. Batch'
  <2>1. batch' = <<>> /\ Len(batch') = 0 /\ ~InCall(Dispatch)' /\ ~InCall(Loop)'
    BY <1>1, <1>5 DEF InCall
  <2>2. Len(call'[Loop].todo) = 0
    BY <2>1 DEF InCall
  <2> QED
    BY <2>1, <2>2 DEF Batch
<1> QED
  BY <1>4, <1>6, <1>7 DEF SockInv

LEMMA ThreadSendKeeps ==
  ASSUME SockInv, Serialized, NEW t \in Threads, NEW f \in Fds, ThreadSend(t, f)
  PROVE  SockInv'
<1>1. /\ t # Loop /\ (\A c \in Callers : ~InCall(c)) /\ Called(t, f, SendSteps)
      /\ UNCHANGED <<state, refCount, mSocket, socketMap, kernel, handles, looping, batch>>
  BY DEF ThreadSend, InCall
<1>2. t \in Callers /\ t # Dispatch /\ MayBegin(t, SendSteps)
  BY <1>1, RefAssumption DEF MayBegin, Callers
<1>3. SendSteps # CloseSteps
  BY SendShape, CloseShape
<1>4. handles' \subseteq Fds /\ state' \in [Socks -> States]
  BY <1>1 DEF SockInv, Types
<1>5. \A x \in Socks : Live(x)' <=> Live(x)
  BY <1>1 DEF Live
<1> QED
  BY <1>1, <1>2, <1>3, <1>4, <1>5, BeginsOnly

LEMMA PollKeeps ==
  ASSUME SockInv, Poll
  PROVE  SockInv'
<1>1. /\ batch = <<>> /\ ~InCall(Dispatch) /\ looping' = TRUE
      /\ UNCHANGED <<state, refCount, mSocket, socketMap, kernel, handles, call>>
  BY DEF Poll, InCall
<1>2. PICK fds \in SUBSET {f \in Fds : kernel[f] # Nil} : \E q \in SetToSeqs(fds) :
        batch' = [i \in 1..Len(q) |-> [fd |-> q[i], sock |-> kernel[q[i]]]]
  BY DEF Poll
<1>3. PICK q \in SetToSeqs(fds) :
        batch' = [i \in 1..Len(q) |-> [fd |-> q[i], sock |-> kernel[q[i]]]]
  BY <1>2
<1>4. Cardinality(fds) \in Nat
  <2>1. fds \in SUBSET Fds
    BY <1>2
  <2>2. IsFiniteSet(fds)
    BY <2>1, RefAssumption, FS_Subset
  <2> QED
    BY <2>2, FS_CardinalityType
<1>5. /\ q \in [1..Cardinality(fds) -> fds]
      /\ \A i, j \in 1..Cardinality(fds) : i # j => q[i] # q[j]
  BY <1>3 DEF SetToSeqs
<1>6. PICK n \in Nat : n = Cardinality(fds)
  BY <1>4
<1>7. q \in Seq(fds) /\ Len(q) = n
  BY <1>5, <1>6
<1>8. \A i \in 1..n : q[i] \in Fds /\ kernel[q[i]] \in Socks
  <2>1. \A i \in 1..n : q[i] \in fds
    BY <1>5, <1>6
  <2>2. kernel \in [Fds -> Socks \union {Nil}]
    BY DEF SockInv, Types
  <2> QED
    BY <1>2, <2>1, <2>2
<1>9. \A i \in 1..n : batch'[i].fd = q[i] /\ batch'[i].sock = kernel[q[i]] /\ batch'[i] \in Events
  BY <1>3, <1>7, <1>8 DEF Events
<1>10. batch' \in Seq(Events) /\ Len(batch') = n
  <2>1. batch' \in [1..n -> Events]
    BY <1>3, <1>7, <1>9
  <2> QED
    BY <2>1
<1>11. Types'
  BY <1>1, <1>10 DEF SockInv, Types
<1>12. ~InCall(Loop) /\ ~InCall(Dispatch)' /\ ~InCall(Loop)'
  BY <1>1 DEF SockInv, Turns, InCall
<1>13. Turns'
  <2>1. \A t \in Threads \ {Loop} : InCall(t)' => \A c \in Callers \ {t} : ~InCall(c)'
    BY <1>1 DEF SockInv, Turns, InCall
  <2> QED
    BY <1>1, <1>12, <2>1 DEF Turns
<1>14. Calls' /\ Found' /\ Table' /\ Counts'
  <2>1. \A x \in Socks : Live(x)' <=> Live(x)
    BY <1>1 DEF Live
  <2> QED
    BY <1>1, <2>1, Framed
<1>15. Batch'
  <2>1. Len(call'[Loop].todo) = 0
    BY <1>12 DEF InCall
  <2>2. \A i \in 1..Len(batch') : kernel'[batch'[i].fd] = batch'[i].sock
    BY <1>1, <1>9, <1>10
  <2>3. \A i, j \in 1..Len(batch') : batch'[i].fd = batch'[j].fd => i = j
    BY <1>5, <1>6, <1>9, <1>10
  <2> QED
    BY <1>12, <2>1, <2>2, <2>3 DEF Batch
<1> QED
  BY <1>11, <1>13, <1>14, <1>15 DEF SockInv

LEMMA DispatchNextKeeps ==
  ASSUME SockInv, Serialized, DispatchNext
  PROVE  SockInv'
<1>1. /\ batch # <<>> /\ (\A c \in Callers : ~InCall(c))
      /\ Called(Dispatch, Head(batch).fd, EventSteps)
      /\ UNCHANGED <<state, refCount, mSocket, socketMap, kernel, handles, looping, batch>>
  BY DEF DispatchNext, InCall
<1>2. MayBegin(Dispatch, EventSteps)
  BY <1>1 DEF MayBegin, SockInv, Turns
<1>3. PICK f \in Fds : f = batch[1].fd
  BY <1>1, BatchEvents
<1>4. Called(Dispatch, f, EventSteps)
  <2>1. Head(batch) = batch[1]
    BY <1>1, BatchEvents
  <2> QED
    BY <1>1, <1>3, <2>1
<1>5. EventSteps # CloseSteps
  BY EventShape, CloseShape
<1>6. handles' \subseteq Fds /\ state' \in [Socks -> States]
  BY <1>1 DEF SockInv, Types
<1>7. \A x \in Socks : Live(x)' <=> Live(x)
  BY <1>1 DEF Live
<1>8. Dispatch \in Callers /\ Dispatch # Loop
  BY Names
<1> QED
  BY <1>1, <1>2, <1>3, <1>4, <1>5, <1>6, <1>7, <1>8, BeginsOnly

LEMMA AcceptKeeps ==
  ASSUME SockInv, NEW s \in Socks, NEW new \in Socks, NEW f \in Fds, Accept(s, new, f)
  PROVE  SockInv'
<1>1. /\ InCallback(s) /\ Create(new, f, "connected") /\ handles' = handles \union {f}
      /\ Called(Loop, f, SendSteps) /\ UNCHANGED <<looping, batch>>
  BY DEF Accept, OptionSteps, SendSteps
<1>2. /\ Turn(Dispatch) /\ Live(s) /\ batch[1].sock = s /\ MayBegin(Loop, SendSteps)
  BY <1>1, CallbackTurn
<1>3. /\ state' \in [Socks -> States] /\ refCount' \in [Socks -> Nat]
      /\ mSocket' \in [Socks -> Fds \union {Nil}] /\ kernel' \in [Fds -> Socks \union {Nil}]
      /\ socketMap' \in [Fds -> Socks \union {Nil}]
      /\ ~Live(new) /\ kernel[f] = Nil
      /\ \A x \in Socks : Live(x)' <=> Live(x) \/ x = new
      /\ \A x \in Socks : Live(x) => /\ state'[x] = state[x] /\ mSocket'[x] = mSocket[x]
                                     /\ refCount'[x] = refCount[x] /\ Entry(x)' = Entry(x)
      /\ refCount'[new] = 1 /\ Entry(new)' = 1
      /\ \A g \in Fds \ {f} : kernel'[g] = kernel[g]
      /\ Table'
  <2>1. "connected" \in {"listening", "connecting", "connected"}
    OBVIOUS
  <2> QED
    BY <1>1, <2>1, Created
<1>4. handles' \subseteq Fds
  BY <1>1 DEF SockInv, Types
<1>5. \A x \in Socks : Live(x) => /\ Live(x)' /\ mSocket'[x] = mSocket[x]
                                  /\ refCount'[x] = refCount[x] /\ Entry(x)' = Entry(x)
  BY <1>3
<1>6. \A x \in Socks : Live(x)' /\ ~Live(x) => refCount'[x] = 1 /\ Entry(x)' = 1
  BY <1>3
<1>7. \A i \in 1..Len(batch) : kernel[batch[i].fd] = batch[i].sock =>
                                 kernel'[batch[i].fd] = batch[i].sock
  <2>1. \A i \in 1..Len(batch) : batch[i].fd \in Fds /\ batch[i].sock # Nil
    BY BatchEvents, Names
  <2> QED
    BY <1>3, <2>1
<1>8. state'[batch[1].sock] = state[batch[1].sock]
  BY <1>2, <1>3
<1>9. SendSteps # CloseSteps /\ Loop \in Callers /\ Loop # Dispatch
  BY SendShape, CloseShape, Names
<1> QED
  BY <1>1, <1>2, <1>3, <1>4, <1>5, <1>6, <1>7, <1>8, <1>9, Begins

LEMMA ConfirmKeeps ==
  ASSUME SockInv, NEW s \in Socks, Confirm(s)
  PROVE  SockInv'
<1>1. /\ state[s] = "connecting" /\ state' = [state EXCEPT ![s] = "connected"]
      /\ UNCHANGED <<refCount, mSocket, socketMap, kernel, handles, looping, batch, call>>
  BY DEF Confirm
<1>2. Types
  BY DEF SockInv
<1>3. /\ state' \in [Socks -> States]
      /\ \A x \in Socks : Live(x)' <=> Live(x)
      /\ \A x \in Socks : state[x] # "listening" => state'[x] # "listening"
  BY <1>1, <1>2 DEF Types, States, Live
<1>4. Calls' /\ Found' /\ Table' /\ Counts'
  BY <1>1, <1>3, Framed
<1>5. Types' /\ Turns'
  <2>1. Types'
    BY <1>1, <1>2, <1>3 DEF Types
  <2>2. Turns'
    BY <1>1 DEF SockInv, Turns, InCall
  <2> QED
    BY <2>1, <2>2
<1>6. Batch'
  <2>1. batch # <<>> /\ state[batch[1].sock] # "listening" => state'[batch[1].sock] # "listening"
    BY <1>3, BatchEvents
  <2>2. InCall(Dispatch) => batch # <<>>
    BY DEF SockInv, Turns
  <2>3. Len(call[Loop].todo) > 7 => InCall(Loop)
    BY DEF InCall
  <2>4. InCall(Loop) => InCall(Dispatch)
    BY DEF SockInv, Turns
  <2>5. Batch
    BY DEF SockInv
  <2>6. \A i \in 1..Len(batch) :
          \/ kernel[batch[i].fd] = batch[i].sock
          \/ /\ i = 1 /\ InCall(Dispatch) /\ call[Dispatch].sock # Nil
             /\ state'[batch[1].sock] # "listening"
    BY <2>1, <2>2, <2>5 DEF Batch
  <2>7. Len(call[Loop].todo) > 7 \/ (InCall(Loop) /\ Head(call[Loop].todo) = "shut") =>
          call[Loop].fd = batch[1].fd /\ state'[batch[1].sock] # "listening"
    BY <2>1, <2>2, <2>3, <2>4, <2>5 DEF Batch
  <2> QED
    BY <1>1, <2>5, <2>6, <2>7 DEF Batch, InCall
<1> QED
  BY <1>4, <1>5, <1>6 DEF SockInv

LEMMA CallbackSendKeeps ==
  ASSUME SockInv, NEW s \in Socks, NEW f \in Fds, CallbackSend(s, f)
  PROVE  SockInv'
<1>1. /\ InCallback(s) /\ Called(Loop, f, SendSteps)
      /\ UNCHANGED <<state, refCount, mSocket, socketMap, kernel, handles, looping, batch>>
  BY DEF CallbackSend
<1>2. MayBegin(Loop, SendSteps)
  BY <1>1, CallbackTurn
<1>3. SendSteps # CloseSteps /\ Loop \in Callers /\ Loop # Dispatch
  BY SendShape, CloseShape, Names
<1>4. handles' \subseteq Fds /\ state' \in [Socks -> States]
  BY <1>1 DEF SockInv, Types
<1>5. \A x \in Socks : Live(x)' <=> Live(x)
  BY <1>1 DEF Live
<1> QED
  BY <1>1, <1>2, <1>3, <1>4, <1>5, BeginsOnly

LEMMA CallbackCloseKeeps ==
  ASSUME SockInv, NEW s \in Socks, NEW f \in Fds, CallbackClose(s, f)
  PROVE  SockInv'
<1>1. /\ InCallback(s) /\ Called(Loop, f, CloseSteps) /\ state[s] # "listening"
      /\ f = mSocket[s] /\ handles' = handles \ {f}
      /\ UNCHANGED state \/ state' = [state EXCEPT ![s] = "closing"]
      /\ UNCHANGED <<refCount, mSocket, socketMap, kernel, looping, batch>>
  BY DEF CallbackClose, Closable
<1>2. /\ MayBegin(Loop, CloseSteps) /\ Live(s) /\ mSocket[s] = batch[1].fd /\ batch[1].sock = s
  BY <1>1, CallbackTurn
<1>3. Loop \in Callers /\ Loop # Dispatch
  BY Names
<1>4. handles' \subseteq Fds /\ state \in [Socks -> States]
  BY <1>1 DEF SockInv, Types
<1>5. /\ state' \in [Socks -> States] /\ state'[s] # "listening"
      /\ \A x \in Socks : Live(x)' <=> Live(x)
  BY <1>1, <1>2, <1>4 DEF Live, States
<1> QED
  BY <1>1, <1>2, <1>3, <1>4, <1>5, BeginsOnly

-----------------------------------------------------------------------------
(* The theorems.                                                           *)

LEMMA SockInit == Init => SockInv
<1> SUFFICES ASSUME Init
             PROVE  SockInv
  OBVIOUS
<1>1. /\ state = [s \in Socks |-> "none"] /\ refCount = [s \in Socks |-> 0]
      /\ mSocket = [s \in Socks |-> Nil] /\ socketMap = [f \in Fds |-> Nil]
      /\ kernel = [f \in Fds |-> Nil] /\ handles = {} /\ looping = FALSE /\ batch = <<>>
      /\ call = [c \in Callers |-> Idle]
  BY DEF Init
<1>2. Idle \in Records /\ Idle.todo = <<>> /\ Idle.sock = Nil
  BY DEF Idle, Records
<1>3. Types
  <2>1. /\ state \in [Socks -> States] /\ refCount \in [Socks -> Nat]
        /\ mSocket \in [Socks -> Fds \union {Nil}]
    BY <1>1 DEF States
  <2>2. /\ socketMap \in [Fds -> Socks \union {Nil}] /\ kernel \in [Fds -> Socks \union {Nil}]
        /\ handles \subseteq Fds /\ looping \in BOOLEAN
    BY <1>1
  <2>3. batch \in Seq(Events)
    BY <1>1
  <2>4. call \in [Callers -> Records]
    BY <1>1, <1>2
  <2> QED
    BY <2>1, <2>2, <2>3, <2>4 DEF Types
<1>4. \A c \in Callers : call[c] = Idle /\ ~InCall(c)
  BY <1>1, <1>2 DEF InCall
<1>5. Calls
  <2>1. \A steps \in {SendSteps, CloseSteps, EventSteps} : Suffix(<<>>, steps)
    BY WholeCall, SendShape, CloseShape, EventShape
  <2> QED
    BY <1>2, <1>4, <2>1, Names DEF Calls, Callers
<1>6. Turns
  BY <1>1, <1>4, Names DEF Turns, Callers
<1>7. Found
  BY <1>4 DEF Found, FoundBy
<1>8. \A s \in Socks : ~Live(s)
  BY <1>1 DEF Live
<1>9. Table
  BY <1>1, <1>8 DEF Table
<1>10. Counts
  BY <1>4, <1>8 DEF Counts, Turn, CountsIdle
<1>11. Batch
  <2>1. Len(batch) = 0 /\ ~InCall(Dispatch) /\ ~InCall(Loop) /\ Len(call[Loop].todo) = 0
    BY <1>1, <1>2, <1>4, Names
  <2> QED
    BY <2>1 DEF Batch
<1> QED
  BY <1>3, <1>5, <1>6, <1>7, <1>9, <1>10, <1>11 DEF SockInv

LEMMA SockNext ==
  ASSUME Serialized, SockInv, [Next]_vars
  PROVE  SockInv'
<1>1. ASSUME NEW s \in Socks, OpenFails(s)
      PROVE  SockInv'
  BY <1>1, OpenFailsKeeps
<1>2. ASSUME NEW s \in Socks, Confirm(s)
      PROVE  SockInv'
  BY <1>2, ConfirmKeeps
<1>3. ASSUME NEW s \in Socks, NEW f \in Fds, NEW st \in States, Open(s, f, st)
      PROVE  SockInv'
  BY <1>3, OpenKeeps
<1>4. ASSUME NEW s \in Socks, NEW f \in Fds, NEW new \in Socks, Accept(s, new, f)
      PROVE  SockInv'
  BY <1>4, AcceptKeeps
<1>5. ASSUME NEW s \in Socks, NEW f \in Fds, CallbackSend(s, f)
      PROVE  SockInv'
  BY <1>5, CallbackSendKeeps
<1>6. ASSUME NEW s \in Socks, NEW f \in Fds, CallbackClose(s, f)
      PROVE  SockInv'
  BY <1>6, CallbackCloseKeeps
<1>7. ASSUME NEW t \in Threads, NEW f \in Fds, ThreadSend(t, f)
      PROVE  SockInv'
  BY <1>7, ThreadSendKeeps
<1>8. CASE Poll
  BY <1>8, PollKeeps
<1>9. CASE DispatchNext
  BY <1>9, DispatchNextKeeps
<1>10. ASSUME NEW c \in Callers, Step(c)
       PROVE  SockInv'
  BY <1>10, StepKeeps
<1>11. CASE UNCHANGED vars
  <2>1. UNCHANGED <<state, refCount, mSocket, socketMap, kernel, handles, looping, batch, call>>
    BY <1>11 DEF vars
  <2>2. \A x \in Socks : Live(x)' <=> Live(x)
    BY <2>1 DEF Live
  <2>3. Calls' /\ Found' /\ Table' /\ Counts'
    BY <2>1, <2>2, Framed
  <2>4. Types'
    BY <2>1 DEF SockInv, Types
  <2>5. Turns'
    BY <2>1 DEF SockInv, Turns, InCall
  <2>6. Batch'
    BY <2>1 DEF SockInv, Batch, InCall
  <2> QED
    BY <2>3, <2>4, <2>5, <2>6 DEF SockInv
<1> QED
  BY <1>1, <1>2, <1>3, <1>4, <1>5, <1>6, <1>7, <1>8, <1>9, <1>10, <1>11 DEF Next

\* If the other threads wait while a call is in progress, SockInv holds always.
THEOREM SocketInvariant ==
  ASSUME Serialized
  PROVE  Spec => []SockInv
<1>1. SockInv /\ [Next]_vars => SockInv'
  BY SockNext
<1> QED
  BY <1>1, SockInit, PTL DEF Spec

\* TypeOK: then the variables keep their types; a call has a descriptor, and no
\* count goes below 0.
THEOREM SocketTypes ==
  ASSUME Serialized
  PROVE  Spec => []TypeOK
<1>1. SockInv => TypeOK
  BY DEF SockInv, Types, Calls, InCall, TypeOK
<1> QED
  BY <1>1, SocketInvariant, PTL

\* NoUseAfterFree: then no call works on an object that has been deleted, the
\* loop's after a callback that closed the socket included.
THEOREM NoUseAfterFreeHolds ==
  ASSUME Serialized
  PROVE  Spec => []NoUseAfterFree
<1>1. SockInv => NoUseAfterFree
  <2> SUFFICES ASSUME SockInv, NEW c \in Callers, call[c].sock # Nil
               PROVE  state[call[c].sock] # "deleted"
    BY DEF NoUseAfterFree
  <2>1. InCall(c)
    BY DEF SockInv, Calls, InCall
  <2> QED
    BY <2>1 DEF SockInv, Found, FoundBy, Live
<1> QED
  BY <1>1, SocketInvariant, PTL

\* NoLeak: then between calls every object is open and in the table with one
\* reference, or deleted.
THEOREM NoLeakHolds ==
  ASSUME Serialized
  PROVE  Spec => []NoLeak
<1>1. SockInv => NoLeak
  <2> SUFFICES ASSUME SockInv, \A c \in Callers : call[c].todo = <<>>, NEW s \in Socks, Live(s)
               PROVE  refCount[s] = 1 /\ socketMap[mSocket[s]] = s /\ kernel[mSocket[s]] = s
    BY DEF NoLeak, Live
  <2>1. refCount[s] = 1 /\ Entry(s) = 1
    BY DEF SockInv, Counts, CountsIdle, InCall
  <2>2. socketMap[mSocket[s]] = s /\ mSocket[s] \in Fds /\ s # Nil
    BY <2>1, Names DEF Entry, SockInv, Table
  <2> QED
    BY <2>1, <2>2 DEF SockInv, Table
<1> QED
  BY <1>1, SocketInvariant, PTL

\* EventOfItsSocket: then an event goes to the object it was reported for.
THEOREM EventOfItsSocketHolds ==
  ASSUME Serialized
  PROVE  Spec => []EventOfItsSocket
<1>1. SockInv => EventOfItsSocket
  <2> SUFFICES ASSUME SockInv, batch # <<>>, call[Dispatch].sock # Nil
               PROVE  call[Dispatch].sock = Head(batch).sock
    BY DEF EventOfItsSocket
  <2>1. InCall(Dispatch)
    BY Names DEF SockInv, Calls, InCall
  <2>2. Head(batch) = batch[1]
    BY BatchEvents
  <2> QED
    BY <2>1, <2>2 DEF SockInv, Batch
<1> QED
  BY <1>1, SocketInvariant, PTL

-----------------------------------------------------------------------------
(* The counts of RefCounted, from what each caller holds.                  *)

\* How often a step is left, in calls that work on the object.
LeftIn(s, step) ==
  Cardinality({p \in Callers \X (1..Len(CloseSteps)) :
                 /\ call[p[1]].sock = s
                 /\ p[2] <= Len(call[p[1]].todo)
                 /\ call[p[1]].todo[p[2]] = step})

LEMMA Copies ==
  ASSUME NEW c, NEW P, IsFiniteSet(P)
  PROVE  IsFiniteSet({c} \X P) /\ Cardinality({c} \X P) = Cardinality(P)
<1>1. IsFiniteSet({c}) /\ Cardinality({c}) = 1 /\ Cardinality(P) \in Nat
  BY FS_Singleton, FS_CardinalityType
<1>2. IsFiniteSet({c} \X P) /\ Cardinality({c} \X P) = Cardinality({c}) * Cardinality(P)
  BY <1>1, FS_Product
<1> QED
  BY <1>1, <1>2

LEMMA FewElements ==
  /\ Cardinality({}) = 0
  /\ \A x : Cardinality({x}) = 1
  /\ \A x, y : x # y => Cardinality({x} \union {y}) = 2
<1>1. Cardinality({}) = 0 /\ \A x : IsFiniteSet({x}) /\ Cardinality({x}) = 1
  BY FS_EmptySet, FS_Singleton, Zenon
<1>2. ASSUME NEW x, NEW y, x # y
      PROVE  Cardinality({x} \union {y}) = 2
  <2>1. IsFiniteSet({x}) /\ Cardinality({x}) = 1 /\ y \notin {x}
    BY <1>1, <1>2
  <2>2. Cardinality({x} \union {y}) = Cardinality({x}) + 1
    BY <2>1, FS_AddElement
  <2> QED
    BY <2>1, <2>2
<1> QED
  BY <1>1, <1>2

\* Where the steps are that change what a call holds.
LEMMA ShortPlaces ==
  ASSUME NEW todo, NEW n \in 0..7, NEW steps, \A i \in 1..n : todo[i] = steps[7 - n + i],
         \A k \in 1..7 :
           /\ steps[k] = "dec" <=> k = 6
           /\ steps[k] = "inc" <=> k = 3
           /\ steps[k] # "unmap"
  PROVE  /\ {i \in 1..11 : i <= n /\ todo[i] = "dec"} = IF n >= 2 THEN {n - 1} ELSE {}
         /\ {i \in 1..11 : i <= n /\ todo[i] = "inc"} = IF n >= 5 THEN {n - 4} ELSE {}
         /\ {i \in 1..11 : i <= n /\ todo[i] = "unmap"} = {}
<1>1. ASSUME NEW i \in 1..11, i <= n
      PROVE  /\ todo[i] = "dec" <=> i = n - 1
             /\ todo[i] = "inc" <=> i = n - 4
             /\ todo[i] # "unmap"
  <2>1. 7 - n + i \in 1..7 /\ todo[i] = steps[7 - n + i]
    BY <1>1
  <2>2. (7 - n + i = 6 <=> i = n - 1) /\ (7 - n + i = 3 <=> i = n - 4)
    BY <1>1
  <2> QED
    BY <2>1, <2>2
<1> QED
  BY <1>1

LEMMA LongPlaces ==
  ASSUME NEW todo, NEW n \in 0..11, NEW steps, \A i \in 1..n : todo[i] = steps[11 - n + i],
         \A k \in 1..11 :
           /\ steps[k] = "dec" <=> k \in {7, 10}
           /\ steps[k] = "inc" <=> k = 3
           /\ steps[k] = "unmap" <=> k = 4
  PROVE  /\ {i \in 1..11 : i <= n /\ todo[i] = "dec"}
              = (IF n >= 2 THEN {n - 1} ELSE {}) \union (IF n >= 5 THEN {n - 4} ELSE {})
         /\ {i \in 1..11 : i <= n /\ todo[i] = "inc"} = IF n >= 9 THEN {n - 8} ELSE {}
         /\ {i \in 1..11 : i <= n /\ todo[i] = "unmap"} = IF n >= 8 THEN {n - 7} ELSE {}
<1>1. ASSUME NEW i \in 1..11, i <= n
      PROVE  /\ todo[i] = "dec" <=> i \in {n - 1, n - 4}
             /\ todo[i] = "inc" <=> i = n - 8
             /\ todo[i] = "unmap" <=> i = n - 7
  <2>1. 11 - n + i \in 1..11 /\ todo[i] = steps[11 - n + i]
    BY <1>1
  <2>2. /\ 11 - n + i \in {7, 10} <=> i \in {n - 1, n - 4}
        /\ 11 - n + i = 3 <=> i = n - 8
        /\ 11 - n + i = 4 <=> i = n - 7
    BY <1>1
  <2> QED
    BY <2>1, <2>2
<1> QED
  BY <1>1

\* Where in a call a step is left.
LeftAt(todo, step) == {i \in 1..11 : i <= Len(todo) /\ todo[i] = step}

\* For each reference a call holds, one m_refCount-- more is left in it than
\* m_refCount++ and entries to take over.
LEMMA HeldIsLeft ==
  ASSUME NEW todo, Shaped(todo)
  PROVE  /\ \A step : IsFiniteSet(LeftAt(todo, step)) /\ Cardinality(LeftAt(todo, step)) \in Nat
         /\ Held(todo) = Cardinality(LeftAt(todo, "dec")) - Cardinality(LeftAt(todo, "inc"))
                            - Cardinality(LeftAt(todo, "unmap"))
<1>1. PICK n \in Nat : n = Len(todo)
  BY DEF Shaped
<1>2. (todo = <<>> <=> n = 0) /\ (n > 0 => Head(todo) = todo[1])
  BY <1>1, EmptySeq DEF Shaped
<1>3. Held(todo) = IF n = 0 THEN 0
                   ELSE IF todo[1] \in {"find", "load", "inc"} THEN 0
                   ELSE IF todo[1] \in {"use", "callback", "unmap"} THEN 1
                   ELSE IF todo[1] = "shut" THEN 2
                   ELSE IF todo[1] \in {"drop", "dec"} THEN (IF n > 3 THEN 2 ELSE 1)
                   ELSE (IF n > 1 THEN 1 ELSE 0)
  BY <1>1, <1>2 DEF Held
<1>4. ASSUME NEW step
      PROVE  IsFiniteSet(LeftAt(todo, step)) /\ Cardinality(LeftAt(todo, step)) \in Nat
  <2>1. LeftAt(todo, step) \in SUBSET (1..11)
    BY DEF LeftAt
  <2>2. IsFiniteSet(1..11)
    <3>1. 1 \in Int /\ 11 \in Int
      OBVIOUS
    <3> QED
      BY <3>1, FS_Interval, Zenon
  <2> QED
    BY <2>1, <2>2, FS_Subset, FS_CardinalityType
<1>5. \A step : LeftAt(todo, step) = {i \in 1..11 : i <= n /\ todo[i] = step}
  BY <1>1 DEF LeftAt
<1>6. ASSUME NEW steps, Len(steps) = 7, Suffix(todo, steps),
             steps[1] = "find", steps[2] = "load", steps[3] = "inc", steps[4] \in {"use", "callback"},
             steps[5] = "drop", steps[6] = "dec", steps[7] = "test"
      PROVE  Held(todo) = Cardinality(LeftAt(todo, "dec")) - Cardinality(LeftAt(todo, "inc"))
                            - Cardinality(LeftAt(todo, "unmap"))
  <2>1. n \in 0..7 /\ \A i \in 1..n : todo[i] = steps[7 - n + i]
    <3>1. PICK m \in Nat : m = 7 /\ Len(steps) = m
      BY <1>6
    <3>2. n \in 0..m /\ \A i \in 1..n : todo[i] = steps[m - n + i]
      <4>1. Suffix(todo, steps) /\ n = Len(todo) /\ Len(steps) = m
        BY <1>1, <1>6, <3>1
      <4> QED
        BY <4>1 DEF Suffix
    <3> QED
      BY <3>1, <3>2
  <2>2. \A k \in 1..7 :
          /\ steps[k] = "dec" <=> k = 6
          /\ steps[k] = "inc" <=> k = 3
          /\ steps[k] # "unmap"
    BY <1>6
  <2>3. /\ LeftAt(todo, "dec") = IF n >= 2 THEN {n - 1} ELSE {}
        /\ LeftAt(todo, "inc") = IF n >= 5 THEN {n - 4} ELSE {}
        /\ LeftAt(todo, "unmap") = {}
    BY <1>5, <2>1, <2>2, ShortPlaces
  <2>4. n > 0 => todo[1] = steps[8 - n]
    BY <2>1
  <2>5. Held(todo) = IF n \in 2..4 THEN 1 ELSE 0
    BY <1>3, <1>6, <2>1, <2>4
  <2>6. Cardinality(LeftAt(todo, "dec")) = IF n >= 2 THEN 1 ELSE 0
    <3>1. n >= 2 => LeftAt(todo, "dec") = {n - 1}
      BY <2>3
    <3>2. ~(n >= 2) => LeftAt(todo, "dec") = {}
      BY <2>3
    <3> QED
      BY <3>1, <3>2, FewElements, Zenon
  <2>7. Cardinality(LeftAt(todo, "inc")) = IF n >= 5 THEN 1 ELSE 0
    <3>1. n >= 5 => LeftAt(todo, "inc") = {n - 4}
      BY <2>3
    <3>2. ~(n >= 5) => LeftAt(todo, "inc") = {}
      BY <2>3
    <3> QED
      BY <3>1, <3>2, FewElements, Zenon
  <2>8. Cardinality(LeftAt(todo, "unmap")) = 0
    BY <2>3, FewElements, Zenon
  <2> QED
    BY <2>1, <2>5, <2>6, <2>7, <2>8
<1>7. ASSUME Suffix(todo, CloseSteps)
      PROVE  Held(todo) = Cardinality(LeftAt(todo, "dec")) - Cardinality(LeftAt(todo, "inc"))
                            - Cardinality(LeftAt(todo, "unmap"))
  <2>1. n \in 0..11 /\ \A i \in 1..n : todo[i] = CloseSteps[11 - n + i]
    <3>1. PICK m \in Nat : m = 11 /\ Len(CloseSteps) = m
      BY CloseShape
    <3>2. n \in 0..m /\ \A i \in 1..n : todo[i] = CloseSteps[m - n + i]
      <4>1. Suffix(todo, CloseSteps) /\ n = Len(todo) /\ Len(CloseSteps) = m
        BY <1>1, <1>7, <3>1
      <4> QED
        BY <4>1 DEF Suffix
    <3> QED
      BY <3>1, <3>2
  <2>2. \A k \in 1..11 :
          /\ CloseSteps[k] = "dec" <=> k \in {7, 10}
          /\ CloseSteps[k] = "inc" <=> k = 3
          /\ CloseSteps[k] = "unmap" <=> k = 4
    BY CloseShape
  <2>3. /\ LeftAt(todo, "dec") = (IF n >= 2 THEN {n - 1} ELSE {}) \union (IF n >= 5 THEN {n - 4} ELSE {})
        /\ LeftAt(todo, "inc") = IF n >= 9 THEN {n - 8} ELSE {}
        /\ LeftAt(todo, "unmap") = IF n >= 8 THEN {n - 7} ELSE {}
    BY <1>5, <2>1, <2>2, LongPlaces
  <2>4. n > 0 => todo[1] = CloseSteps[12 - n]
    BY <2>1
  <2>5. Held(todo) = IF n \in 5..7 THEN 2 ELSE IF n \in {2, 3, 4, 8} THEN 1 ELSE 0
    BY <1>3, <2>1, <2>4, CloseShape
  <2>6. Cardinality(LeftAt(todo, "dec")) = IF n >= 5 THEN 2 ELSE IF n >= 2 THEN 1 ELSE 0
    <3>1. n >= 5 => LeftAt(todo, "dec") = {n - 1} \union {n - 4} /\ n - 1 # n - 4
      BY <2>3
    <3>2. ~(n >= 5) /\ n >= 2 => LeftAt(todo, "dec") = {n - 1}
      BY <2>3
    <3>3. ~(n >= 5) /\ ~(n >= 2) => LeftAt(todo, "dec") = {}
      BY <2>3
    <3>4. n >= 5 => Cardinality(LeftAt(todo, "dec")) = 2
      <4>1. PICK a, b : a = n - 1 /\ b = n - 4
        OBVIOUS
      <4>2. n >= 5 => LeftAt(todo, "dec") = {a} \union {b} /\ a # b
        BY <3>1, <4>1
      <4>3. a # b => Cardinality({a} \union {b}) = 2
        BY FewElements
      <4> QED
        BY <4>2, <4>3
    <3>5. ~(n >= 5) /\ n >= 2 => Cardinality(LeftAt(todo, "dec")) = 1
      BY <3>2, FewElements, Zenon
    <3>6. ~(n >= 5) /\ ~(n >= 2) => Cardinality(LeftAt(todo, "dec")) = 0
      BY <3>3, FewElements, Zenon
    <3> QED
      BY <3>4, <3>5, <3>6
  <2>7. Cardinality(LeftAt(todo, "inc")) = IF n >= 9 THEN 1 ELSE 0
    <3>1. n >= 9 => LeftAt(todo, "inc") = {n - 8}
      BY <2>3
    <3>2. ~(n >= 9) => LeftAt(todo, "inc") = {}
      BY <2>3
    <3> QED
      BY <3>1, <3>2, FewElements, Zenon
  <2>8. Cardinality(LeftAt(todo, "unmap")) = IF n >= 8 THEN 1 ELSE 0
    <3>1. n >= 8 => LeftAt(todo, "unmap") = {n - 7}
      BY <2>3
    <3>2. ~(n >= 8) => LeftAt(todo, "unmap") = {}
      BY <2>3
    <3> QED
      BY <3>1, <3>2, FewElements, Zenon
  <2> QED
    BY <2>1, <2>5, <2>6, <2>7, <2>8
<1>8. CASE Suffix(todo, SendSteps)
  BY <1>4, <1>6, <1>8, SendShape
<1>9. CASE Suffix(todo, EventSteps)
  BY <1>4, <1>6, <1>9, EventShape
<1> QED
  BY <1>4, <1>7, <1>8, <1>9 DEF Shaped

\* Where a step is left in a call, if that works on the object.
Places(c, s, step) == IF call[c].sock = s THEN LeftAt(call[c].todo, step) ELSE {}

LEMMA PlacesHold ==
  ASSUME SockInv, NEW c \in Callers, NEW s \in Socks
  PROVE  /\ \A step : IsFiniteSet(Places(c, s, step)) /\ Cardinality(Places(c, s, step)) \in Nat
         /\ HeldOf(c, s) = Cardinality(Places(c, s, "dec")) - Cardinality(Places(c, s, "inc"))
                             - Cardinality(Places(c, s, "unmap"))
<1>1. Shaped(call[c].todo)
  BY DEF SockInv, Calls, Types, Records, Shaped, Callers
<1>2. CASE call[c].sock = s
  <2>1. \A step : Places(c, s, step) = LeftAt(call[c].todo, step)
    BY <1>2 DEF Places
  <2>2. HeldOf(c, s) = Held(call[c].todo)
    BY <1>2 DEF HeldOf
  <2>3. PICK todo : todo = call[c].todo
    OBVIOUS
  <2> QED
    BY <1>1, <2>1, <2>2, <2>3, HeldIsLeft
<1>3. CASE call[c].sock # s
  <2>1. (\A step : Places(c, s, step) = {}) /\ HeldOf(c, s) = 0
    BY <1>3 DEF Places, HeldOf
  <2>2. IsFiniteSet({}) /\ Cardinality({}) = 0
    BY FS_EmptySet, Zenon
  <2>3. \A step : IsFiniteSet(Places(c, s, step)) /\ Cardinality(Places(c, s, step)) = 0
    BY <2>1, <2>2, Zenon
  <2> QED
    BY <2>1, <2>3
<1> QED
  BY <1>2, <1>3

\* Besides the loop's thread one caller is in a call, at most.
LEMMA OneMore ==
  ASSUME SockInv
  PROVE  \E c \in Callers \ {Loop} :
           /\ \A e \in Callers \ {c, Loop} : call[e].sock = Nil
           /\ \A s \in Socks : Live(s) => refCount[s] = Entry(s) + HeldOf(c, s) + HeldOf(Loop, s)
<1>1. /\ Loop \in Callers /\ Dispatch \in Callers \ {Loop} /\ Nil \notin Socks
      /\ \A e \in Callers : e # Dispatch => e \in Threads
  BY RefAssumption DEF Callers
<1>2. /\ \A e \in Callers : ~InCall(e) => call[e].sock = Nil /\ \A s \in Socks : HeldOf(e, s) = 0
      /\ InCall(Loop) => InCall(Dispatch)
      /\ \A t \in Threads \ {Loop} : InCall(t) => \A c \in Callers \ {t} : ~InCall(c)
  BY <1>1 DEF SockInv, Calls, Turns, InCall, HeldOf
<1>3. \A c \in Callers, s \in Socks : HeldOf(c, s) \in Int
  BY PlacesHold
<1>4. \A s \in Socks : Entry(s) \in Int
  BY DEF Entry
<1>5. CASE InCall(Loop)
  <2>1. \A e \in Callers \ {Dispatch, Loop} : call[e].sock = Nil
    BY <1>1, <1>2, <1>5
  <2>2. CountsBy(Loop)
    BY <1>1, <1>5 DEF SockInv, Counts, Turn
  <2>3. \A s \in Socks : Live(s) => refCount[s] = Entry(s) + HeldOf(Loop, s) + HeldOf(Dispatch, s)
    BY <2>2 DEF CountsBy
  <2> QED
    BY <1>1, <1>3, <1>4, <2>1, <2>3
<1>6. ASSUME NEW c \in Callers, InCall(c), ~InCall(Loop)
      PROVE  /\ \A e \in Callers \ {c, Loop} : call[e].sock = Nil
             /\ \A s \in Socks : Live(s) => refCount[s] = Entry(s) + HeldOf(c, s) + HeldOf(Loop, s)
  <2>1. \A e \in Callers \ {c, Loop} : call[e].sock = Nil
    BY <1>1, <1>2, <1>6
  <2>2. CountsBy(c) /\ c # Loop
    BY <1>6 DEF SockInv, Counts, Turn
  <2>3. \A s \in Socks : Live(s) => refCount[s] = Entry(s) + HeldOf(c, s) + 0
    BY <2>2 DEF CountsBy
  <2>4. \A s \in Socks : HeldOf(Loop, s) = 0
    BY <1>1, <1>2, <1>6
  <2> QED
    BY <2>1, <2>3, <2>4
<1>7. CASE \A c \in Callers : ~InCall(c)
  <2>1. \A s \in Socks : Live(s) => refCount[s] = 1 /\ Entry(s) = 1
    BY <1>7 DEF SockInv, Counts, CountsIdle
  <2>2. \A s \in Socks : HeldOf(Dispatch, s) = 0 /\ HeldOf(Loop, s) = 0
    BY <1>1, <1>2, <1>7
  <2>3. \A e \in Callers : call[e].sock = Nil
    BY <1>2, <1>7
  <2> QED
    BY <1>1, <2>1, <2>2, <2>3
<1> QED
  BY <1>1, <1>5, <1>6, <1>7

LEMMA LeftInTwo ==
  ASSUME NEW c \in Callers, NEW d \in Callers, c # d, NEW s \in Socks, NEW step,
         \A e \in Callers \ {c, d} : call[e].sock = Nil,
         IsFiniteSet(Places(c, s, step)), IsFiniteSet(Places(d, s, step))
  PROVE  LeftIn(s, step) = Cardinality(Places(c, s, step)) + Cardinality(Places(d, s, step))
<1> DEFINE P == {c} \X Places(c, s, step)
           Q == {d} \X Places(d, s, step)
           L == {p \in Callers \X (1..Len(CloseSteps)) :
                   /\ call[p[1]].sock = s
                   /\ p[2] <= Len(call[p[1]].todo)
                   /\ call[p[1]].todo[p[2]] = step}
<1>1. /\ IsFiniteSet(P) /\ Cardinality(P) = Cardinality(Places(c, s, step))
      /\ IsFiniteSet(Q) /\ Cardinality(Q) = Cardinality(Places(d, s, step))
  BY Copies
<1>2. P \intersect Q = {}
  OBVIOUS
<1>3. Nil \notin Socks
  BY RefAssumption
<1>4. 1..Len(CloseSteps) = 1..11
  BY CloseShape
<1>5. \A e \in Callers : \A i : <<e, i>> \in L <=> i \in Places(e, s, step)
  BY <1>4 DEF Places, LeftAt
<1>6. \A e \in Callers \ {c, d} : Places(e, s, step) = {}
  BY <1>3 DEF Places
<1>7. L = P \union Q
  <2>1. ASSUME NEW p \in L
        PROVE  p \in P \union Q
    <3>1. PICK e \in Callers, i \in 1..Len(CloseSteps) : p = <<e, i>>
      OBVIOUS
    <3>2. i \in Places(e, s, step)
      BY <1>5, <2>1, <3>1, Zenon
    <3>3. e = c \/ e = d
      BY <1>6, <3>2
    <3> QED
      BY <3>1, <3>2, <3>3
  <2>2. ASSUME NEW p \in P
        PROVE  p \in L
    <3>1. PICK i \in Places(c, s, step) : p = <<c, i>>
      OBVIOUS
    <3> QED
      BY <1>5, <3>1, Zenon
  <2>3. ASSUME NEW p \in Q
        PROVE  p \in L
    <3>1. PICK i \in Places(d, s, step) : p = <<d, i>>
      OBVIOUS
    <3> QED
      BY <1>5, <3>1, Zenon
  <2> HIDE DEF L, P, Q
  <2> QED
    BY <2>1, <2>2, <2>3
<1>8. LeftIn(s, step) = Cardinality(L)
  BY DEF LeftIn
<1>9. IsFiniteSet({}) /\ Cardinality({}) = 0
  BY FS_EmptySet, Zenon
<1>10. Cardinality(P \union Q) = Cardinality(P) + Cardinality(Q) - Cardinality(P \intersect Q)
  <2> HIDE DEF P, Q
  <2> QED
    BY <1>1, FS_Union
<1>11. Cardinality(P) \in Nat /\ Cardinality(Q) \in Nat
  <2> HIDE DEF P, Q
  <2> QED
    BY <1>1, FS_CardinalityType
<1> HIDE DEF L, P, Q
<1>12. Cardinality(P \intersect Q) = 0 /\ LeftIn(s, step) = Cardinality(P \union Q)
  BY <1>2, <1>7, <1>8, <1>9, Zenon
<1>13. LeftIn(s, step) = Cardinality(P) + Cardinality(Q)
  BY <1>10, <1>11, <1>12
<1> QED
  BY <1>1, <1>13

\* The reference count of an object is that of the references there are, as long
\* as other threads wait: the invariant speaks of the one or two callers that may
\* be in a call, the property of all.
THEOREM RefCountedHolds ==
  ASSUME Serialized
  PROVE  Spec => []RefCounted
<1>1. SockInv => RefCounted
  <2> SUFFICES ASSUME SockInv, NEW s \in Socks, Live(s)
               PROVE  refCount[s] = LeftIn(s, "dec") - LeftIn(s, "inc") - LeftIn(s, "unmap") + Entry(s)
    BY DEF RefCounted, LeftIn, Live, Entry
  <2>1. PICK c \in Callers \ {Loop} :
          /\ \A e \in Callers \ {c, Loop} : call[e].sock = Nil
          /\ refCount[s] = Entry(s) + HeldOf(c, s) + HeldOf(Loop, s)
    BY OneMore
  <2>2. c \in Callers /\ Loop \in Callers /\ c # Loop
    BY RefAssumption DEF Callers
  <2>3. /\ \A step : IsFiniteSet(Places(c, s, step)) /\ Cardinality(Places(c, s, step)) \in Nat
        /\ HeldOf(c, s) = Cardinality(Places(c, s, "dec")) - Cardinality(Places(c, s, "inc"))
                             - Cardinality(Places(c, s, "unmap"))
    BY <2>2, PlacesHold
  <2>4. /\ \A step : IsFiniteSet(Places(Loop, s, step)) /\ Cardinality(Places(Loop, s, step)) \in Nat
        /\ HeldOf(Loop, s) = Cardinality(Places(Loop, s, "dec")) - Cardinality(Places(Loop, s, "inc"))
                             - Cardinality(Places(Loop, s, "unmap"))
    BY <2>2, PlacesHold
  <2>5. \A step : LeftIn(s, step) = Cardinality(Places(c, s, step)) + Cardinality(Places(Loop, s, step))
    BY <2>1, <2>2, <2>3, <2>4, LeftInTwo
  <2>6. Entry(s) \in Int
    BY DEF Entry
  <2> QED
    BY <2>1, <2>3, <2>4, <2>5, <2>6
<1> QED
  BY <1>1, SocketInvariant, PTL
=============================================================================
