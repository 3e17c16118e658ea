---------------------------- MODULE Timer_proof -----------------------------
(***************************************************************************)
(* Theorems about the timers: for any set of timers and intervals, any     *)
(* width of a tick, and clocks that go on and are set back at any time.    *)
(***************************************************************************)
EXTENDS EventTimer, Integers, SequenceTheorems, TLAPS

\* TypeOK, and what the walk relies on: outside of it nothing runs, the iterator
\* has left the timer that runs, a TimerItem's tick is the time it is due, the walk
\* goes by a time there was, and it is on a timer of the list or on a deleted one.
TimerInv ==
  /\ TypeOK
  /\ list \in Seq(Timers)
  /\ due \in [Timers -> Nat]
  /\ \A t \in Timers : nextTick[t] = Tick(due[t])
  /\ curr = Nil => it = Nil /\ running = Nil
  /\ curr # Nil => curr <= high
  /\ running # Nil => it # running
  /\ ~freed /\ it # Nil => Contains(list, it)

-----------------------------------------------------------------------------
(* Ticks: what a time leaves of itself in 32 bits.                         *)

LEMMA TickType ==
  ASSUME NEW n \in Nat
  PROVE  /\ n = Wrap * (n \div Wrap) + Tick(n)
         /\ n \div Wrap \in Nat /\ Tick(n) \in 0..(Wrap - 1)
BY TimerAssumption DEF Tick

LEMMA WrapMonotonic ==
  ASSUME NEW p \in Int, NEW q \in Int, p <= q
  PROVE  Wrap * p <= Wrap * q /\ {Wrap * p, Wrap * q} \subseteq Int
BY TimerAssumption

\* A time is some number of wraps and a tick in one way only.
LEMMA TickUnique ==
  ASSUME NEW n \in Nat, NEW q \in Int, NEW r \in 0..(Wrap - 1), n = Wrap * q + r
  PROVE  Tick(n) = r
<1> DEFINE d == n \div Wrap
<1>1. n = Wrap * d + Tick(n) /\ d \in Int /\ Tick(n) \in 0..(Wrap - 1)
  BY TickType
<1> HIDE DEF d
<1>2. Wrap \in Nat /\ Wrap > 0
  BY TimerAssumption
<1>3. CASE q < d
  <2>1. Wrap * (q + 1) <= Wrap * d /\ Wrap * (q + 1) = Wrap * q + Wrap
    BY <1>1, <1>2, <1>3, WrapMonotonic
  <2> QED
    BY <1>1, <1>2, <2>1
<1>4. CASE q > d
  <2>1. Wrap * (d + 1) <= Wrap * q /\ Wrap * (d + 1) = Wrap * d + Wrap
    BY <1>1, <1>2, <1>4, WrapMonotonic
  <2> QED
    BY <1>1, <1>2, <2>1
<1>5. CASE q = d
  BY <1>1, <1>2, <1>5
<1> QED
  BY <1>1, <1>3, <1>4, <1>5

\* Adding to a tick and adding to the time is the same.
LEMMA TickAdd ==
  ASSUME NEW a \in Nat, NEW i \in Nat
  PROVE  Tick(Tick(a) + i) = Tick(a + i)
<1> DEFINE b == Tick(a) + i
           q == a \div Wrap
           p == b \div Wrap
<1>1. a = Wrap * q + Tick(a) /\ q \in Int /\ Tick(a) \in Nat
  BY TickType
<1>2. b \in Nat /\ b = Wrap * p + Tick(b) /\ p \in Int /\ Tick(b) \in 0..(Wrap - 1)
  BY <1>1, TickType
<1> HIDE DEF p, q
<1>3. a + i = Wrap * (q + p) + Tick(b) /\ q + p \in Int
  <2>1. Wrap * (q + p) = Wrap * q + Wrap * p
    BY <1>1, <1>2, TimerAssumption
  <2> QED
    BY <1>1, <1>2, <2>1, TimerAssumption
<1> HIDE DEF b
<1>4. Tick(a + i) = Tick(b)
  BY <1>2, <1>3, TickUnique
<1> QED
  BY <1>4 DEF b

\* Ticks compare as their times do, but where there is a wrap between them.
LEMMA TickCompare ==
  ASSUME NEW a \in Nat, NEW b \in Nat
  PROVE  /\ Tick(a) >= Tick(b) => a >= b \/ b \div Wrap > a \div Wrap
         /\ Tick(a) < Tick(b) => b > a \/ b \div Wrap < a \div Wrap
<1> DEFINE p == a \div Wrap
           q == b \div Wrap
<1>1. a = Wrap * p + Tick(a) /\ p \in Int /\ Tick(a) \in Nat
  BY TickType
<1>2. b = Wrap * q + Tick(b) /\ q \in Int /\ Tick(b) \in Nat
  BY TickType
<1>3. /\ p <= q => Wrap * p <= Wrap * q
      /\ q <= p => Wrap * q <= Wrap * p
      /\ {Wrap * p, Wrap * q} \subseteq Int
  BY <1>1, <1>2, WrapMonotonic
<1> HIDE DEF p, q
<1>4. /\ Tick(a) >= Tick(b) => a >= b \/ q > p
      /\ Tick(a) < Tick(b) => b > a \/ q < p
  BY <1>1, <1>2, <1>3
<1> QED
  BY <1>4 DEF p, q

\* Where ticks have not wrapped they are times.
LEMMA TickSmall ==
  ASSUME NEW n \in 0..(Wrap - 1)
  PROVE  Tick(n) = n
BY TimerAssumption DEF Tick

LEMMA IntervalType ==
  ASSUME NEW i \in Intervals
  PROVE  i \in Nat
BY TimerAssumption

-----------------------------------------------------------------------------
(* The list.                                                               *)

\* Where a timer is that is in the list.
LEMMA PlaceOf ==
  ASSUME NEW t, Contains(list, t)
  PROVE  Place(t) \in 1..Len(list) /\ list[Place(t)] = t
BY DEF Place, Contains

\* The first timer of the list, and the one after another, is in it.
LEMMA BeginListed ==
  ASSUME list \in Seq(Timers)
  PROVE  /\ Begin \in Timers \union {Nil}
         /\ Begin # Nil => Contains(list, Begin)
<1>1. CASE list = <<>>
  BY <1>1 DEF Begin
<1>2. CASE list # <<>>
  <2>1. 1 \in 1..Len(list)
    BY <1>2
  <2> QED
    BY <1>2, <2>1 DEF Begin, Contains
<1> QED
  BY <1>1, <1>2

LEMMA AfterListed ==
  ASSUME list \in Seq(Timers), IsInjective(list), NEW t, Contains(list, t)
  PROVE  /\ After(t) \in Timers \union {Nil}
         /\ After(t) # Nil => Contains(list, After(t))
         /\ After(t) # t
<1> DEFINE p == Place(t)
<1>1. p \in 1..Len(list) /\ list[p] = t
  BY PlaceOf
<1> HIDE DEF p
<1>2. CASE p = Len(list)
  <2>1. After(t) = Nil
    BY <1>2 DEF After, p
  <2>2. t # Nil
    BY <1>1, TimerAssumption
  <2> QED
    BY <2>1, <2>2
<1>3. CASE p # Len(list)
  <2>1. p + 1 \in 1..Len(list)
    BY <1>1, <1>3
  <2>2. After(t) = list[p + 1]
    BY <1>3 DEF After, p
  <2>3. list[p + 1] \in Timers /\ Contains(list, list[p + 1])
    BY <2>1 DEF Contains
  <2>4. list[p + 1] # list[p]
    BY <1>1, <2>1 DEF IsInjective
  <2> QED
    BY <1>1, <2>2, <2>3, <2>4
<1> QED
  BY <1>2, <1>3

\* A list without one of its timers: it has the others, each once.
LEMMA RemoveShape ==
  ASSUME list \in Seq(Timers), IsInjective(list), NEW t, Contains(list, t),
         NEW new, new = RemoveAt(list, Place(t))
  PROVE  /\ new \in Seq(Timers) /\ IsInjective(new)
         /\ \A u \in Timers \ {t} : Contains(list, u) => Contains(new, u)
         /\ \A u \in Timers : Contains(new, u) => Contains(list, u)
<1> DEFINE p == Place(t)
           n == Len(list)
<1>1. p \in 1..n /\ list[p] = t /\ n \in Nat
  BY PlaceOf
<1> HIDE DEF p
<1> DEFINE a == SubSeq(list, 1, p - 1)
           b == SubSeq(list, p + 1, n)
<1>2. new = a \o b
  BY DEF RemoveAt, p
<1>3. /\ a \in Seq(Timers) /\ Len(a) = p - 1
      /\ \A i \in 1..p - 1 : a[i] = list[i]
  BY <1>1
<1>4. /\ b \in Seq(Timers) /\ Len(b) = n - p
      /\ \A i \in 1..n - p : b[i] = list[p + i]
  BY <1>1
<1>5. /\ new \in Seq(Timers) /\ Len(new) = n - 1
      /\ \A i \in 1..n - 1 : new[i] = IF i < p THEN list[i] ELSE list[i + 1]
  <2> HIDE DEF n, a, b
  <2>1. new \in Seq(Timers) /\ Len(new) = n - 1
    <3>1. new \in Seq(Timers) /\ Len(new) = Len(a) + Len(b)
      <4>1. a \in Seq(Timers) /\ b \in Seq(Timers)
        BY <1>3, <1>4
      <4> QED
        BY <1>2, <4>1, ConcatProperties
    <3>2. p - 1 \in Nat /\ n - p \in Nat /\ (p - 1) + (n - p) = n - 1
      BY <1>1
    <3> QED
      BY <1>3, <1>4, <3>1, <3>2
  <2>2. ASSUME NEW i \in 1..n - 1, i < p
        PROVE  new[i] = list[i]
    <3>1. i \in 1..p - 1
      BY <1>1, <2>2
    <3>2. new[i] = a[i]
      BY <1>1, <1>2, <1>3, <1>4, <3>1
    <3> QED
      BY <1>3, <3>1, <3>2
  <2>3. ASSUME NEW i \in 1..n - 1, ~(i < p)
        PROVE  new[i] = list[i + 1]
    <3>1. i - (p - 1) \in 1..n - p
      BY <1>1, <2>3
    <3>2. new[i] = b[i - (p - 1)]
      BY <1>1, <1>2, <1>3, <1>4, <2>3
    <3>3. p + (i - (p - 1)) = i + 1
      BY <1>1
    <3> QED
      BY <1>4, <3>1, <3>2, <3>3
  <2> QED
    BY <2>1, <2>2, <2>3
<1>6. IsInjective(new)
  <2> SUFFICES ASSUME NEW i \in 1..n - 1, NEW j \in 1..n - 1, new[i] = new[j]
               PROVE  i = j
    BY <1>5 DEF IsInjective
  <2> DEFINE old(k) == IF k < p THEN k ELSE k + 1
  <2>1. old(i) \in 1..n /\ old(j) \in 1..n
    BY <1>1
  <2>2. list[old(i)] = list[old(j)]
    BY <1>5
  <2>3. old(i) = old(j)
    BY <2>1, <2>2 DEF IsInjective
  <2> QED
    BY <1>1, <2>3
<1>7. ASSUME NEW u \in Timers \ {t}, Contains(list, u)
      PROVE  Contains(new, u)
  <2>1. PICK i \in 1..n : list[i] = u
    BY <1>7 DEF Contains
  <2>2. i # p
    BY <1>1, <2>1
  <2>3. CASE i < p
    <3>1. i \in 1..n - 1 /\ new[i] = u
      BY <1>1, <1>5, <2>1, <2>3
    <3> QED
      BY <1>5, <3>1 DEF Contains
  <2>4. CASE i > p
    <3>1. i - 1 \in 1..n - 1 /\ ~(i - 1 < p) /\ (i - 1) + 1 = i
      BY <1>1, <2>1, <2>4
    <3>2. new[i - 1] = u
      BY <1>5, <2>1, <3>1
    <3> QED
      BY <1>5, <3>1, <3>2 DEF Contains
  <2> QED
    BY <1>1, <2>1, <2>2, <2>3, <2>4
<1>8. ASSUME NEW u \in Timers, Contains(new, u)
      PROVE  Contains(list, u)
  <2>1. PICK i \in 1..n - 1 : new[i] = u
    BY <1>5, <1>8 DEF Contains
  <2>2. i \in 1..n /\ i + 1 \in 1..n
    BY <1>1
  <2>3. list[i] = u \/ list[i + 1] = u
    BY <1>5, <2>1
  <2> QED
    BY <2>2, <2>3 DEF Contains
<1> QED
  BY <1>5, <1>6, <1>7, <1>8

\* A timer that is registered is put at the end of the list, once.
LEMMA AddShape ==
  ASSUME list \in Seq(Timers), IsInjective(list), NEW t \in Timers,
         NEW new, new = IF Contains(list, t) THEN list ELSE Append(list, t)
  PROVE  /\ new \in Seq(Timers) /\ IsInjective(new)
         /\ \A u \in Timers : Contains(new, u) <=> Contains(list, u) \/ u = t
<1>1. CASE Contains(list, t)
  BY <1>1
<1>2. CASE ~Contains(list, t)
  <2> DEFINE n == Len(list)
  <2>1. /\ new \in Seq(Timers) /\ Len(new) = n + 1 /\ n \in Nat
        /\ new[n + 1] = t /\ \A i \in 1..n : new[i] = list[i]
    BY <1>2
  <2>2. \A i \in 1..n : list[i] # t
    BY <1>2 DEF Contains
  <2> HIDE DEF n
  <2>3. 1..n + 1 = 1..n \union {n + 1} /\ DOMAIN new = 1..n + 1 /\ DOMAIN list = 1..n
    BY <2>1 DEF n
  <2>4. IsInjective(new)
    <3> SUFFICES ASSUME NEW i \in 1..n + 1, NEW j \in 1..n + 1, new[i] = new[j]
                 PROVE  i = j
      BY <2>3 DEF IsInjective
    <3>1. CASE i \in 1..n /\ j \in 1..n
      BY <2>1, <2>3, <3>1 DEF IsInjective
    <3> QED
      BY <2>1, <2>2, <2>3, <3>1
  <2>5. ASSUME NEW u \in Timers
        PROVE  Contains(new, u) <=> Contains(list, u) \/ u = t
    BY <2>1, <2>3 DEF Contains, n
  <2> QED
    BY <2>1, <2>4, <2>5
<1> QED
  BY <1>1, <1>2

\* In a list of timers, being injective and in Seq(Timers) is what TypeOK says.
LEMMA SeqSet ==
  ASSUME NEW s \in Seq(Timers)
  PROVE  ToSet(s) \subseteq Timers
BY DEF ToSet

-----------------------------------------------------------------------------
(* Every step keeps the invariant.                                         *)

LEMMA TimerInitial == Init => TimerInv
<1> SUFFICES ASSUME Init
             PROVE  TimerInv
  OBVIOUS
<1>1. list \in Seq(Timers) /\ ToSet(list) \subseteq Timers /\ IsInjective(list)
  BY DEF Init, ToSet, IsInjective
<1>2. Tick(0) = 0 /\ 0 \in 0..(Wrap - 1)
  BY TimerAssumption DEF Tick
<1>3. clock \in 0..MaxClock /\ high \in 0..MaxClock /\ clock <= high
  BY TimerAssumption DEF Init
<1>4. /\ interval \in [Timers -> Intervals \union {0}] /\ due \in [Timers -> Nat]
      /\ nextTick \in [Timers -> 0..(Wrap - 1)]
      /\ \A t \in Timers : nextTick[t] = Tick(due[t])
  BY <1>2 DEF Init
<1>5. curr = Nil /\ it = Nil /\ running = Nil /\ freed = FALSE
  BY DEF Init
<1> QED
  BY <1>1, <1>3, <1>4, <1>5 DEF TimerInv, TypeOK

LEMMA ClockType ==
  ASSUME TimerInv
  PROVE  clock \in Nat /\ high \in Nat /\ clock <= high
BY TimerAssumption DEF TimerInv, TypeOK

LEMMA AddKeeps ==
  ASSUME TimerInv, NEW t \in Timers, NEW i \in Intervals, AddTimer(t, i)
  PROVE  TimerInv'
<1>1. /\ list' \in Seq(Timers) /\ IsInjective(list')
      /\ ToSet(list') \subseteq Timers
      /\ \A u \in Timers : Contains(list, u) => Contains(list', u)
  BY AddShape, SeqSet DEF AddTimer, TimerInv, TypeOK
<1>2. clock \in Nat /\ i \in Nat
  BY ClockType, IntervalType
<1>3. clock + i \in Nat /\ Tick(clock + i) \in 0..(Wrap - 1)
  BY <1>2, TickType
<1>4. /\ due' \in [Timers -> Nat]
      /\ nextTick' \in [Timers -> 0..(Wrap - 1)]
      /\ interval' \in [Timers -> Intervals \union {0}]
      /\ \A u \in Timers : nextTick'[u] = Tick(due'[u])
  BY <1>3 DEF AddTimer, TimerInv, TypeOK
<1> QED
  BY <1>1, <1>4 DEF AddTimer, TimerInv, TypeOK

\* Removing the timer the iterator is on is what leaves it without one.
LEMMA RemoveKeeps ==
  ASSUME TimerInv, NEW t \in Timers, RemoveTimer(t)
  PROVE  TimerInv'
<1>1. /\ list' \in Seq(Timers) /\ IsInjective(list')
      /\ ToSet(list') \subseteq Timers
      /\ \A u \in Timers \ {t} : Contains(list, u) => Contains(list', u)
  BY RemoveShape, SeqSet DEF RemoveTimer, TimerInv, TypeOK
<1>2. ~freed' => it \in (Timers \ {t}) \union {Nil}
  BY DEF RemoveTimer, TimerInv, TypeOK
<1>3. ~freed /\ freed' \in BOOLEAN
  BY DEF RemoveTimer, MayCall
<1> QED
  BY <1>1, <1>2, <1>3 DEF RemoveTimer, TimerInv, TypeOK, Tick

LEMMA ItemKeeps ==
  ASSUME TimerInv, WalkItem
  PROVE  TimerInv'
<1>1. it \in Timers /\ it # Nil /\ Contains(list, it)
  BY DEF WalkItem, TimerInv, TypeOK
<1>2. /\ it' \in Timers \union {Nil} /\ it' # it
      /\ it' # Nil => Contains(list, it')
  BY <1>1, AfterListed DEF WalkItem, TimerInv, TypeOK
<1>3. CASE UNCHANGED <<nextTick, due, running>>
  BY <1>2, <1>3 DEF WalkItem, TimerInv, TypeOK, Tick
<1>4. CASE /\ nextTick' = [nextTick EXCEPT ![it] = Tick(@ + interval[it])]
           /\ due' = [due EXCEPT ![it] = @ + interval[it]]
           /\ running' = it
  <2>1. interval[it] \in Nat /\ due[it] \in Nat /\ nextTick[it] = Tick(due[it])
    BY <1>1, IntervalType DEF TimerInv, TypeOK
  <2>2. Tick(Tick(due[it]) + interval[it]) = Tick(due[it] + interval[it])
    BY <2>1, TickAdd
  <2>3. /\ due[it] + interval[it] \in Nat
        /\ Tick(due[it] + interval[it]) \in 0..(Wrap - 1)
    BY <2>1, TickType
  <2>4. due' \in [Timers -> Nat] /\ nextTick' \in [Timers -> 0..(Wrap - 1)]
    BY <1>1, <1>4, <2>1, <2>2, <2>3 DEF TimerInv, TypeOK
  <2>5. \A u \in Timers : nextTick'[u] = Tick(due'[u])
    BY <1>1, <1>4, <2>1, <2>2 DEF TimerInv, TypeOK
  <2>6. running' \in Timers \union {Nil} /\ running' # Nil /\ it' # running'
    BY <1>1, <1>2, <1>4
  <2> QED
    BY <1>2, <2>4, <2>5, <2>6 DEF WalkItem, TimerInv, TypeOK
<1> QED
  BY <1>3, <1>4 DEF WalkItem

LEMMA TimerNext == TimerInv /\ [Next]_vars => TimerInv'
<1> SUFFICES ASSUME TimerInv, [Next]_vars
             PROVE  TimerInv'
  OBVIOUS
<1>1. CASE Advance
  <2>1. {clock', high'} \subseteq 0..MaxClock /\ clock' <= high' /\ high <= high'
    BY <1>1, TimerAssumption DEF Advance, TimerInv, TypeOK
  <2>2. curr \in Nat \union {Nil} /\ high \in Nat /\ high' \in Nat
    BY <2>1, TimerAssumption DEF TimerInv, TypeOK
  <2>3. curr # Nil => curr <= high'
    BY <2>1, <2>2 DEF TimerInv
  <2> QED
    BY <1>1, <2>1, <2>3 DEF Advance, TimerInv, TypeOK, Tick
<1>2. CASE SetBack
  <2>1. clock' \in 0..MaxClock /\ clock' <= high
    BY <1>2, TimerAssumption DEF SetBack, TimerInv, TypeOK
  <2> QED
    BY <1>2, <2>1 DEF SetBack, TimerInv, TypeOK, Tick
<1>3. ASSUME NEW t \in Timers, RemoveTimer(t)
      PROVE  TimerInv'
  BY <1>3, RemoveKeeps
<1>4. ASSUME NEW t \in Timers, NEW i \in Intervals, AddTimer(t, i)
      PROVE  TimerInv'
  BY <1>4, AddKeeps
<1>5. CASE WalkBegin
  <2>1. clock \in Nat /\ clock <= high
    BY ClockType
  <2>2. Begin \in Timers \union {Nil} /\ (Begin # Nil => Contains(list, Begin))
    BY BeginListed DEF TimerInv
  <2>3. running = Nil
    BY <1>5 DEF WalkBegin, TimerInv
  <2>4. curr' \in Nat /\ curr' # Nil /\ curr' <= high'
    BY <1>5, <2>1, TimerAssumption DEF WalkBegin
  <2>5. it' \in Timers \union {Nil} /\ (it' # Nil => Contains(list', it'))
    BY <1>5, <2>2 DEF WalkBegin
  <2> QED
    BY <1>5, <2>3, <2>4, <2>5 DEF WalkBegin, TimerInv, TypeOK, Tick
<1>6. CASE WalkItem
  BY <1>6, ItemKeeps
<1>7. CASE CallbackReturn
  BY <1>7 DEF CallbackReturn, TimerInv, TypeOK, Tick
<1>8. CASE WalkEnd
  BY <1>8 DEF WalkEnd, TimerInv, TypeOK, Tick
<1>9. CASE UNCHANGED vars
  BY <1>9 DEF vars, TimerInv, TypeOK, Tick
<1> QED
  BY <1>1, <1>2, <1>3, <1>4, <1>5, <1>6, <1>7, <1>8, <1>9 DEF Next, Walk

THEOREM TimerInvariant == Spec => []TimerInv
BY TimerInitial, TimerNext, PTL DEF Spec

\* The list has each timer once, whatever is registered again and again and
\* whatever callbacks remove.
THEOREM TimerTypes == Spec => []TypeOK
<1>1. TimerInv => TypeOK
  BY DEF TimerInv
<1> QED
  BY <1>1, TimerInvariant, PTL

-----------------------------------------------------------------------------

\* EventDispatch.cpp:85: where callbacks remove no timer but their own, the walk
\* never goes on from one that is deleted: it has left the timer that runs.
THEOREM IteratorValidHolds ==
  ASSUME SelfOnly
  PROVE  Spec => []IteratorValid
<1>1. Init => ~freed
  BY DEF Init
<1>2. TimerInv /\ ~freed /\ [Next]_vars => ~freed'
  <2> SUFFICES ASSUME TimerInv, ~freed, [Next]_vars
               PROVE  ~freed'
    OBVIOUS
  <2>1. ASSUME NEW t \in Timers, RemoveTimer(t)
        PROVE  ~freed'
    <3>1. CASE curr = Nil
      BY <2>1, <3>1, TimerAssumption DEF RemoveTimer, TimerInv
    <3>2. CASE running # Nil
      BY <2>1, <3>2 DEF RemoveTimer, TimerInv
    <3> QED
      BY <2>1, <3>1, <3>2 DEF RemoveTimer, MayCall
  <2>2. (\A t \in Timers : ~RemoveTimer(t)) => UNCHANGED freed
    BY DEF Next, Walk, Advance, SetBack, AddTimer, WalkBegin, WalkItem,
           CallbackReturn, WalkEnd, vars
  <2> QED
    BY <2>1, <2>2
<1>3. TimerInv /\ ~freed => IteratorValid
  BY DEF TimerInv, IteratorValid
<1> QED
  BY <1>1, <1>2, <1>3, TimerInvariant, PTL DEF Spec

\* EventDispatch.cpp:86: the comparison of ticks calls back a timer that is due
\* and passes over one that is not, unless there is a wrap between the two.
THEOREM FiresWhenDueHolds == Spec => FiresWhenDue
<1> DEFINE Fires(t) ==
      (running = Nil /\ curr # Nil /\ it = t) =>
         /\ running' = t => curr >= due[t] \/ due[t] \div Wrap > curr \div Wrap
         /\ it' # it /\ running' = Nil =>
              due[t] > curr \/ due[t] \div Wrap < curr \div Wrap
<1>1. TimerInv /\ [Next]_vars => \A t \in Timers : Fires(t)
  <2> SUFFICES ASSUME TimerInv, [Next]_vars, NEW t \in Timers,
                      running = Nil, curr # Nil, it = t
               PROVE  /\ running' = t => curr >= due[t] \/ due[t] \div Wrap > curr \div Wrap
                      /\ it' # it /\ running' = Nil =>
                           due[t] > curr \/ due[t] \div Wrap < curr \div Wrap
    OBVIOUS
  <2>1. t # Nil
    BY TimerAssumption
  <2>2. CASE WalkItem
    <3>1. curr \in Nat /\ due[t] \in Nat /\ nextTick[t] = Tick(due[t])
      BY DEF TimerInv, TypeOK
    <3>2. /\ running' = t => Tick(curr) >= Tick(due[t])
          /\ running' = Nil => Tick(curr) < Tick(due[t])
      BY <2>1, <2>2, <3>1 DEF WalkItem
    <3> QED
      BY <3>1, <3>2, TickCompare
  <2>3. CASE ~WalkItem
    <3>1. UNCHANGED <<it, running>>
      BY <2>1, <2>3 DEF Next, Walk, Advance, SetBack, AddTimer, RemoveTimer, MayCall,
                        WalkBegin, CallbackReturn, WalkEnd, vars
    <3> QED
      BY <2>1, <3>1
  <2> QED
    BY <2>2, <2>3
<1> QED
  BY <1>1, TimerInvariant, PTL DEF Spec, FiresWhenDue

\* util.cpp:551: however the clock is set back, no timer waits for more than its
\* interval beyond the latest time there was, until ticks are about to wrap.
THEOREM WaitBoundedHolds == Spec => []WaitBounded
<1>1. Init => WaitBounded
  BY DEF Init, WaitBounded, Contains
<1>2. TimerInv /\ WaitBounded /\ [Next]_vars => WaitBounded'
  <2> SUFFICES ASSUME TimerInv, WaitBounded, [Next]_vars, NEW t \in Timers,
                      Contains(list', t), high' + interval'[t] < Wrap
               PROVE  due'[t] <= high' + interval'[t]
    BY DEF WaitBounded
  <2>1. /\ clock \in Nat /\ high \in Nat /\ clock <= high
        /\ interval[t] \in Nat /\ due[t] \in Nat
    <3>1. interval[t] \in Intervals \union {0} /\ due[t] \in Nat
      BY DEF TimerInv, TypeOK
    <3> QED
      BY <3>1, ClockType, IntervalType
  <2>2. Contains(list, t) /\ high + interval[t] < Wrap => due[t] <= high + interval[t]
    BY DEF WaitBounded
  <2>3. CASE Advance
    <3>1. UNCHANGED <<list, interval, due>>
      BY <2>3 DEF Advance
    <3>2. high' \in Nat /\ high <= high'
      BY <2>1, <2>3 DEF Advance
    <3> QED
      BY <2>1, <2>2, <3>1, <3>2, TimerAssumption
  <2>4. ASSUME NEW u \in Timers, NEW i \in Intervals, AddTimer(u, i)
        PROVE  due'[t] <= high' + interval'[t]
    <3>1. CASE t = u
      <4>1. due'[t] = clock + i /\ interval'[t] = i /\ high' = high
        BY <2>4, <3>1 DEF AddTimer, TimerInv, TypeOK
      <4> QED
        BY <2>1, <4>1, IntervalType
    <3>2. CASE t # u
      <4>1. due'[t] = due[t] /\ interval'[t] = interval[t] /\ high' = high
        BY <2>4, <3>2 DEF AddTimer, TimerInv, TypeOK
      <4>2. Contains(list, t)
        BY <2>4, <3>2, AddShape DEF AddTimer, TimerInv, TypeOK
      <4> QED
        BY <2>2, <4>1, <4>2
    <3> QED
      BY <3>1, <3>2
  <2>5. ASSUME NEW u \in Timers, RemoveTimer(u)
        PROVE  due'[t] <= high' + interval'[t]
    <3>1. Contains(list, t)
      BY <2>5, RemoveShape DEF RemoveTimer, TimerInv, TypeOK
    <3> QED
      BY <2>2, <2>5, <3>1 DEF RemoveTimer
  <2>6. CASE WalkItem
    <3>1. interval'[t] = interval[t] /\ high' = high /\ Contains(list, t)
      BY <2>6 DEF WalkItem
    <3>2. due[t] <= high + interval[t]
      BY <2>2, <3>1
    <3>3. CASE due'[t] = due[t]
      BY <3>1, <3>2, <3>3
    <3>4. CASE due'[t] # due[t]
      \* The timer is called back, so it was due, and it waits from then on.
      <4>1. it = t /\ Tick(curr) >= nextTick[t] /\ due'[t] = due[t] + interval[t]
        BY <2>6, <3>4 DEF WalkItem, TimerInv
      <4>2. curr \in Nat /\ curr <= high /\ nextTick[t] = Tick(due[t])
        BY <2>6 DEF WalkItem, TimerInv, TypeOK
      <4>3. curr \in 0..(Wrap - 1) /\ due[t] \in 0..(Wrap - 1)
        BY <2>1, <3>1, <3>2, <4>2, TimerAssumption
      <4>4. due[t] <= curr
        BY <4>1, <4>2, <4>3, TickSmall
      <4> QED
        BY <2>1, <3>1, <4>1, <4>2, <4>4
    <3> QED
      BY <3>3, <3>4
  <2>7. CASE \/ SetBack \/ WalkBegin \/ CallbackReturn \/ WalkEnd \/ UNCHANGED vars
    <3>1. UNCHANGED <<list, high, interval, due>>
      BY <2>7 DEF SetBack, WalkBegin, CallbackReturn, WalkEnd, vars
    <3> QED
      BY <2>2, <3>1
  <2> QED
    BY <2>3, <2>4, <2>5, <2>6, <2>7 DEF Next, Walk
<1> QED
  BY <1>1, <1>2, TimerInvariant, PTL DEF Spec
=============================================================================
