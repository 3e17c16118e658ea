----------------------------- MODULE EventTimer -----------------------------
(***************************************************************************)
(* The timers of CEventDispatch: a list in order of registration, which    *)
(* _CheckTimer() walks after every epoll_wait(), with an iterator that     *)
(* lives across the callbacks.  Ticks are milliseconds in 32 bits.         *)
(***************************************************************************)
EXTENDS Naturals, Sequences, SequencesExt

CONSTANTS
  Timers,     \* pairs of callback and user_data
  Intervals,  \* what timers are registered with
  Wrap,       \* number of ticks, 2^32 in the code
  MaxClock,   \* bound on the time
  MaxBack,    \* the clock is set back by at most this
  MaxDue,     \* no walk begins once a timer is due later than this
  SelfOnly,   \* callbacks delete no timer but their own
  Nil

ASSUME TimerAssumption ==
  /\ Nil \notin Timers \union Nat
  /\ Wrap \in Nat \ {0} /\ Intervals \subseteq 1..(Wrap - 1)
  /\ {MaxClock, MaxBack, MaxDue} \subseteq Nat
  /\ SelfOnly \in BOOLEAN

VARIABLES
  clock,     \* the time; get_tick_count() is clock % Wrap
  high,      \* history: the latest time there was
  list,      \* m_timer_list
  interval,  \* field of the TimerItem
  nextTick,  \* field of the TimerItem
  due,       \* history: nextTick as a time
  curr,      \* curr_tick of the walk under way, as a time; Nil outside of one
  it,        \* the iterator: the TimerItem it is on, Nil at the end
  freed,     \* the TimerItem it was on is deleted
  running    \* the timer in its callback, or Nil

vars == <<clock, high, list, interval, nextTick, due, curr, it, freed, running>>

Tick(time) == time % Wrap

\* Iterators to the first element, and to the one after t.  The list is searched
\* from its beginning.
Begin == IF list = <<>> THEN Nil ELSE list[1]
Place(t) == CHOOSE i \in 1..Len(list) : list[i] = t
After(t) == IF Place(t) = Len(list) THEN Nil ELSE list[Place(t) + 1]

Init ==
  /\ clock \in 0..MaxClock /\ high = clock
  /\ list = <<>>
  /\ interval = [t \in Timers |-> 0]
  /\ nextTick = [t \in Timers |-> 0]
  /\ due = [t \in Timers |-> 0]
  /\ curr = Nil /\ it = Nil
  /\ freed = FALSE
  /\ running = Nil

Advance ==
  /\ clock < MaxClock
  /\ clock' = clock + 1
  /\ high' = IF clock' > high THEN clock' ELSE high
  /\ UNCHANGED <<list, interval, nextTick, due, curr, it, freed, running>>

\* gettimeofday() goes with the wall clock, which may be set back.
SetBack ==
  /\ \E d \in 1..MaxBack : d <= clock /\ clock' = clock - d
  /\ UNCHANGED <<high, list, interval, nextTick, due, curr, it, freed, running>>

\* Calls come from main() and socket callbacks between two walks, or from the
\* callback of a timer.
MayCall == ~freed /\ (curr = Nil \/ running # Nil)

\* Mutant: a timer that is registered again is a second item.
Bug_AddTimer_Twice(t, i) ==
  /\ MayCall
  /\ Len(list) < 3
  /\ list' = Append(list, t)
  /\ interval' = [interval EXCEPT ![t] = i]
  /\ nextTick' = [nextTick EXCEPT ![t] = Tick(clock + i)]
  /\ due' = [due EXCEPT ![t] = clock + i]
  /\ UNCHANGED <<clock, high, curr, it, freed, running>>

\* Mutant: and by another interval.
Bug_AddTimer_Push(t, i) ==
  /\ MayCall
  /\ list' = IF Contains(list, t) THEN list ELSE Append(list, t)
  /\ interval' = [interval EXCEPT ![t] = i]
  /\ LET from == IF Contains(list, t) THEN due[t] ELSE clock
     IN  /\ nextTick' = [nextTick EXCEPT ![t] = Tick(from + i)]
         /\ due' = [due EXCEPT ![t] = from + i]
  /\ UNCHANGED <<clock, high, curr, it, freed, running>>

\* A timer that is in the list is set anew and stays in its place.
AddTimer(t, i) ==
  /\ MayCall
  /\ list' = IF Contains(list, t) THEN list ELSE Append(list, t)
  /\ interval' = [interval EXCEPT ![t] = i]
  /\ nextTick' = [nextTick EXCEPT ![t] = Tick(clock + i)]
  /\ due' = [due EXCEPT ![t] = clock + i]
  /\ UNCHANGED <<clock, high, curr, it, freed, running>>

RemoveTimer(t) ==
  /\ MayCall
  /\ SelfOnly /\ running # Nil => t = running
  /\ Contains(list, t)
  /\ list' = RemoveAt(list, Place(t))
  /\ freed' = (it = t)
  /\ UNCHANGED <<clock, high, interval, nextTick, due, curr, it, running>>

-----------------------------------------------------------------------------
(* _CheckTimer().                                                          *)

\* Only where the ticks wrap does a timer get this far.
BeyondBound == \E t \in Timers : due[t] > MaxDue

WalkBegin ==
  /\ curr = Nil
  /\ ~BeyondBound
  /\ curr' = clock
  /\ it' = Begin
  /\ UNCHANGED <<clock, high, list, interval, nextTick, due, freed, running>>

\* Mutants: the item is rescheduled from now, not from when it was due; the
\* iterator is incremented after the callback; > for >=.
Bug_WalkItem_FromNow ==
  /\ curr # Nil /\ it # Nil /\ running = Nil /\ ~freed
  /\ it' = After(it)
  /\ \/ /\ Tick(curr) >= nextTick[it]
        /\ nextTick' = [nextTick EXCEPT ![it] = Tick(curr)]
        /\ due' = [due EXCEPT ![it] = @ + interval[it]]
        /\ running' = it
     \/ /\ Tick(curr) < nextTick[it]
        /\ UNCHANGED <<nextTick, due, running>>
  /\ UNCHANGED <<clock, high, list, interval, curr, freed>>
Bug_WalkItem_Stay ==
  /\ curr # Nil /\ it # Nil /\ running = Nil /\ ~freed
  /\ \/ /\ Tick(curr) >= nextTick[it]
        /\ nextTick' = [nextTick EXCEPT ![it] = Tick(@ + interval[it])]
        /\ due' = [due EXCEPT ![it] = @ + interval[it]]
        /\ running' = it
        /\ UNCHANGED it
     \/ /\ Tick(curr) < nextTick[it]
        /\ it' = After(it)
        /\ UNCHANGED <<nextTick, due, running>>
  /\ UNCHANGED <<clock, high, list, interval, curr, freed>>

Bug_WalkItem_Strict ==
  /\ curr # Nil /\ it # Nil /\ running = Nil /\ ~freed
  /\ it' = After(it)
  /\ \/ /\ Tick(curr) > nextTick[it]
        /\ nextTick' = [nextTick EXCEPT ![it] = Tick(@ + interval[it])]
        /\ due' = [due EXCEPT ![it] = @ + interval[it]]
        /\ running' = it
     \/ /\ Tick(curr) <= nextTick[it]
        /\ UNCHANGED <<nextTick, due, running>>
  /\ UNCHANGED <<clock, high, list, interval, curr, freed>>

\* One round of the loop: take the item, move the iterator on, and call back
\* if the item is due.
WalkItem ==
  /\ curr # Nil /\ it # Nil /\ running = Nil /\ ~freed
  /\ it' = After(it)
  /\ \/ /\ Tick(curr) >= nextTick[it]
        /\ nextTick' = [nextTick EXCEPT ![it] = Tick(@ + interval[it])]
        /\ due' = [due EXCEPT ![it] = @ + interval[it]]
        /\ running' = it
     \/ /\ Tick(curr) < nextTick[it]
        /\ UNCHANGED <<nextTick, due, running>>
  /\ UNCHANGED <<clock, high, list, interval, curr, freed>>

CallbackReturn ==
  /\ running # Nil
  /\ running' = Nil
  /\ UNCHANGED <<clock, high, list, interval, nextTick, due, curr, it, freed>>

WalkEnd ==
  /\ curr # Nil /\ it = Nil /\ running = Nil
  /\ curr' = Nil
  /\ UNCHANGED <<clock, high, list, interval, nextTick, due, it, freed, running>>

Walk == WalkBegin \/ WalkItem \/ CallbackReturn \/ WalkEnd

Next ==
  \/ Advance \/ SetBack
  \/ \E t \in Timers : RemoveTimer(t) \/ \E i \in Intervals : AddTimer(t, i)
  \/ Walk

\* The event loop comes back to _CheckTimer(), and callbacks return.
Spec == Init /\ [][Next]_vars
FairSpec == Spec /\ WF_vars(Walk)

-----------------------------------------------------------------------------

\* Types, and a timer is in the list once.
TypeOK ==
  /\ {clock, high} \subseteq 0..MaxClock /\ clock <= high
  /\ ToSet(list) \subseteq Timers /\ IsInjective(list)
  /\ interval \in [Timers -> Intervals \union {0}]
  /\ nextTick \in [Timers -> 0..(Wrap - 1)]
  /\ curr \in Nat \union {Nil}
  /\ {it, running} \subseteq Timers \union {Nil}
  /\ freed \in BOOLEAN

\* EventDispatch.cpp:85: the walk goes on from the iterator after a callback
\* that deleted a timer, for it was incremented before.
IteratorValid == ~freed /\ (it # Nil => Contains(list, it))

\* The walk calls back the timers that are due and passes over the others.
\* It fails either way only while get_tick_count() wraps between the walk and
\* the time the timer is due.
FiresWhenDue ==
  [][\A t \in Timers : (running = Nil /\ curr # Nil /\ it = t) =>
       /\ running' = t => curr >= due[t] \/ due[t] \div Wrap > curr \div Wrap
       /\ it' # it /\ running' = Nil =>
            due[t] > curr \/ due[t] \div Wrap < curr \div Wrap]_vars

\* util.cpp:551: the clock may be set back, and then timers wait for the time
\* there was before, but for no more than their interval beyond it; so it is
\* until the ticks are about to wrap, when a timer whose next tick is small
\* already is called at every walk and is put off each time.
WaitBounded ==
  \A t \in Timers :
    Contains(list, t) /\ high + interval[t] < Wrap => due[t] <= high + interval[t]

\* A timer that is late, by several intervals even, is called until it is not,
\* unless it is removed or the ticks wrap first.
CatchUp ==
  \A t \in Timers :
    (Contains(list, t) /\ due[t] <= clock)
      ~> \/ due[t] > clock \/ ~Contains(list, t)
         \/ due[t] \div Wrap < clock \div Wrap
         \/ BeyondBound
=============================================================================
