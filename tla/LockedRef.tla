----------------------------- MODULE LockedRef ------------------------------
(***************************************************************************)
(* CRefObject with a lock, which SetLock() gives it and which objects may  *)
(* share: AddRef() and ReleaseRef() of threads that hold references and    *)
(* hand them to each other.  The lock is a recursive mutex.                *)
(***************************************************************************)
EXTENDS Integers, FiniteSets

CONSTANTS
  Threads, Objects, Locks,
  LockOf,    \* m_lock of an object
  MaxHolds,  \* bound on the references a thread holds to an object
  Nil

ASSUME LockedRefAssumption ==
  /\ IsFiniteSet(Threads) /\ IsFiniteSet(Objects)
  /\ LockOf \in [Objects -> Locks]
  /\ MaxHolds \in Nat \ {0}
  /\ Nil \notin Threads \union Objects

VARIABLES
  refCount,  \* m_refCount
  deleted,   \* objects that are deleted
  owner,     \* the thread that has a lock, or Nil
  depth,     \* how often it has it
  holds,     \* references to an object a thread holds
  op         \* the call a thread is in

refVars == <<refCount, deleted, owner, depth, holds, op>>

Idle == [call |-> "none", obj |-> Nil, step |-> "idle", val |-> 0]

\* One thread has constructed the objects.
RefInit ==
  /\ refCount = [o \in Objects |-> 1]
  /\ deleted = {}
  /\ owner = [l \in Locks |-> Nil] /\ depth = [l \in Locks |-> 0]
  /\ \E t \in Threads :
       holds = [u \in Threads |-> [o \in Objects |-> IF u = t THEN 1 ELSE 0]]
  /\ op = [t \in Threads |-> Idle]

At(t, step) == op[t].step = step
LockAt(t) == LockOf[op[t].obj]
Goto(t, step) == op' = [op EXCEPT ![t].step = step]

-----------------------------------------------------------------------------

\* A reference goes to another thread, in a queue say.
Give(t, u, o) ==
  /\ At(t, "idle") /\ t # u
  /\ holds[t][o] > 0 /\ holds[u][o] < MaxHolds
  /\ holds' = [holds EXCEPT ![t][o] = @ - 1, ![u][o] = @ + 1]
  /\ UNCHANGED <<refCount, deleted, owner, depth, op>>

\* AddRef() adds a reference when it returns; the one ReleaseRef() is called
\* for is no longer used.
AddRef(t, o) ==
  /\ At(t, "idle") /\ holds[t][o] \in 1..(MaxHolds - 1)
  /\ op' = [op EXCEPT ![t] = [Idle EXCEPT !.call = "add", !.obj = o, !.step = "lock"]]
  /\ UNCHANGED <<refCount, deleted, owner, depth, holds>>

ReleaseRef(t, o) ==
  /\ At(t, "idle") /\ holds[t][o] > 0
  /\ holds' = [holds EXCEPT ![t][o] = @ - 1]
  /\ op' = [op EXCEPT ![t] = [Idle EXCEPT !.call = "release", !.obj = o, !.step = "lock"]]
  /\ UNCHANGED <<refCount, deleted, owner, depth>>

\* Mutants: no lock is taken; the mutex is not recursive.
Bug_Lock_None(t) ==
  /\ At(t, "lock")
  /\ Goto(t, "load")
  /\ UNCHANGED <<refCount, deleted, owner, depth, holds>>
Bug_Lock_NotRecursive(t) ==
  /\ At(t, "lock") /\ owner[LockAt(t)] = Nil
  /\ owner' = [owner EXCEPT ![LockAt(t)] = t]
  /\ depth' = [depth EXCEPT ![LockAt(t)] = 1]
  /\ Goto(t, "load")
  /\ UNCHANGED <<refCount, deleted, holds>>

\* CThreadLock::Lock().
Lock(t) ==
  /\ At(t, "lock") /\ owner[LockAt(t)] \in {Nil, t}
  /\ owner' = [owner EXCEPT ![LockAt(t)] = t]
  /\ depth' = [depth EXCEPT ![LockAt(t)] = @ + 1]
  /\ Goto(t, "load")
  /\ UNCHANGED <<refCount, deleted, holds>>

\* m_refCount++ and m_refCount--.
Load(t) ==
  /\ At(t, "load")
  /\ op' = [op EXCEPT ![t].val = refCount[op[t].obj], ![t].step = "store"]
  /\ UNCHANGED <<refCount, deleted, owner, depth, holds>>

Store(t) ==
  /\ At(t, "store")
  /\ refCount' = [refCount EXCEPT ![op[t].obj] =
                    IF op[t].call = "add" THEN op[t].val + 1 ELSE op[t].val - 1]
  /\ Goto(t, IF op[t].call = "add" THEN "unlock" ELSE "test")
  /\ UNCHANGED <<deleted, owner, depth, holds>>

TestKeep(t) ==
  /\ At(t, "test") /\ refCount[op[t].obj] # 0
  /\ Goto(t, "unlock")
  /\ UNCHANGED <<refCount, deleted, owner, depth, holds>>

\* delete this, and return, with the lock locked.
TestDelete(t) ==
  /\ At(t, "test") /\ refCount[op[t].obj] = 0
  /\ deleted' = deleted \union {op[t].obj}
  /\ op' = [op EXCEPT ![t] = Idle]
  /\ UNCHANGED <<refCount, owner, depth, holds>>

\* CThreadLock::Unlock(), and the call returns.
Unlock(t) ==
  LET l == LockAt(t) IN
  /\ At(t, "unlock")
  /\ depth' = [depth EXCEPT ![l] = @ - 1]
  /\ owner' = IF depth[l] = 1 THEN [owner EXCEPT ![l] = Nil] ELSE owner
  /\ holds' = IF op[t].call = "add" THEN [holds EXCEPT ![t][op[t].obj] = @ + 1] ELSE holds
  /\ op' = [op EXCEPT ![t] = Idle]
  /\ UNCHANGED <<refCount, deleted>>

RefStep(t) == Load(t) \/ Store(t) \/ TestKeep(t) \/ TestDelete(t) \/ Unlock(t)

RefNext ==
  \/ \E t \in Threads : Lock(t) \/ RefStep(t)
  \/ \E t \in Threads, o \in Objects : AddRef(t, o) \/ ReleaseRef(t, o)
  \/ \E t, u \in Threads, o \in Objects : Give(t, u, o)

RefSpec == RefInit /\ [][RefNext]_refVars

-----------------------------------------------------------------------------

\* Calls that have added to the count, or not yet taken from it.
Extra(o) ==
  {t \in Threads : /\ op[t].obj = o
                   /\ \/ op[t].call = "add" /\ At(t, "unlock")
                      \/ op[t].call = "release" /\ op[t].step \in {"lock", "load", "store"}}

\* The references to an object, one by one: those each thread holds, numbered
\* from 1 (in AddRef() a thread may be given one beyond the bound), and as 0 the
\* one it is adding or releasing.
References(o) ==
  {r \in Threads \X (0..(MaxHolds + 1)) :
     IF r[2] = 0 THEN r[1] \in Extra(o) ELSE r[2] <= holds[r[1]][o]}

\* util.cpp:115,132: no update of the count is lost, whatever threads do at a
\* time.
CountsHolders ==
  \A o \in Objects \ deleted : refCount[o] = Cardinality(References(o))

\* util.cpp:141: with the object gone nobody has a reference to it or is in a
\* call, so none can wait for a lock that lies in it.
NobodyLeft ==
  \A o \in deleted, t \in Threads : holds[t][o] = 0 /\ op[t].obj # o

\* Both: objects are deleted when they are unreferenced, and only then.
RefsCounted == CountsHolders /\ NobodyLeft

\* util.cpp:142: every call returns, unless the lock is shared with an object
\* that is deleted: that was left locked.
CallsReturn ==
  \A t \in Threads :
    ~At(t, "idle") ~> \/ At(t, "idle")
                      \/ /\ \E o \in deleted : LockOf[o] = LockAt(t)
                         /\ owner[LockAt(t)] # t
=============================================================================
