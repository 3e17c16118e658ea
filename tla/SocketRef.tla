------------------------------ MODULE SocketRef -----------------------------
(***************************************************************************)
(* CBaseSocket objects: the table from descriptor to object, the reference *)
(* counts that decide when an object is deleted, and the descriptors the   *)
(* kernel hands out again.                                                 *)
(*                                                                         *)
(* The event loop holds a reference while it calls OnRead(), OnWrite() or  *)
(* OnClose() of a socket.  From the callback below these the program calls *)
(* netlib_send(), netlib_recv() and netlib_close(), by descriptor.  Other  *)
(* threads, if there are any, call netlib_send(): the three programs have  *)
(* one thread, BaseSocket.h offers the class to several.                   *)
(*                                                                         *)
(* A call in progress is a record; its field todo lists the steps left, as *)
(* the code makes them: m_refCount++ loads and stores, for neither a lock  *)
(* nor an atomic type is used (the locks are commented out).               *)
(***************************************************************************)
EXTENDS Integers, Sequences, SequencesExt, FiniteSets

CONSTANTS
  Socks,     \* CBaseSocket objects; memory is not reused
  Fds,       \* descriptors; closed ones are reused
  Loop,      \* the thread in StartDispatch(), for the calls of its callbacks
  Threads,   \* Loop and the other threads
  Dispatch,  \* names the call StartDispatch() makes into a socket
  Serialized,\* the other threads never call while another call is in progress
  Nil

ASSUME RefAssumption ==
  /\ IsFiniteSet(Socks) /\ IsFiniteSet(Fds)
  /\ Loop \in Threads /\ Dispatch \notin Threads
  /\ Serialized \in BOOLEAN
  /\ Nil \notin Socks \union Fds

VARIABLES
  state,      \* m_state; "none" before new, "deleted" after delete
  refCount,   \* m_refCount
  mSocket,    \* m_socket
  socketMap,  \* g_socket_map
  kernel,     \* the object whose socket a descriptor is
  handles,    \* descriptors the program has connections for, g_conn_map's keys
  looping,    \* netlib_eventloop() was called
  batch,      \* events epoll_wait() returned, not dispatched yet
  call        \* the call in progress, of Dispatch and of each thread

vars == <<state, refCount, mSocket, socketMap, kernel, handles, looping, batch, call>>

Callers == Threads \union {Dispatch}
States == {"none", "listening", "connecting", "connected", "closing", "deleted"}

Idle == [todo |-> <<>>, fd |-> Nil, sock |-> Nil, val |-> 0]

\* CRefObject::AddRef(), and ReleaseRef() with its test for 0.
AddRef == <<"load", "inc">>
ReleaseRef == <<"drop", "dec", "test">>

\* Mutants: FindBaseSocket() takes no reference; netlib_close() returns without
\* its ReleaseRef(); Close() releases once too often; it stays in the table.
Bug_Find_NoRef == <<"find">>
Bug_CloseSteps_Leak == <<"find">> \o AddRef \o <<"unmap", "shut">> \o ReleaseRef
Bug_CloseSteps_Twice ==
  <<"find">> \o AddRef \o <<"unmap", "shut">> \o ReleaseRef \o ReleaseRef \o ReleaseRef
Bug_CloseSteps_Mapped == <<"find">> \o AddRef \o <<"shut">> \o ReleaseRef \o ReleaseRef

\* FindBaseSocket(), which takes a reference, netlib_send() and netlib_recv(),
\* netlib_option() with a place for the result, netlib_close(), and one event in
\* StartDispatch().
Find == <<"find">> \o AddRef
SendSteps == Find \o <<"use">> \o ReleaseRef
OptionSteps == Find \o <<"use">> \o ReleaseRef
CloseSteps == Find \o <<"unmap", "shut">> \o ReleaseRef \o ReleaseRef
EventSteps == Find \o <<"callback">> \o ReleaseRef

Init ==
  /\ state = [s \in Socks |-> "none"]
  /\ refCount = [s \in Socks |-> 0]
  /\ mSocket = [s \in Socks |-> Nil]
  /\ socketMap = [f \in Fds |-> Nil]
  /\ kernel = [f \in Fds |-> Nil]
  /\ handles = {}
  /\ looping = FALSE
  /\ batch = <<>>
  /\ call = [c \in Callers |-> Idle]

Called(c, fd, steps) == call' = [call EXCEPT ![c] = [Idle EXCEPT !.todo = steps, !.fd = fd]]

-----------------------------------------------------------------------------
(* The program.                                                            *)

\* new CBaseSocket() with a descriptor, AddBaseSocket() and AddEvent().
Create(s, f, st) ==
  /\ state[s] = "none"
  /\ kernel[f] = Nil
  /\ state' = [state EXCEPT ![s] = st]
  /\ refCount' = [refCount EXCEPT ![s] = 1]
  /\ mSocket' = [mSocket EXCEPT ![s] = f]
  /\ kernel' = [kernel EXCEPT ![f] = s]
  /\ socketMap' = IF socketMap[f] = Nil THEN [socketMap EXCEPT ![f] = s] ELSE socketMap

\* netlib_listen() and netlib_connect() in main().
Open(s, f, st) ==
  /\ ~looping
  /\ st \in {"listening", "connecting"}
  /\ Create(s, f, st)
  /\ handles' = IF st = "connecting" THEN handles \union {f} ELSE handles
  /\ UNCHANGED <<looping, batch, call>>

\* Either fails: the descriptor is closed again and the object deleted.
OpenFails(s) ==
  /\ ~looping
  /\ state[s] = "none"
  /\ state' = [state EXCEPT ![s] = "deleted"]
  /\ UNCHANGED <<refCount, mSocket, socketMap, kernel, handles, looping, batch, call>>

\* netlib_send() from another thread.
ThreadSend(t, f) ==
  /\ t # Loop
  /\ call[t].todo = <<>>
  /\ Serialized => \A c \in Callers : call[c].todo = <<>>
  /\ f \in handles
  /\ Called(t, f, SendSteps)
  /\ UNCHANGED <<state, refCount, mSocket, socketMap, kernel, handles, looping, batch>>

\* epoll_wait(): events of open descriptors, in any order.
Poll ==
  /\ batch = <<>> /\ call[Dispatch].todo = <<>>
  /\ looping' = TRUE
  /\ \E fds \in SUBSET {f \in Fds : kernel[f] # Nil} : \E q \in SetToSeqs(fds) :
       batch' = [i \in 1..Len(q) |-> [fd |-> q[i], sock |-> kernel[q[i]]]]
  /\ UNCHANGED <<state, refCount, mSocket, socketMap, kernel, handles, call>>

DispatchNext ==
  /\ batch # <<>> /\ call[Dispatch].todo = <<>>
  /\ Serialized => \A c \in Callers : call[c].todo = <<>>
  /\ Called(Dispatch, Head(batch).fd, EventSteps)
  /\ UNCHANGED <<state, refCount, mSocket, socketMap, kernel, handles, looping, batch>>

-----------------------------------------------------------------------------
(* What the callback does, before it returns.                              *)

InCallback(s) ==
  /\ call[Dispatch].todo # <<>> /\ Head(call[Dispatch].todo) = "callback"
  /\ call[Loop].todo = <<>>
  /\ s = call[Dispatch].sock

\* A round of _AcceptNewSocket() with OnConnect(), which calls netlib_option().
Accept(s, new, f) ==
  /\ InCallback(s)
  /\ state[s] = "listening"
  /\ Create(new, f, "connected")
  /\ handles' = handles \union {f}
  /\ Called(Loop, f, OptionSteps)
  /\ UNCHANGED <<looping, batch>>

\* OnWrite() of a socket that connects.
Confirm(s) ==
  /\ InCallback(s)
  /\ state[s] = "connecting"
  /\ state' = [state EXCEPT ![s] = "connected"]
  /\ UNCHANGED <<refCount, mSocket, socketMap, kernel, handles, looping, batch, call>>

\* Send() or netlib_recv() of any connection, this one or the addressee.
CallbackSend(s, f) ==
  /\ InCallback(s)
  /\ state[s] \in {"connecting", "connected"}
  /\ f \in handles
  /\ Called(Loop, f, SendSteps)
  /\ UNCHANGED <<state, refCount, mSocket, socketMap, kernel, handles, looping, batch>>

\* Mutant: a new session of a user closes the old one.
Bug_Closable_Any(s) == handles

\* The connections a callback closes: its own (NETLIB_MSG_CLOSE).
Closable(s) == handles \intersect {mSocket[s]}

\* CImConn::Close(): g_conn_map.erase(), then netlib_close().  OnClose() of the
\* socket, unlike OnRead(), sets m_state first.
CallbackClose(s, f) ==
  /\ InCallback(s)
  /\ state[s] # "listening"
  /\ f \in Closable(s)
  /\ handles' = handles \ {f}
  /\ Called(Loop, f, CloseSteps)
  /\ \/ UNCHANGED state
     \/ state' = [state EXCEPT ![s] = "closing"]
  /\ UNCHANGED <<refCount, mSocket, socketMap, kernel, looping, batch>>

-----------------------------------------------------------------------------
(* The steps of a call.                                                    *)

At(c, step) == call[c].todo # <<>> /\ Head(call[c].todo) = step
Pop(c) == Tail(call[c].todo)

\* Lookup in g_socket_map.
DoFind(c) ==
  LET s == socketMap[call[c].fd] IN
  /\ At(c, "find")
  /\ call' = [call EXCEPT ![c] = IF s = Nil THEN Idle
                                 ELSE [@ EXCEPT !.todo = Pop(c), !.sock = s]]
  /\ batch' = IF c = Dispatch /\ s = Nil THEN Tail(batch) ELSE batch
  /\ UNCHANGED <<state, refCount, mSocket, socketMap, kernel, handles, looping>>

\* The load of m_refCount++ and of m_refCount--, then the store.
DoLoad(c) ==
  /\ \/ At(c, "load") /\ call' = [call EXCEPT ![c].todo = Pop(c),
                                              ![c].val = refCount[call[c].sock] + 1]
     \/ At(c, "drop") /\ call' = [call EXCEPT ![c].todo = Pop(c),
                                              ![c].val = refCount[call[c].sock] - 1]
  /\ UNCHANGED <<state, refCount, mSocket, socketMap, kernel, handles, looping, batch>>

DoStore(c) ==
  /\ At(c, "inc") \/ At(c, "dec")
  /\ refCount' = [refCount EXCEPT ![call[c].sock] = call[c].val]
  /\ call' = [call EXCEPT ![c].todo = Pop(c)]
  /\ UNCHANGED <<state, mSocket, socketMap, kernel, handles, looping, batch>>

\* "if (m_refCount == 0) delete this", and the return of the call with its last
\* step.
DoTest(c) ==
  /\ At(c, "test")
  /\ state' = IF refCount[call[c].sock] = 0
                THEN [state EXCEPT ![call[c].sock] = "deleted"] ELSE state
  /\ call' = [call EXCEPT ![c] = IF Pop(c) = <<>> THEN Idle ELSE [@ EXCEPT !.todo = Pop(c)]]
  /\ batch' = IF c = Dispatch /\ Pop(c) = <<>> THEN Tail(batch) ELSE batch
  /\ UNCHANGED <<refCount, mSocket, socketMap, kernel, handles, looping>>

\* send(), recv() and SetCallback(); the callback's return.
DoUse(c) ==
  /\ At(c, "use") \/ (At(c, "callback") /\ call[Loop].todo = <<>>)
  /\ call' = [call EXCEPT ![c].todo = Pop(c)]
  /\ UNCHANGED <<state, refCount, mSocket, socketMap, kernel, handles, looping, batch>>

\* CBaseSocket::Close(): out of epoll and of g_socket_map, by descriptor...
DoUnmap(c) ==
  /\ At(c, "unmap")
  /\ socketMap' = [socketMap EXCEPT ![mSocket[call[c].sock]] = Nil]
  /\ call' = [call EXCEPT ![c].todo = Pop(c)]
  /\ UNCHANGED <<state, refCount, mSocket, kernel, handles, looping, batch>>

\* ... and closesocket(): the descriptor is free.
DoShut(c) ==
  /\ At(c, "shut")
  /\ kernel' = [kernel EXCEPT ![mSocket[call[c].sock]] = Nil]
  /\ call' = [call EXCEPT ![c].todo = Pop(c)]
  /\ UNCHANGED <<state, refCount, mSocket, socketMap, handles, looping, batch>>

Step(c) == DoFind(c) \/ DoLoad(c) \/ DoStore(c) \/ DoTest(c) \/ DoUse(c)
             \/ DoUnmap(c) \/ DoShut(c)

Next ==
  \/ \E s \in Socks :
       \/ OpenFails(s) \/ Confirm(s)
       \/ \E f \in Fds : \/ \E st \in States : Open(s, f, st)
                         \/ \E new \in Socks : Accept(s, new, f)
                         \/ CallbackSend(s, f) \/ CallbackClose(s, f)
  \/ \E t \in Threads, f \in Fds : ThreadSend(t, f)
  \/ Poll \/ DispatchNext
  \/ \E c \in Callers : Step(c)

Spec == Init /\ [][Next]_vars

-----------------------------------------------------------------------------

TypeOK ==
  /\ state \in [Socks -> States]
  /\ refCount \in [Socks -> Nat]
  /\ mSocket \in [Socks -> Fds \union {Nil}]
  /\ socketMap \in [Fds -> Socks \union {Nil}]
  /\ kernel \in [Fds -> Socks \union {Nil}]
  /\ handles \subseteq Fds
  /\ looping \in BOOLEAN
  /\ \A c \in Callers : call[c].todo # <<>> => call[c].fd \in Fds

\* No call works on a deleted object: not the loop after a callback that closed
\* the socket, and not netlib_close() after Close() released it.  BaseSocket.h:2
\* says the class is thread safe.
NoUseAfterFree ==
  \A c \in Callers : call[c].sock # Nil => state[call[c].sock] # "deleted"

\* The count of an object is the references there are: one for its entry in
\* the table, and one per call from its m_refCount++ to its m_refCount--.
\* Close() takes over the entry's with the entry.
RefCounted ==
  \A s \in Socks :
    LET Left(step) == Cardinality({p \in Callers \X (1..Len(CloseSteps)) :
                        /\ call[p[1]].sock = s
                        /\ p[2] <= Len(call[p[1]].todo)
                        /\ call[p[1]].todo[p[2]] = step})
    IN  state[s] \notin {"none", "deleted"} =>
          refCount[s] = Left("dec") - Left("inc") - Left("unmap")
                          + (IF socketMap[mSocket[s]] = s THEN 1 ELSE 0)

\* When no call is in progress, an object is in the table under its descriptor
\* or deleted: none is leaked, and none is in the table but not open.
NoLeak ==
  (\A c \in Callers : call[c].todo = <<>>) =>
    \A s \in Socks : state[s] \notin {"none", "deleted"} =>
      /\ refCount[s] = 1
      /\ socketMap[mSocket[s]] = s
      /\ kernel[mSocket[s]] = s

\* An event is dispatched to the object it was reported for, although the
\* descriptor may be closed and opened again before its turn comes.
EventOfItsSocket ==
  (batch # <<>> /\ call[Dispatch].sock # Nil) => call[Dispatch].sock = Head(batch).sock
=============================================================================
