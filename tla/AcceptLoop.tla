----------------------------- MODULE AcceptLoop -----------------------------
(***************************************************************************)
(* The listening socket: the event for connections that wait in the        *)
(* backlog, and the loop of _AcceptNewSocket(), which ends when accept()   *)
(* fails, because nobody waits or because the process has no descriptor    *)
(* left.  With epoll the event is edge-triggered.                          *)
(***************************************************************************)
EXTENDS Naturals, Sequences, SequencesExt, FiniteSets

CONSTANTS
  Clients,     \* connections that are made, each any number of times
  MaxOpen,       \* descriptors there are for accepted sockets
  MaxBacklog   \* what listen() asks for

ASSUME AcceptAssumption ==
  /\ IsFiniteSet(Clients)
  /\ MaxOpen \in Nat /\ MaxBacklog \in Nat

VARIABLES
  backlog,    \* clients that are connected and not accepted, in order
  edge,       \* the listening socket is in the ready list of epoll
  accepting,  \* _AcceptNewSocket() is in its loop
  open,       \* clients with an accepted socket
  starved     \* history: the last loop ended for want of descriptors

acceptVars == <<backlog, edge, accepting, open, starved>>

AcceptInit ==
  /\ backlog = <<>>
  /\ edge = FALSE
  /\ accepting = FALSE
  /\ open = {}
  /\ starved = FALSE

Waiting == ToSet(backlog)

-----------------------------------------------------------------------------
(* The kernel and the clients.                                             *)

ClientArrives(c) ==
  /\ c \notin Waiting \union open
  /\ Len(backlog) < MaxBacklog
  /\ backlog' = Append(backlog, c)
  /\ edge' = TRUE
  /\ UNCHANGED <<accepting, open, starved>>

\* netlib_close(), in an event of that connection.
Close(c) ==
  /\ c \in open /\ ~accepting
  /\ open' = open \ {c}
  /\ UNCHANGED <<backlog, edge, accepting, starved>>

-----------------------------------------------------------------------------
(* The event loop, for the listening socket.                               *)

\* OnRead().
AcceptEvent ==
  /\ edge /\ ~accepting
  /\ edge' = FALSE
  /\ accepting' = TRUE
  /\ starved' = FALSE
  /\ UNCHANGED <<backlog, open>>

\* Mutant: if for while.
Bug_AcceptOne_If ==
  /\ accepting
  /\ backlog # <<>> /\ Cardinality(open) < MaxOpen
  /\ open' = open \union {Head(backlog)}
  /\ backlog' = Tail(backlog)
  /\ accepting' = FALSE
  /\ UNCHANGED <<edge, starved>>

\* accept() returns a socket: it is set up, and the callback told.
AcceptOne ==
  /\ accepting
  /\ backlog # <<>> /\ Cardinality(open) < MaxOpen
  /\ open' = open \union {Head(backlog)}
  /\ backlog' = Tail(backlog)
  /\ UNCHANGED <<edge, accepting, starved>>

\* accept() fails, and why is not looked at.
AcceptFails ==
  /\ accepting
  /\ backlog = <<>> \/ Cardinality(open) >= MaxOpen
  /\ accepting' = FALSE
  /\ starved' = (Cardinality(open) >= MaxOpen)
  /\ UNCHANGED <<backlog, edge, open>>

Loop == AcceptEvent \/ AcceptOne \/ AcceptFails

AcceptNext == Loop \/ \E c \in Clients : ClientArrives(c) \/ Close(c)

AcceptSpec == AcceptInit /\ [][AcceptNext]_acceptVars

-----------------------------------------------------------------------------

\* BaseSocket.cpp:291: a client that waits will be seen to, unless the process
\* was out of descriptors when it was last looked at.  Then nothing but another
\* client's arrival makes the loop run.
StrandedOnlyStarved ==
  backlog # <<>> => edge \/ accepting \/ starved

=============================================================================
