------------------------------ MODULE Messenger -----------------------------
(***************************************************************************)
(* What the system promises its users, without servers, connections or     *)
(* tables: a message that was sent is read by at most one session, one of  *)
(* its addressee, and not after a later message of the same sender; or it  *)
(* is lost, on its own or with others.                                     *)
(***************************************************************************)
EXTENDS Naturals, Sequences

CONSTANTS
  Sessions,   \* who sends and reads
  Owner,      \* the user of a session
  Targets,    \* the users messages are sent to
  MaxMsgs     \* bound on the number of messages

VARIABLES
  nextId,   \* number of the next message
  pending,  \* messages sent, neither read nor lost
  inbox     \* what each session has read, in order

msgrVars == <<nextId, pending, inbox>>

MsgrInit ==
  /\ nextId = 1
  /\ pending = {}
  /\ inbox = [d \in Sessions |-> <<>>]

Post(c, to) ==
  /\ nextId <= MaxMsgs
  /\ pending' = pending \union {[type |-> "msg", from |-> c, to |-> to, id |-> nextId]}
  /\ nextId' = nextId + 1
  /\ UNCHANGED inbox

Deliver(d, m) ==
  /\ m.to = Owner[d]
  /\ \A i \in 1..Len(inbox[d]) : inbox[d][i].from = m.from => inbox[d][i].id < m.id
  /\ pending' = pending \ {m}
  /\ inbox' = [inbox EXCEPT ![d] = Append(@, m)]
  /\ UNCHANGED nextId

Lose ==
  /\ pending' \in SUBSET pending
  /\ UNCHANGED <<nextId, inbox>>

MsgrNext ==
  \/ \E c \in Sessions, to \in Targets : Post(c, to)
  \/ \E d \in Sessions : \E m \in pending : Deliver(d, m)
  \/ Lose

MsgrSpec == MsgrInit /\ [][MsgrNext]_msgrVars
=============================================================================
