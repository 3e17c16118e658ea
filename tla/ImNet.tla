------------------------------- MODULE ImNet --------------------------------
(***************************************************************************)
(* What the three programs share: the PDUs, the TCP connections between    *)
(* them and the state of both ends of every connection.                    *)
(*                                                                         *)
(*   im_client  --c2s-->  im_server  --s2r-->  route_server                *)
(*              <--s2c--             <--r2s--                              *)
(*                                                                         *)
(* A channel is a FIFO of PDUs.  It stands for everything between Send()   *)
(* of one end and ReadPdu() of the other: the sender's m_out_buf, the      *)
(* kernel, and the receiver's m_in_buf.  The last element may be Eof, the  *)
(* end of stream (FIN or RST) left by an end that is gone.                 *)
(***************************************************************************)
EXTENDS Naturals, Sequences

CONSTANTS
  Users,     \* user ids other than 0
  NoUser,    \* user id 0: the m_userId of a connection nobody logged in on
  Servers,   \* im_server processes; a restart is another element of this set
  Conns,     \* client connections, one CImConn object on either side
  UserOf,    \* the user id the client connection is created with
  ServerOf,  \* the im_server it connects to
  Route,     \* the CImConn an im_server opens towards the route_server
  Nil,       \* "not in the map"
  Targets,   \* user ids the clients send to, im_client's destination range
  MaxMsgs    \* bound on the number of messages the clients send

ASSUME NetAssumption ==
  /\ NoUser \notin Users
  /\ UserOf \in [Conns -> Users]
  /\ ServerOf \in [Conns -> Servers]
  /\ Route \notin Conns
  /\ Nil \notin Conns \union {Route} \union Servers
  /\ Targets \subseteq Users \union {NoUser}
  /\ MaxMsgs \in Nat

VARIABLES
  up,        \* the im_server process: "off", "up" or "down"
  routeUp,   \* the route_server process runs
  c2s, s2c,  \* channels of client connection c
  s2r, r2s,  \* channels of the route connection of im_server s
  cli,       \* m_state of the im_client's CImConn of connection c
  imConn,    \* m_state of the im_server's CImConn of connection c
  link,      \* m_state of the im_server's CImConn towards the route_server
  rlink      \* the route_server's CRouteConn for im_server s

processes == <<up, routeUp>>
channels  == <<c2s, s2c, s2r, r2s>>
endpoints == <<cli, imConn, link, rlink>>

UserIds == Users \union {NoUser}

\* The three PDU types, impdu.h:16-18, and the end of the stream.
Online(u)  == [type |-> "online", user |-> u]
Offline(u) == [type |-> "offline", user |-> u]
Msg(c, u, n) == [type |-> "msg", from |-> c, to |-> u, id |-> n]
Eof == [type |-> "eof"]

Presence == {Online(u) : u \in UserIds} \union {Offline(u) : u \in UserIds}
Messages == {Msg(c, u, n) : c \in Conns, u \in UserIds, n \in 1..MaxMsgs}
Packets  == Presence \union Messages \union {Eof}

\* CONN_STATE_IDLE is an object not created yet; FREED one that was closed,
\* or that went with its process.  STUCK is OPEN with m_busy set before the
\* connection was confirmed (see ImServer!LinkConfirm).
ConnStates == {"IDLE", "CONNECTING", "CONNECTED", "OPEN", "STUCK", "FREED"}
Live(state) == state \in {"CONNECTED", "OPEN"}
Confirmed(state) == state \in {"OPEN", "STUCK"}

\* An end that is gone leaves Eof behind.  Of what its Send() took, the first
\* n PDUs had left m_out_buf; the others are lost.
Hangup(ch, n) == Append(SubSeq(ch, 1, IF n < Len(ch) THEN n ELSE Len(ch)), Eof)

\* OnRead() receives until recv() returns no more.  When the end of stream is
\* already there with the last PDU, the same loop consumes it (recv() = 0
\* breaks the loop like EAGAIN does) and no further event announces it.
Drained(ch) == {Tail(ch)} \union (IF Tail(ch) = <<Eof>> THEN {<<>>} ELSE {})

\* CBaseSocket::OnRead finds nothing to read: the stream ended, or the peer,
\* whose end of stream was consumed before, answered a later send with RST.
PeerGone(in, out, peer) ==
  \/ in # <<>> /\ Head(in) = Eof
  \/ in = <<>> /\ out # <<>> /\ peer = "FREED"

\* insert() of the hash maps keeps the entry that is there.
InsertIfAbsent(map, key, value) ==
  IF map[key] = Nil THEN [map EXCEPT ![key] = value] ELSE map

NetInit ==
  /\ up = [s \in Servers |-> "off"]
  /\ routeUp \in BOOLEAN
  /\ c2s = [c \in Conns |-> <<>>]
  /\ s2c = [c \in Conns |-> <<>>]
  /\ s2r = [s \in Servers |-> <<>>]
  /\ r2s = [s \in Servers |-> <<>>]
  /\ cli = [c \in Conns |-> "IDLE"]
  /\ imConn = [c \in Conns |-> "IDLE"]
  /\ link = [s \in Servers |-> "IDLE"]
  /\ rlink = [s \in Servers |-> "IDLE"]

NetTypeOK ==
  /\ up \in [Servers -> {"off", "up", "down"}]
  /\ routeUp \in BOOLEAN
  /\ c2s \in [Conns -> Seq(Packets)]
  /\ s2c \in [Conns -> Seq(Packets)]
  /\ s2r \in [Servers -> Seq(Packets)]
  /\ r2s \in [Servers -> Seq(Packets)]
  /\ cli \in [Conns -> ConnStates]
  /\ imConn \in [Conns -> ConnStates]
  /\ link \in [Servers -> ConnStates]
  /\ rlink \in [Servers -> ConnStates]
=============================================================================
