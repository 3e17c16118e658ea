------------------------------ MODULE LoadGen ------------------------------
(***************************************************************************)
(* im_client as a load generator: main() opens a connection for each       *)
(* source id, and imconn_timer_callback() has connections it draws send to *)
(* ids it draws.  No connection is picked, confirmed or closed before      *)
(* main() is in the event loop.                                            *)
(***************************************************************************)
EXTENDS Naturals, FiniteSets

CONSTANTS
  SrcMin, SrcMax,   \* src_start_id and src_end_id
  DstMin, DstMaxes, \* dst_start_id, and what dst_end_id may be
  PktPerSecond,     \* pkt_per_second
  TimersPerSecond,  \* 1000 / TIMER_INTERVAL
  NoUser            \* not a user id

ASSUME LoadAssumption ==
  /\ {SrcMin, SrcMax, DstMin, PktPerSecond} \subseteq Nat
  /\ SrcMin <= SrcMax
  /\ DstMaxes \subseteq {d \in Nat : DstMin <= d}
  /\ TimersPerSecond \in Nat \ {0}
  /\ NoUser \notin Nat

Users == SrcMin..SrcMax

VARIABLES
  dstMax,     \* dst_end_id
  next,       \* i of the loop in main()
  state,      \* m_state, and "FREED"
  valid,      \* m_handle is not NETLIB_INVALID_HANDLE
  userMap,    \* ids in g_user_map
  routeConn,  \* id of the connection g_route_conn points to, or NoUser
  left,       \* rounds the timer callback under way has yet to do
  online,     \* history: ids that have sent an online request
  offline,    \* history: ids that an offline request was sent of
  from,       \* history: ids that have sent a message
  trapped     \* the process died of a division by zero

conns == <<next, state, valid, userMap, routeConn>>
history == <<online, offline, from>>
loadVars == <<dstMax, conns, left, history, trapped>>

LoadInit ==
  /\ dstMax \in DstMaxes
  /\ next = SrcMin
  /\ state = [u \in Users |-> "IDLE"]
  /\ valid = [u \in Users |-> FALSE]
  /\ userMap = {}
  /\ routeConn = NoUser
  /\ left = 0
  /\ online = {} /\ offline = {} /\ from = {}
  /\ trapped = FALSE

\* Connect().  When netlib_connect() fails at once nobody is told: the object
\* stays in g_user_map, CONNECTING for ever.
Connect ==
  /\ next \in Users
  /\ next' = next + 1
  /\ state' = [state EXCEPT ![next] = "CONNECTING"]
  /\ \E ok \in BOOLEAN : valid' = [valid EXCEPT ![next] = ok]
  /\ userMap' = userMap \union {next}
  /\ UNCHANGED <<dstMax, routeConn, left, history, trapped>>

InLoop == next > SrcMax /\ ~trapped /\ left = 0

\* OnConfirm().  With the id 0 the connection passes for one to route_server.
Confirm(u) ==
  /\ InLoop
  /\ state[u] = "CONNECTING" /\ valid[u]
  /\ state' = [state EXCEPT ![u] = "OPEN"]
  /\ online' = IF u # 0 THEN online \union {u} ELSE online
  /\ routeConn' = IF u # 0 THEN routeConn ELSE u
  /\ UNCHANGED <<dstMax, next, valid, userMap, left, offline, from, trapped>>

\* Mutant: g_route_conn is left as it is.
Bug_OnClose_Dangling(u) ==
  /\ InLoop
  /\ state[u] \in {"CONNECTING", "OPEN"} /\ valid[u]
  /\ state' = [state EXCEPT ![u] = "FREED"]
  /\ valid' = [valid EXCEPT ![u] = FALSE]
  /\ userMap' = userMap \ {u}
  /\ offline' = IF routeConn \in {NoUser, u} THEN offline ELSE offline \union {u}
  /\ UNCHANGED <<dstMax, next, routeConn, left, online, from, trapped>>

\* OnClose() and Close(), which sends an offline request over g_route_conn.
OnClose(u) ==
  /\ InLoop
  /\ state[u] \in {"CONNECTING", "OPEN"} /\ valid[u]
  /\ state' = [state EXCEPT ![u] = "FREED"]
  /\ valid' = [valid EXCEPT ![u] = FALSE]
  /\ userMap' = userMap \ {u}
  /\ routeConn' = IF routeConn = u THEN NoUser ELSE routeConn
  /\ offline' = IF routeConn \in {NoUser, u} THEN offline ELSE offline \union {u}
  /\ UNCHANGED <<dstMax, next, left, online, from, trapped>>

-----------------------------------------------------------------------------
(* imconn_timer_callback().                                                *)

\* g_pkt_per_timer, set by InitImConn().
PktPerTimer == PktPerSecond \div TimersPerSecond

\* The values of rand() % (max - min) + min; none when the division traps.
Drawn(min, max) == {min + r : r \in 0..(max - min - 1)}

\* The timer is due.
TimerDue ==
  /\ InLoop
  /\ left' = PktPerTimer
  /\ UNCHANGED <<dstMax, conns, history, trapped>>

\* FindImConnByUserId() finds no connection, or OnTimer() one that is not OPEN.
PickIdle(u) ==
  /\ left > 0 /\ ~trapped
  /\ u \in Drawn(SrcMin, SrcMax)
  /\ u \notin userMap \/ state[u] # "OPEN"
  /\ left' = left - 1
  /\ UNCHANGED <<dstMax, conns, history, trapped>>

\* OnTimer() sends a message to an id it draws.
PickOpen(u) ==
  /\ left > 0 /\ ~trapped
  /\ u \in Drawn(SrcMin, SrcMax) \intersect userMap /\ state[u] = "OPEN"
  /\ Drawn(DstMin, dstMax) # {}
  /\ left' = left - 1
  /\ from' = from \union {u}
  /\ UNCHANGED <<dstMax, conns, online, offline, trapped>>

\* rand() % 0.
Trap ==
  /\ left > 0 /\ ~trapped
  /\ \/ SrcMin = SrcMax
     \/ /\ DstMin = dstMax
        /\ \E u \in Drawn(SrcMin, SrcMax) \intersect userMap : state[u] = "OPEN"
  /\ trapped' = TRUE
  /\ UNCHANGED <<dstMax, conns, left, history>>

Pick == \E u \in Users : PickIdle(u) \/ PickOpen(u)

LoadNext ==
  \/ Connect
  \/ \E u \in Users : Confirm(u) \/ OnClose(u)
  \/ TimerDue \/ Pick \/ Trap

LoadSpec == LoadInit /\ [][LoadNext]_loadVars

-----------------------------------------------------------------------------

\* imconn.cpp:247: the id 0 makes a connection pass for the one to route_server.
\* Only that one sends without a login, and g_route_conn, over which Close()
\* sends, is never another connection or one that is gone.
ZeroIsRoute ==
  /\ from \subseteq online \union {0}
  /\ routeConn # NoUser => routeConn = 0 /\ state[0] = "OPEN"
  /\ offline \subseteq (IF 0 \in Users THEN Users \ {0} ELSE {})

\* im_client.cpp:25: any interval of ids may be given, that of one id too.
NeverTraps == ~trapped
=============================================================================
