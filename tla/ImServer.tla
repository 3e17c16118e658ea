------------------------------ MODULE ImServer ------------------------------
(***************************************************************************)
(* The im_server process (imconn.cpp as im_server.cpp uses it).  It        *)
(* accepts client connections, learns who is logged in on which of them,   *)
(* tells the route_server, and forwards messages to a local session or to  *)
(* the route_server.                                                       *)
(*                                                                         *)
(* The process is one thread around one event loop, so a callback runs to  *)
(* its end before the next: each is one action.  One OnRead() handles all  *)
(* PDUs it finds; an action handles one, which is the same callback when   *)
(* TCP delivers one PDU at a time, and otherwise several in a row.         *)
(*                                                                         *)
(* g_conn_map[handle] is the object of an open handle, so it is the set of *)
(* connections in a Live state and needs no variable.                      *)
(***************************************************************************)
EXTENDS ImNet

VARIABLES
  gRouteConn,  \* g_route_conn of im_server s is its route connection
  mUserId,     \* m_userId of the CImConn of client connection c
  userMap,     \* g_user_map of im_server s
  announced    \* history: sessions whose login went to the route_server

imVars == <<gRouteConn, mUserId, userMap, announced>>

ImInit ==
  /\ gRouteConn = [s \in Servers |-> FALSE]
  /\ mUserId = [c \in Conns |-> NoUser]
  /\ userMap = [s \in Servers |-> [u \in UserIds |-> Nil]]
  /\ announced = {}

ImTypeOK ==
  /\ gRouteConn \in [Servers -> BOOLEAN]
  /\ mUserId \in [Conns -> UserIds]
  /\ userMap \in [Servers -> [UserIds -> Conns \union {Route, Nil}]]
  /\ announced \in SUBSET Conns

-----------------------------------------------------------------------------

\* Mutants of the two helpers below: a close is not reported; m_out_buf is
\* overtaken by a later Send(); reports are queued before g_route_conn is set;
\* Close() leaves its g_user_map entry behind.
Bug_Report_NoOffline(s, p) ==
  s2r' = IF gRouteConn[s] /\ p.type # "offline"
           THEN [s2r EXCEPT ![s] = Append(@, p)] ELSE s2r
Bug_Report_Overtakes(s, p) ==
  s2r' = IF gRouteConn[s] THEN [s2r EXCEPT ![s] = <<p>> \o @] ELSE s2r
Bug_Report_Early(s, p) ==
  s2r' = IF gRouteConn[s] \/ link[s] = "CONNECTING"
           THEN [s2r EXCEPT ![s] = Append(@, p)] ELSE s2r
Bug_Erased_Nothing(s, u) == userMap

\* Send(p) on g_route_conn, if there is one.  Send() never fails and never
\* blocks: it writes to the socket or to m_out_buf.
Report(s, p) ==
  s2r' = IF gRouteConn[s] THEN [s2r EXCEPT ![s] = Append(@, p)] ELSE s2r

\* Mutant: a login does not enter the map.
Bug_Registered_Nothing(s, u, conn) == userMap

\* g_user_map.insert(make_pair(u, conn)).
Registered(s, u, conn) ==
  [userMap EXCEPT ![s] = InsertIfAbsent(@, u, conn)]

\* g_user_map.erase(u): by key, whatever session the entry names.
Erased(s, u) == [userMap EXCEPT ![s][u] = Nil]

-----------------------------------------------------------------------------
(* The life of the process and of its route connection.                    *)

\* main(): listen, then Connect() to the route_server with user id 0.
ImStart(s) ==
  /\ up[s] = "off"
  /\ up' = [up EXCEPT ![s] = "up"]
  /\ link' = [link EXCEPT ![s] = "CONNECTING"]
  /\ userMap' = Registered(s, NoUser, Route)
  /\ UNCHANGED <<routeUp, channels, cli, imConn, rlink, gRouteConn, mUserId, announced>>

\* OnConfirm() with m_userId = 0.  A Send() before the confirm found the socket
\* not connected, queued its PDU and set m_busy; the one EPOLLOUT event that
\* would flush m_out_buf is this confirm, so nothing is ever sent then.
LinkConfirm(s) ==
  /\ link[s] = "CONNECTING"
  /\ routeUp
  /\ rlink[s] # "FREED"
  /\ link' = [link EXCEPT ![s] = IF s2r[s] = <<>> THEN "OPEN" ELSE "STUCK"]
  /\ gRouteConn' = [gRouteConn EXCEPT ![s] = TRUE]
  /\ UNCHANGED <<processes, channels, cli, imConn, rlink, mUserId, userMap, announced>>

\* OnClose() of the route connection: it was refused, or the route_server is
\* gone.  Close() drops g_route_conn, which is this connection or NULL.
LinkClose(s) ==
  /\ \/ link[s] = "CONNECTING" /\ rlink[s] = "IDLE"
     \/ /\ link[s] = "CONNECTING" \/ Confirmed(link[s])
        /\ PeerGone(r2s[s], IF link[s] = "STUCK" THEN <<>> ELSE s2r[s], rlink[s])
  /\ gRouteConn' = [gRouteConn EXCEPT ![s] = FALSE]
  /\ userMap' = Erased(s, NoUser)
  /\ link' = [link EXCEPT ![s] = "FREED"]
  /\ s2r' = [s2r EXCEPT ![s] = <<>>]
  /\ r2s' = [r2s EXCEPT ![s] = <<>>]
  /\ UNCHANGED <<processes, c2s, s2c, cli, imConn, rlink, mUserId, announced>>

-----------------------------------------------------------------------------
(* A client connection.                                                    *)

\* _AcceptNewSocket() and OnConnect().  The client end may be gone already.
ImAccept(c) ==
  /\ up[ServerOf[c]] = "up"
  /\ imConn[c] = "IDLE"
  /\ cli[c] \in {"CONNECTING", "OPEN"} \/ c2s[c] # <<>>
  /\ imConn' = [imConn EXCEPT ![c] = "CONNECTED"]
  /\ UNCHANGED <<processes, channels, cli, link, rlink, imVars>>

\* HandleOnlineRequest() of a CONN_TYPE_IM_SERVER connection.
HandleOnlineRequest(c, p) ==
  LET s == ServerOf[c] IN
  /\ p.type = "online"
  /\ imConn' = [imConn EXCEPT ![c] = "OPEN"]
  /\ mUserId' = [mUserId EXCEPT ![c] = p.user]
  /\ userMap' = Registered(s, p.user, c)
  /\ Report(s, Online(p.user))
  /\ announced' = IF gRouteConn[s] THEN announced \union {c} ELSE announced
  /\ UNCHANGED <<s2c, gRouteConn>>

\* Mutants: every client message also goes to the route_server; the local map
\* is only searched for messages from the route_server.
Bug_HandleMsg_Both(s, p, fromRoute) ==
  LET dst == userMap[s][p.to] IN
  /\ p.type = "msg"
  /\ s2c' = IF dst \in Conns THEN [s2c EXCEPT ![dst] = Append(@, p)] ELSE s2c
  /\ IF fromRoute THEN UNCHANGED s2r ELSE Report(s, p)
Bug_HandleMsg_RouteFirst(s, p, fromRoute) ==
  LET dst == userMap[s][p.to] IN
  /\ p.type = "msg"
  /\ IF fromRoute
       THEN /\ s2c' = IF dst \in Conns THEN [s2c EXCEPT ![dst] = Append(@, p)] ELSE s2c
            /\ UNCHANGED s2r
       ELSE Report(s, p) /\ UNCHANGED s2c

\* HandleMsg() of im_server s, the message read from a client or, fromRoute,
\* from the route_server.
HandleMsg(s, p, fromRoute) ==
  LET dst == userMap[s][p.to] IN
  /\ p.type = "msg"
  /\ \/ /\ dst \in Conns
        /\ s2c' = [s2c EXCEPT ![dst] = Append(@, p)]
        /\ UNCHANGED s2r
     \/ /\ dst = Route    \* p.to = 0: the entry Connect() made
        /\ s2r' = [s2r EXCEPT ![s] = Append(@, p)]
        /\ UNCHANGED s2c
     \/ /\ dst = Nil
        /\ IF fromRoute THEN UNCHANGED s2r ELSE Report(s, p)
        /\ UNCHANGED s2c

\* OnRead() of a client connection.
ImRead(c) ==
  /\ Live(imConn[c])
  /\ c2s[c] # <<>>
  /\ \E rest \in Drained(c2s[c]) : c2s' = [c2s EXCEPT ![c] = rest]
  /\ \/ HandleOnlineRequest(c, Head(c2s[c]))
     \/ /\ HandleMsg(ServerOf[c], Head(c2s[c]), FALSE)
        /\ UNCHANGED <<imConn, imVars>>
  /\ UNCHANGED <<processes, r2s, cli, link, rlink>>

\* OnRead() of the route connection.
LinkRead(s) ==
  /\ Confirmed(link[s])
  /\ r2s[s] # <<>>
  /\ \E rest \in Drained(r2s[s]) : r2s' = [r2s EXCEPT ![s] = rest]
  /\ HandleMsg(s, Head(r2s[s]), TRUE)
  /\ UNCHANGED <<processes, c2s, endpoints, imVars>>

\* OnClose() of a client connection: Close() reports its user offline, logged
\* in or not, and takes that key out of g_user_map.
ImOnClose(c) ==
  LET s == ServerOf[c] IN
  /\ Live(imConn[c])
  /\ PeerGone(c2s[c], s2c[c], cli[c])
  /\ Report(s, Offline(mUserId[c]))
  /\ userMap' = Erased(s, mUserId[c])
  /\ imConn' = [imConn EXCEPT ![c] = "FREED"]
  /\ c2s' = [c2s EXCEPT ![c] = <<>>]
  /\ s2c' = [s2c EXCEPT ![c] = <<>>]
  /\ UNCHANGED <<processes, r2s, cli, link, rlink, gRouteConn, mUserId, announced>>

\* The process ends, and every connection with it.  keep and keepRoute: how
\* much of what it had to send was on the wire.
ImCrash(s, keep, keepRoute) ==
  LET mine == {c \in Conns : ServerOf[c] = s}
      cut  == {c \in mine : Live(imConn[c]) \/ cli[c] \in {"CONNECTING", "OPEN"}}
  IN
  /\ up[s] = "up"
  /\ \A c \in Conns : keep[c] <= IF c \in cut THEN Len(s2c[c]) ELSE 0
  /\ up' = [up EXCEPT ![s] = "down"]
  /\ gRouteConn' = [gRouteConn EXCEPT ![s] = FALSE]
  /\ userMap' = [userMap EXCEPT ![s] = [u \in UserIds |-> Nil]]
  /\ imConn' = [c \in Conns |-> IF c \in cut THEN "FREED" ELSE imConn[c]]
  /\ s2c' = [c \in Conns |-> IF c \notin cut THEN s2c[c]
                             ELSE IF cli[c] = "FREED" THEN <<>>
                             ELSE Hangup(s2c[c], keep[c])]
  /\ c2s' = [c \in Conns |-> IF c \in mine THEN <<>> ELSE c2s[c]]
  /\ link' = [link EXCEPT ![s] = "FREED"]
  /\ s2r' = [s2r EXCEPT ![s] =
                IF link[s] = "FREED" THEN @
                ELSE IF ~routeUp \/ rlink[s] = "FREED" THEN <<>>
                ELSE Hangup(@, IF link[s] = "OPEN" THEN keepRoute ELSE 0)]
  /\ r2s' = [r2s EXCEPT ![s] = <<>>]
  /\ UNCHANGED <<routeUp, cli, rlink, mUserId, announced>>

ImNext ==
  \/ \E s \in Servers : \/ ImStart(s) \/ LinkConfirm(s)
                        \/ LinkClose(s) \/ LinkRead(s)
                        \/ \E keep \in [Conns -> 0..MaxMsgs], n \in 0..Len(s2r[s]) :
                             ImCrash(s, keep, n)
  \/ \E c \in Conns : ImAccept(c) \/ ImRead(c) \/ ImOnClose(c)
=============================================================================
