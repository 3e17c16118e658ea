----------------------------- MODULE RouteServer ----------------------------
(***************************************************************************)
(* The route_server process (RouteConn.cpp as route_server.cpp uses it):   *)
(* one CRouteConn per im_server, and g_route_user_map, which names the     *)
(* im_server a user is logged in on.  g_route_conn_map is the set of       *)
(* CRouteConn objects that are OPEN.                                       *)
(***************************************************************************)
EXTENDS ImNet

VARIABLE routeMap  \* g_route_user_map: the im_server of a user

RouteInit == routeMap = [u \in UserIds |-> Nil]

RouteTypeOK == routeMap \in [UserIds -> Servers \union {Nil}]

-----------------------------------------------------------------------------

\* Mutant: the online request is read and forgotten.
Bug_RouteHandleOnline_Ignored(s, p) ==
  /\ p.type = "online"
  /\ UNCHANGED <<routeMap, r2s>>

\* HandleOnlineRequest(): a user already known keeps its im_server.
RouteHandleOnline(s, p) ==
  /\ p.type = "online"
  /\ routeMap' = InsertIfAbsent(routeMap, p.user, s)
  /\ UNCHANGED r2s

\* HandleOfflineRequest(): erases the user, whichever im_server is recorded.
RouteHandleOffline(p) ==
  /\ p.type = "offline"
  /\ routeMap' = [routeMap EXCEPT ![p.user] = Nil]
  /\ UNCHANGED r2s

\* HandleMsg(): to the im_server of the addressee, or dropped.
RouteHandleMsg(p) ==
  LET dst == routeMap[p.to] IN
  /\ p.type = "msg"
  /\ r2s' = IF dst # Nil THEN [r2s EXCEPT ![dst] = Append(@, p)] ELSE r2s
  /\ UNCHANGED routeMap

\* Mutants: Close() leaves the users of its connection behind, or clears the
\* map of those of all connections.
Bug_WithoutServer_Keeps(s) == routeMap
Bug_WithoutServer_Clears(s) == [u \in UserIds |-> Nil]

\* The users left when Close() has removed those of its own connection.
WithoutServer(s) ==
  [u \in UserIds |-> IF routeMap[u] = s THEN Nil ELSE routeMap[u]]

-----------------------------------------------------------------------------

\* _AcceptNewSocket() and CRouteConn::OnConnect().
RouteAccept(s) ==
  /\ routeUp
  /\ rlink[s] = "IDLE"
  /\ link[s] = "CONNECTING" \/ Confirmed(link[s]) \/ s2r[s] # <<>>
  /\ rlink' = [rlink EXCEPT ![s] = "OPEN"]
  /\ UNCHANGED <<processes, channels, cli, imConn, link, routeMap>>

\* CRouteConn::OnRead().  Nothing is on the wire while the im_server's Send()
\* only fills m_out_buf.
RouteRead(s) ==
  /\ rlink[s] = "OPEN"
  /\ link[s] \notin {"CONNECTING", "STUCK"}
  /\ s2r[s] # <<>>
  /\ \E rest \in Drained(s2r[s]) : s2r' = [s2r EXCEPT ![s] = rest]
  /\ \/ RouteHandleOnline(s, Head(s2r[s]))
     \/ RouteHandleOffline(Head(s2r[s]))
     \/ RouteHandleMsg(Head(s2r[s]))
  /\ UNCHANGED <<processes, c2s, s2c, endpoints>>

\* CRouteConn::OnClose(), Close(): the im_server is gone.
RouteClose(s) ==
  /\ rlink[s] = "OPEN"
  /\ link[s] \notin {"CONNECTING", "STUCK"}
  /\ PeerGone(s2r[s], r2s[s], link[s])
  /\ routeMap' = WithoutServer(s)
  /\ rlink' = [rlink EXCEPT ![s] = "FREED"]
  /\ s2r' = [s2r EXCEPT ![s] = <<>>]
  /\ r2s' = [r2s EXCEPT ![s] = <<>>]
  /\ UNCHANGED <<processes, c2s, s2c, cli, imConn, link>>

\* The process is started; im_servers that are up do not connect again.
RouteStart ==
  /\ ~routeUp
  /\ routeUp' = TRUE
  /\ UNCHANGED <<up, channels, endpoints, routeMap>>

\* The process ends, and every connection with it.
RouteCrash(keep) ==
  LET cut == {s \in Servers : \/ rlink[s] = "OPEN"
                              \/ Confirmed(link[s])
                              \/ link[s] = "FREED" /\ s2r[s] # <<>>}
  IN
  /\ routeUp
  /\ \A s \in Servers : keep[s] <= IF s \in cut THEN Len(r2s[s]) ELSE 0
  /\ routeUp' = FALSE
  /\ routeMap' = [u \in UserIds |-> Nil]
  /\ rlink' = [s \in Servers |-> IF s \in cut THEN "FREED" ELSE rlink[s]]
  /\ s2r' = [s \in Servers |-> IF s \in cut THEN <<>> ELSE s2r[s]]
  /\ r2s' = [s \in Servers |->
               CASE s \notin cut \/ rlink[s] = "FREED" -> r2s[s]
                 [] s \in cut /\ link[s] = "FREED" -> <<>>
                 [] OTHER -> Hangup(r2s[s], keep[s])]
  /\ UNCHANGED <<up, c2s, s2c, cli, imConn, link>>

RouteNext ==
  \/ \E s \in Servers : RouteAccept(s) \/ RouteRead(s) \/ RouteClose(s)
  \/ RouteStart
  \/ \E keep \in [Servers -> 0..MaxMsgs] : RouteCrash(keep)
=============================================================================
