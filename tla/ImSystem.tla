------------------------------ MODULE ImSystem ------------------------------
(***************************************************************************)
(* The whole system: im_clients, im_servers and one route_server, each     *)
(* process taking its own steps, joined by the TCP channels of ImNet.      *)
(***************************************************************************)
EXTENDS ImServer, RouteServer, ImClient

vars == <<processes, channels, endpoints, imVars, routeMap, clientVars>>

Init == NetInit /\ ImInit /\ RouteInit /\ ClientInit

Next ==
  \/ ImNext /\ UNCHANGED <<routeMap, clientVars>>
  \/ RouteNext /\ UNCHANGED <<imVars, clientVars>>
  \/ ClientNext /\ UNCHANGED <<imVars, routeMap>>

Spec == Init /\ [][Next]_vars

TypeOK == NetTypeOK /\ ImTypeOK /\ RouteTypeOK /\ ClientTypeOK

-----------------------------------------------------------------------------
(* Safety.                                                                 *)

\* No map or global of an im_server names a closed (deleted) object: an entry
\* of g_user_map is a live session logged in under that very id, the entry 0
\* is the route connection while it lives, and g_route_conn is open.
\* CImConn::Close takes out one key, so this needs that a session is under no
\* other.
NoDanglingEntry ==
  \A s \in Servers :
    /\ gRouteConn[s] => Confirmed(link[s])
    /\ \A u \in UserIds :
         LET c == userMap[s][u] IN
         /\ c = Route => u = NoUser /\ link[s] # "FREED"
         /\ c \in Conns => /\ imConn[c] = "OPEN"
                           /\ ServerOf[c] = s
                           /\ mUserId[c] = u

\* g_route_user_map names only connections that are not deleted.
NoDanglingRoute ==
  \A u \in UserIds : routeMap[u] # Nil => rlink[routeMap[u]] = "OPEN"

\* The route_server believes user u is on im_server s only while s has u in
\* its own map, or is about to take it back: an offline report is on its way,
\* or s no longer has its route connection.
RouteEntryBacked ==
  \A u \in UserIds : LET s == routeMap[u] IN
    (s # Nil /\ gRouteConn[s]) =>
      \/ userMap[s][u] # Nil
      \/ \E i \in 1..Len(s2r[s]) : s2r[s][i] = Offline(u)

\* The route_server never sends a message back to the im_server it is from:
\* when it reads it, its table does not name that im_server.  Between the two
\* maps a message would otherwise go round.
NoEcho ==
  \A s \in Servers :
    (/\ rlink[s] = "OPEN"
     /\ s2r[s] # <<>>
     /\ Head(s2r[s]).type = "msg") => routeMap[Head(s2r[s]).to] # s

MsgsIn(ch) == {ch[i] : i \in {j \in 1..Len(ch) : ch[j].type = "msg"}}

\* The messages in all the channels.
InFlight ==
  UNION ({MsgsIn(c2s[c]) \union MsgsIn(s2c[c]) : c \in Conns}
           \union {MsgsIn(s2r[s]) \union MsgsIn(r2s[s]) : s \in Servers})

\* Whatever crashes, reconnects and roams, a message is read once at most, by
\* a session of its addressee, and those of one sender in the order they were
\* sent, although each may take the way over the route_server or not.
Promise == INSTANCE Messenger
  WITH Sessions <- Conns, Owner <- UserOf, pending <- InFlight
ImplementsMessenger == Promise!MsgrSpec

-----------------------------------------------------------------------------
(* What holds with one session per user (UserOf is injective): neither map *)
(* can hold a second session of a user.                                    *)

\* A session that logged in stays reachable on its im_server until it closes.
SessionRegistered ==
  \A c \in Conns : imConn[c] = "OPEN" => userMap[ServerOf[c]][UserOf[c]] = c

\* A session whose login was reported stays known to the route_server, or the
\* report is on its way, as long as the route connection is open.
AnnouncedIsRouted ==
  \A c \in announced : LET s == ServerOf[c] IN
    (imConn[c] = "OPEN" /\ gRouteConn[s] /\ rlink[s] # "FREED") =>
      \/ routeMap[UserOf[c]] = s
      \/ \E i \in 1..Len(s2r[s]) : s2r[s][i] = Online(UserOf[c])

\* A session that logged in while the im_server had no route connection stays
\* unknown to the route_server, also when there is one later: nothing reports
\* it again.
UnreportedUnrouted ==
  \A c \in Conns \ announced : LET s == ServerOf[c] IN
    imConn[c] = "OPEN" =>
      /\ routeMap[UserOf[c]] # s
      /\ \A i \in 1..Len(s2r[s]) : s2r[s][i] # Online(UserOf[c])

-----------------------------------------------------------------------------
(* Liveness, again with one session per user.                              *)

\* Every event loop returns to every connection that is ready.  Nothing is
\* assumed of what users and operators do: connecting, sending, killing,
\* starting and crashing.
Fairness ==
  /\ \A c \in Conns : /\ WF_vars(ImAccept(c) /\ UNCHANGED <<routeMap, clientVars>>)
                      /\ WF_vars(ImRead(c) /\ UNCHANGED <<routeMap, clientVars>>)
                      /\ WF_vars(CliRead(c) /\ UNCHANGED <<imVars, routeMap>>)
  /\ \A s \in Servers : /\ WF_vars(RouteAccept(s) /\ UNCHANGED <<imVars, clientVars>>)
                        /\ WF_vars(RouteRead(s) /\ UNCHANGED <<imVars, clientVars>>)

FairSpec == Spec /\ Fairness

Gone(c) == cli[c] = "FREED" \/ imConn[c] = "FREED"

\* README.md:9: without a route_server an im_server works as a single server.
\* A message to a user logged in on the same im_server is delivered, whatever
\* happens to the route_server, unless one of the two connections ends.
LocalDelivery ==
  \A c, d \in Conns, n \in 1..MaxMsgs :
    LET m == Msg(c, UserOf[d], n) IN
    (/\ ServerOf[c] = ServerOf[d]
     /\ userMap[ServerOf[d]][UserOf[d]] = d
     /\ m \in {c2s[c][i] : i \in 1..Len(c2s[c])})
      ~> m \in {inbox[d][i] : i \in 1..Len(inbox[d])} \/ Gone(c) \/ Gone(d)

\* A login an im_server reported is recorded by the route_server in the end,
\* unless that session or the route connection ends, or a message to user 0 was
\* given to that connection before it was confirmed, after which nothing is sent
\* on it (imconn.cpp:393).
LoginReachesRoute ==
  \A c \in Conns : LET s == ServerOf[c] IN
    c \in announced
      ~> \/ routeMap[UserOf[c]] = s
         \/ Gone(c) \/ link[s] = "FREED" \/ rlink[s] = "FREED"
         \/ link[s] = "STUCK"
=============================================================================
