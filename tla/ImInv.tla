-------------------------------- MODULE ImInv -------------------------------
(***************************************************************************)
(* The inductive invariant behind the safety properties of ImSystem.       *)
(*                                                                         *)
(* None of those properties is inductive: a route entry is right because   *)
(* of what is still in the channel behind it.  The invariant therefore     *)
(* speaks of every report in the channel from an im_server to the          *)
(* route_server, not only of the next one.                                 *)
(***************************************************************************)
EXTENDS ImSystem

At(ch) == 1..Len(ch)

\* A client logs in as the user its connection was created with.
OwnLogin ==
  \A c \in Conns : \A i \in At(c2s[c]) :
    c2s[c][i].type = "online" => c2s[c][i].user = UserOf[c]

\* g_route_conn is the route connection from its confirm to its close, and
\* main() is the first to touch it.
RouteConnOpen ==
  \A s \in Servers : /\ gRouteConn[s] <=> Confirmed(link[s])
                     /\ up[s] = "off" => link[s] = "IDLE"

\* An entry of g_user_map: the route connection under 0, or a session that is
\* logged in, under its user.
EntryOfLive ==
  \A s \in Servers, u \in UserIds :
    LET e == userMap[s][u] IN
    /\ e = Route => u = NoUser /\ link[s] \notin {"IDLE", "FREED"}
    /\ e \in Conns => /\ imConn[e] = "OPEN"
                      /\ ServerOf[e] = s
                      /\ mUserId[e] = u
                      /\ UserOf[e] = u

MapInv == TypeOK /\ OwnLogin /\ RouteConnOpen /\ EntryOfLive

-----------------------------------------------------------------------------

(* About the channel from im_server s to the route_server.                 *)

\* Before the confirm no report was sent and no entry made.
NoReportYet(s) ==
  link[s] \in {"IDLE", "CONNECTING"} =>
    /\ link[s] = "IDLE" => s2r[s] = <<>>
    /\ \A i \in At(s2r[s]) : s2r[s][i].type # "online"
    /\ \A u \in UserIds : routeMap[u] # s

\* Nobody logs in as user 0.
NoZeroLogin(s) ==
  /\ routeMap[NoUser] # s
  /\ \A i \in At(s2r[s]) : s2r[s][i] # Online(NoUser)

\* What RouteEntryBacked says of s.
EntryBacked(s) ==
  \A u \in UserIds : gRouteConn[s] /\ routeMap[u] = s =>
    \/ userMap[s][u] # Nil
    \/ \E i \in At(s2r[s]) : s2r[s][i] = Offline(u)

\* A login under way is of a user s has, or is followed by its logout.
ReportBacked(s) ==
  \A u \in UserIds : \A i \in At(s2r[s]) :
    gRouteConn[s] /\ s2r[s][i] = Online(u) =>
      \/ userMap[s][u] # Nil
      \/ \E j \in At(s2r[s]) : i < j /\ s2r[s][j] = Offline(u)

\* A message under way is to a user s does not have: every login ahead of it
\* is followed, still ahead of it, by the logout...
MsgAfterOffline(s) ==
  \A u \in Users : \A i, j \in At(s2r[s]) :
    s2r[s][i].type = "msg" /\ s2r[s][i].to = u /\ j < i /\ s2r[s][j] = Online(u)
      => \E k \in At(s2r[s]) : j < k /\ k < i /\ s2r[s][k] = Offline(u)

\* ... and so is the entry the route_server has.
MsgUnrouted(s) ==
  \A u \in Users : \A i \in At(s2r[s]) :
    s2r[s][i].type = "msg" /\ s2r[s][i].to = u /\ routeMap[u] = s
      => \E k \in At(s2r[s]) : k < i /\ s2r[s][k] = Offline(u)

LinkInv(s) ==
  /\ NoReportYet(s) /\ NoZeroLogin(s)
  /\ EntryBacked(s) /\ ReportBacked(s)
  /\ MsgAfterOffline(s) /\ MsgUnrouted(s)

RouteInv ==
  /\ MapInv
  /\ NoDanglingRoute
  /\ \A s \in Servers : LinkInv(s)

-----------------------------------------------------------------------------
(* About a session of a user who has no other.                             *)

OneSession == \A c, d \in Conns : UserOf[c] = UserOf[d] => c = d

Has(ch, p) == \E i \in 1..Len(ch) : ch[i] = p

\* The session logs in, if at all, as its user, and is then in g_user_map.
SessionKept(c) ==
  /\ mUserId[c] \in {NoUser, UserOf[c]}
  /\ imConn[c] = "OPEN" => userMap[ServerOf[c]][UserOf[c]] = c

\* Its login is in no table or channel it was not reported to, and no logout
\* is under way before it ends.
ReportsOwn(c) ==
  \A t \in Servers :
    /\ c \notin announced \/ t # ServerOf[c] =>
         routeMap[UserOf[c]] # t /\ ~Has(s2r[t], Online(UserOf[c]))
    /\ imConn[c] # "FREED" => ~Has(s2r[t], Offline(UserOf[c]))

\* A login that was reported is recorded or under way until the session, or one
\* end of the route connection, is gone.
ReportKept(c) ==
  LET s == ServerOf[c] IN
  c \in announced =>
    /\ link[s] \notin {"IDLE", "CONNECTING"}
    /\ imConn[c] # "FREED" /\ gRouteConn[s] /\ rlink[s] # "FREED" =>
         routeMap[UserOf[c]] = s \/ Has(s2r[s], Online(UserOf[c]))

SessionInv ==
  /\ MapInv
  /\ \A c \in Conns : SessionKept(c) /\ ReportsOwn(c) /\ ReportKept(c)

-----------------------------------------------------------------------------
(* About the order of messages.  A message is in one place at a time, and  *)
(* moves from place to place along one of two ways:                        *)
(*   c2s ------------------> s2c --> inbox     both on one im_server       *)
(*   c2s --> s2r --> r2s --> s2c --> inbox     by the route_server         *)

Places == ({"c2s", "s2c", "inbox"} \X Conns) \union ({"s2r", "r2s"} \X Servers)

Content(pl) ==
  CASE pl[1] = "c2s" -> c2s[pl[2]]
    [] pl[1] = "s2c" -> s2c[pl[2]]
    [] pl[1] = "s2r" -> s2r[pl[2]]
    [] pl[1] = "r2s" -> r2s[pl[2]]
    [] OTHER -> inbox[pl[2]]

\* Where a message goes on from place x, at once or in the end.  A session gets
\* nothing by the route_server from its own im_server (NoEcho).
Onward(x, y) ==
  \/ x[1] = "c2s" /\ y[1] # "c2s"
  \/ x[1] = "s2r" /\ y[1] = "r2s"
  \/ x[1] = "s2r" /\ y[1] \in {"s2c", "inbox"} /\ ServerOf[y[2]] # x[2]
  \/ x[1] = "r2s" /\ y[1] \in {"s2c", "inbox"} /\ ServerOf[y[2]] = x[2]
  \/ x[1] = "s2c" /\ y = <<"inbox", x[2]>>

\* Of one sender, the messages of A were sent before those of B.
Before(A, B) == \A m \in A, n \in B : m.from = n.from => m.id < n.id

Ordered(ch) ==
  \A i, j \in At(ch) :
    i < j /\ ch[i].type = "msg" /\ ch[j].type = "msg" /\ ch[i].from = ch[j].from
      => ch[i].id < ch[j].id

\* A message in place pl is on its way from its sender to its addressee.
OnItsWay(pl, m) ==
  /\ m.id < nextId
  /\ pl[1] = "c2s" => m.from = pl[2]
  /\ pl[1] = "s2r" => ServerOf[m.from] = pl[2]
  /\ pl[1] = "r2s" => ServerOf[m.from] # pl[2] /\ m.to # NoUser
  /\ pl[1] = "s2c" => m.to = UserOf[pl[2]]

OrderInv ==
  \A x \in Places :
    /\ Ordered(Content(x))
    /\ \A m \in MsgsIn(Content(x)) : OnItsWay(x, m)
    /\ \A y \in Places :
         /\ x # y => MsgsIn(Content(x)) \intersect MsgsIn(Content(y)) = {}
         /\ Onward(x, y) => Before(MsgsIn(Content(y)), MsgsIn(Content(x)))

\* The invariant of the whole system.
SystemInv == RouteInv /\ OrderInv
=============================================================================
