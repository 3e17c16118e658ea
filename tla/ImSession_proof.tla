-------------------------- MODULE ImSession_proof --------------------------
(***************************************************************************)
(* Theorems about a user with one session at a time: what both maps say of *)
(* it as long as it lasts.                                                 *)
(***************************************************************************)
EXTENDS ImSystem_proof

-----------------------------------------------------------------------------
(* What is in a channel after a step.                                      *)

LEMMA HasAppend ==
  ASSUME NEW ch \in Seq(Packets), NEW p \in Packets, NEW q
  PROVE  Has(Append(ch, p), q) <=> Has(ch, q) \/ q = p
<1> DEFINE n == Len(ch)
           new == Append(ch, p)
<1>1. /\ n \in Nat /\ Len(new) = n + 1 /\ new[n + 1] = p
      /\ \A i \in 1..n : new[i] = ch[i]
  BY AppendShape
<1> HIDE DEF n, new
<1>2. 1..(n + 1) = 1..n \union {n + 1}
  BY <1>1
<1>3. Has(ch, q) <=> \E i \in 1..n : ch[i] = q
  BY DEF Has, n
<1>4. Has(new, q) <=> \E i \in 1..(n + 1) : new[i] = q
  BY <1>1 DEF Has
<1>5. Has(new, q) <=> Has(ch, q) \/ q = p
  BY <1>1, <1>2, <1>3, <1>4
<1> QED
  BY <1>5 DEF new

LEMMA HasHangup ==
  ASSUME NEW ch \in Seq(Packets), NEW n \in Nat, NEW q, q # Eof, Has(Hangup(ch, n), q)
  PROVE  Has(ch, q)
<1> DEFINE new == Hangup(ch, n)
           k == Len(new)
<1>1. /\ k \in 1..(Len(ch) + 1) /\ new[k] = Eof
      /\ \A i \in 1..(k - 1) : new[i] = ch[i]
  BY HangupShape
<1>2. Len(ch) \in Nat
  OBVIOUS
<1>3. PICK i \in 1..k : new[i] = q
  BY DEF Has
<1> HIDE DEF new, k
<1>4. i # k
  BY <1>1, <1>3
<1>5. i \in 1..(k - 1) /\ i \in 1..Len(ch)
  BY <1>1, <1>2, <1>3, <1>4
<1> QED
  BY <1>1, <1>3, <1>5 DEF Has

\* Reading takes the first PDU and maybe the end of the stream.
LEMMA HasDrained ==
  ASSUME NEW ch \in Seq(Packets), ch # <<>>, NEW rest \in Drained(ch), NEW q
  PROVE  /\ Has(rest, q) => Has(ch, q)
         /\ Has(ch, q) /\ q # Eof /\ q # Head(ch) => Has(rest, q)
         /\ Has(ch, Head(ch)) /\ Head(ch) \in Packets
<1>1. /\ Head(ch) = ch[1] /\ Head(ch) \in Packets /\ Len(rest) < Len(ch)
      /\ \A i \in 1..Len(rest) : rest[i] = ch[i + 1]
      /\ \A i \in 2..Len(ch) : ch[i] # Eof => i - 1 \in 1..Len(rest)
      /\ rest \in Seq(Packets)
  BY DrainedShape
<1>2. Len(rest) \in Nat /\ Len(ch) \in Nat
  BY <1>1
<1>3. Has(rest, q) => Has(ch, q)
  <2> SUFFICES ASSUME NEW i \in 1..Len(rest), rest[i] = q
               PROVE  Has(ch, q)
    BY DEF Has
  <2>1. i + 1 \in 1..Len(ch) /\ ch[i + 1] = q
    BY <1>1, <1>2
  <2> QED
    BY <2>1 DEF Has
<1>4. Has(ch, q) /\ q # Eof /\ q # Head(ch) => Has(rest, q)
  <2> SUFFICES ASSUME NEW i \in 1..Len(ch), ch[i] = q, q # Eof, q # Head(ch)
               PROVE  Has(rest, q)
    BY DEF Has
  <2>1. i \in 2..Len(ch) /\ i - 1 \in 1..Len(rest)
    BY <1>1, <1>2
  <2>2. rest[i - 1] = q
    BY <1>1, <1>2, <2>1
  <2> QED
    BY <2>1, <2>2 DEF Has
<1>5. Has(ch, Head(ch))
  BY <1>1, <1>2 DEF Has
<1> QED
  BY <1>1, <1>3, <1>4, <1>5

LEMMA HasNothing == \A q : ~Has(<<>>, q)
BY DEF Has

-----------------------------------------------------------------------------
(* What a step does to the reports, to the maps and to the connections.    *)

\* The channel of im_server t: a report or a message more, everything or all
\* but a prefix gone with one of its ends, or the first PDU read.
ReportStep(t) ==
  \/ s2r'[t] = s2r[t]
  \/ \E d \in Conns : /\ t = ServerOf[d] /\ d \in announced'
                      /\ s2r'[t] = Append(s2r[t], Online(UserOf[d]))
  \/ \E d \in Conns : /\ imConn'[d] = "FREED"
                      /\ s2r'[t] = Append(s2r[t], Offline(mUserId[d]))
  \/ \E p \in Messages : s2r'[t] = Append(s2r[t], p)
  \/ /\ ~gRouteConn'[t] \/ rlink'[t] = "FREED"
     /\ s2r'[t] = <<>> \/ \E n \in Nat : s2r'[t] = Hangup(s2r[t], n)
  \/ /\ s2r[t] # <<>> /\ s2r'[t] \in Drained(s2r[t])
     /\ \A v \in UserIds : Head(s2r[t]) = Online(v) => routeMap' = InsertIfAbsent(routeMap, v, t)

\* The route table: a report that is first in its channel, or the end of a
\* route connection.
TableStep ==
  \/ routeMap' = routeMap
  \/ \E t \in Servers, v \in UserIds :
       /\ s2r[t] # <<>> /\ Head(s2r[t]) = Online(v)
       /\ routeMap' = InsertIfAbsent(routeMap, v, t)
  \/ \E t \in Servers, v \in UserIds :
       /\ s2r[t] # <<>> /\ Head(s2r[t]) = Offline(v)
       /\ routeMap' = [routeMap EXCEPT ![v] = Nil]
  \/ \E t \in Servers : rlink'[t] = "FREED" /\ routeMap' = WithoutServer(t)
  \/ /\ routeMap' = [u \in UserIds |-> Nil]
     /\ \A t \in Servers : gRouteConn'[t] => rlink'[t] = "FREED"

\* Closed is for good, and so is reported; a route connection is open from its
\* confirm.
EndsStep ==
  /\ \A c \in Conns : imConn[c] = "FREED" => imConn'[c] = "FREED"
  /\ \A c \in announced : c \in announced'
  /\ \A c \in announced' : c \notin announced =>
       /\ gRouteConn[ServerOf[c]]
       /\ s2r'[ServerOf[c]] = Append(s2r[ServerOf[c]], Online(UserOf[c]))
  /\ \A t \in Servers :
       /\ gRouteConn'[t] => gRouteConn[t] \/ link[t] = "CONNECTING"
       /\ rlink[t] = "FREED" => rlink'[t] = "FREED"
       /\ link[t] \notin {"IDLE", "CONNECTING"} => link'[t] \notin {"IDLE", "CONNECTING"}

\* The login an im_server reads is of the connection's user.
LEMMA LoginOfOwner ==
  ASSUME MapInv, NEW c \in Conns, c2s[c] # <<>>, HandleOnlineRequest(c, Head(c2s[c]))
  PROVE  Head(c2s[c]).user = UserOf[c]
<1>1. c2s[c] \in Seq(Packets)
  BY DEF MapInv, TypeOK, NetTypeOK
<1>2. Head(c2s[c]) = c2s[c][1] /\ 1 \in 1..Len(c2s[c])
  BY <1>1
<1>3. c2s[c][1].type = "online"
  BY <1>2 DEF HandleOnlineRequest
<1> QED
  BY <1>2, <1>3 DEF MapInv, OwnLogin, At

LEMMA ReportStepIm ==
  ASSUME MapInv, ImNext, UNCHANGED <<routeMap, clientVars>>, NEW t \in Servers
  PROVE  ReportStep(t)
<1> USE DEF ReportStep
<1>0. /\ s2r \in [Servers -> Seq(Packets)] /\ c2s \in [Conns -> Seq(Packets)]
      /\ r2s \in [Servers -> Seq(Packets)]
      /\ gRouteConn \in [Servers -> BOOLEAN]
      /\ imConn \in [Conns -> ConnStates]
  BY DEF MapInv, TypeOK, NetTypeOK, ImTypeOK
<1>m. ASSUME NEW s \in Servers, NEW p \in Packets, MsgEffect(s, p) PROVE ReportStep(t)
  BY <1>0, <1>m DEF MsgEffect
<1>1. ASSUME NEW s \in Servers, ImStart(s) \/ LinkConfirm(s) PROVE ReportStep(t)
  BY <1>1 DEF ImStart, LinkConfirm, channels
<1>2. ASSUME NEW s \in Servers, LinkClose(s) PROVE ReportStep(t)
  BY <1>0, <1>2 DEF LinkClose
<1>3. ASSUME NEW s \in Servers, LinkRead(s) PROVE ReportStep(t)
  <2>1. Head(r2s[s]) \in Packets
    BY <1>0, <1>3, DrainedShape DEF LinkRead
  <2>2. HandleMsg(s, Head(r2s[s]), TRUE)
    BY <1>3 DEF LinkRead
  <2>3. MsgEffect(s, Head(r2s[s]))
    BY <2>1, <2>2, HandleMsgEffect, Zenon
  <2> QED
    BY <2>1, <2>3, <1>m, Zenon
<1>4. ASSUME NEW s \in Servers, NEW keep, NEW n \in 0..Len(s2r[s]), ImCrash(s, keep, n)
      PROVE  ReportStep(t)
  <2>1. CASE t # s
    BY <1>0, <1>4, <2>1 DEF ImCrash
  <2>2. CASE t = s
    <3>1. n \in Nat /\ 0 \in Nat
      BY <1>0
    <3>2. ~gRouteConn'[t]
      BY <1>0, <1>4, <2>2 DEF ImCrash
    <3>3. \/ s2r'[t] = s2r[t]
          \/ s2r'[t] = <<>>
          \/ \E m \in {0, n} : s2r'[t] = Hangup(s2r[t], m)
      BY <1>0, <1>4, <2>2 DEF ImCrash
    <3> QED
      BY <3>1, <3>2, <3>3, Zenon
  <2> QED
    BY <2>1, <2>2
<1>5. ASSUME NEW c \in Conns, ImAccept(c) PROVE ReportStep(t)
  BY <1>5 DEF ImAccept, channels
<1>6. ASSUME NEW c \in Conns, ImRead(c) PROVE ReportStep(t)
  <2>0. Head(c2s[c]) \in Packets /\ ServerOf[c] \in Servers /\ c2s[c] # <<>>
    BY <1>0, <1>6, DrainedShape, NetAssumption DEF ImRead
  <2>1. CASE HandleOnlineRequest(c, Head(c2s[c]))
    <3>1. /\ Report(ServerOf[c], Online(UserOf[c]))
          /\ announced' = IF gRouteConn[ServerOf[c]] THEN announced \union {c} ELSE announced
      BY <2>0, <2>1, LoginOfOwner DEF HandleOnlineRequest
    <3> QED
      BY <1>0, <2>0, <3>1 DEF Report
  <2>2. CASE HandleMsg(ServerOf[c], Head(c2s[c]), FALSE)
    <3>1. MsgEffect(ServerOf[c], Head(c2s[c]))
      BY <2>0, <2>2, HandleMsgEffect, Zenon
    <3> QED
      BY <2>0, <3>1, <1>m, Zenon
  <2> QED
    BY <1>6, <2>1, <2>2 DEF ImRead
<1>7. ASSUME NEW c \in Conns, ImOnClose(c) PROVE ReportStep(t)
  <2>1. Report(ServerOf[c], Offline(mUserId[c])) /\ imConn'[c] = "FREED"
    BY <1>0, <1>7 DEF ImOnClose
  <2> QED
    BY <1>0, <2>1 DEF Report
<1> QED
  BY <1>1, <1>2, <1>3, <1>4, <1>5, <1>6, <1>7 DEF ImNext

LEMMA ReportStepRoute ==
  ASSUME MapInv, RouteNext, UNCHANGED <<imVars, clientVars>>
  PROVE  TableStep /\ \A t \in Servers : ReportStep(t)
<1>0. /\ s2r \in [Servers -> Seq(Packets)]
      /\ rlink \in [Servers -> ConnStates]
      /\ \A s \in Servers : gRouteConn[s] <=> Confirmed(link[s])
  BY DEF MapInv, TypeOK, NetTypeOK, RouteConnOpen
<1> USE DEF TableStep, ReportStep
<1>1. ASSUME NEW s \in Servers, RouteAccept(s)
      PROVE  TableStep /\ \A t \in Servers : ReportStep(t)
  BY <1>1 DEF RouteAccept, channels
<1>2. CASE RouteStart
  BY <1>2 DEF RouteStart, channels
<1>3. ASSUME NEW s \in Servers, RouteRead(s)
      PROVE  TableStep /\ \A t \in Servers : ReportStep(t)
  <2> DEFINE p == Head(s2r[s])
  <2>1. PICK rest \in Drained(s2r[s]) : s2r' = [s2r EXCEPT ![s] = rest]
    BY <1>3 DEF RouteRead
  <2>2. p \in Packets /\ s2r[s] # <<>>
    BY <1>0, <1>3, DrainedShape DEF RouteRead
  <2>3. \/ \E v \in UserIds : p = Online(v) /\ routeMap' = InsertIfAbsent(routeMap, v, s)
        \/ \E v \in UserIds : p = Offline(v) /\ routeMap' = [routeMap EXCEPT ![v] = Nil]
        \/ p.type = "msg" /\ routeMap' = routeMap
    <3>1. CASE RouteHandleOnline(s, p)
      BY <2>2, <3>1, PacketShape DEF RouteHandleOnline
    <3>2. CASE RouteHandleOffline(p)
      BY <2>2, <3>2, PacketShape DEF RouteHandleOffline
    <3>3. CASE RouteHandleMsg(p)
      BY <3>3 DEF RouteHandleMsg
    <3> QED
      BY <1>3, <3>1, <3>2, <3>3 DEF RouteRead
  <2>4. \A v \in UserIds : p = Online(v) => routeMap' = InsertIfAbsent(routeMap, v, s)
    <3>1. \A v : Online(v).type = "online"
      BY PacketKinds
    <3>2. \A v, w : Online(v) = Online(w) => v = w
      BY PacketKinds
    <3>3. \A v, w : Online(v) # Offline(w)
      BY PacketKinds
    <3> HIDE DEF p
    <3> QED
      BY <2>3, <3>1, <3>2, <3>3
  <2>5. TableStep
    BY <2>2, <2>3
  <2>6. ASSUME NEW t \in Servers PROVE ReportStep(t)
    BY <1>0, <2>1, <2>2, <2>4
  <2> QED
    BY <2>5, <2>6
<1>4. ASSUME NEW s \in Servers, RouteClose(s)
      PROVE  TableStep /\ \A t \in Servers : ReportStep(t)
  BY <1>0, <1>4 DEF RouteClose
<1>5. ASSUME NEW keep, RouteCrash(keep)
      PROVE  TableStep /\ \A t \in Servers : ReportStep(t)
  <2>1. \A t \in Servers : \/ s2r'[t] = s2r[t]
                           \/ s2r'[t] = <<>> /\ rlink'[t] = "FREED"
    BY <1>5 DEF RouteCrash
  <2>2. \A t \in Servers : Confirmed(link[t]) => rlink'[t] = "FREED"
    BY <1>5 DEF RouteCrash
  <2>3. \A t \in Servers : gRouteConn'[t] => rlink'[t] = "FREED"
    BY <1>0, <2>2 DEF imVars
  <2>4. routeMap' = [u \in UserIds |-> Nil]
    BY <1>5 DEF RouteCrash
  <2> QED
    BY <2>1, <2>3, <2>4, Zenon
<1> QED
  BY <1>1, <1>2, <1>3, <1>4, <1>5 DEF RouteNext

LEMMA ReportStepNext ==
  ASSUME MapInv, [Next]_vars
  PROVE  TableStep /\ \A t \in Servers : ReportStep(t)
<1>1. CASE UNCHANGED <<s2r, routeMap>>
  BY <1>1 DEF TableStep, ReportStep
<1>2. CASE ClientNext /\ UNCHANGED <<imVars, routeMap>>
  BY <1>1, <1>2 DEF ClientNext, CliConnect, CliConfirm, CliTimer, CliRead, CliClose,
                    CliKill, channels
<1>3. CASE ImNext /\ UNCHANGED <<routeMap, clientVars>>
  BY <1>3, ReportStepIm DEF TableStep
<1>4. CASE RouteNext /\ UNCHANGED <<imVars, clientVars>>
  BY <1>4, ReportStepRoute
<1> QED
  BY <1>1, <1>2, <1>3, <1>4 DEF Next, vars, channels

LEMMA EndsStepNext ==
  ASSUME MapInv, [Next]_vars
  PROVE  EndsStep
<1> USE DEF EndsStep
<1>0. /\ s2r \in [Servers -> Seq(Packets)] /\ c2s \in [Conns -> Seq(Packets)]
      /\ imConn \in [Conns -> ConnStates]
      /\ link \in [Servers -> ConnStates] /\ rlink \in [Servers -> ConnStates]
      /\ gRouteConn \in [Servers -> BOOLEAN]
  BY DEF MapInv, TypeOK, NetTypeOK, ImTypeOK
<1>1. CASE UNCHANGED <<imConn, link, rlink, imVars>>
  BY <1>1 DEF imVars
<1>2. CASE ClientNext /\ UNCHANGED <<imVars, routeMap>>
  BY <1>1, <1>2 DEF ClientNext, CliConnect, CliConfirm, CliTimer, CliRead, CliClose,
                    CliKill, endpoints
<1>3. CASE RouteNext /\ UNCHANGED <<imVars, clientVars>>
  <2>1. /\ imConn' = imConn /\ link' = link /\ imVars' = imVars
        /\ \A t \in Servers : rlink[t] = "FREED" => rlink'[t] = "FREED"
    BY <1>0, <1>3 DEF RouteNext, RouteAccept, RouteRead, RouteClose, RouteStart, RouteCrash,
                      endpoints
  <2> QED
    BY <2>1 DEF imVars
<1>4. CASE ImNext
  <2>1. ASSUME NEW s \in Servers, ImStart(s) PROVE EndsStep
    <3>1. link[s] = "IDLE"
      BY <2>1 DEF ImStart, MapInv, RouteConnOpen
    <3> QED
      BY <1>0, <2>1, <3>1 DEF ImStart
  <2>2. ASSUME NEW s \in Servers, LinkConfirm(s) PROVE EndsStep
    BY <1>0, <2>2 DEF LinkConfirm
  <2>3. ASSUME NEW s \in Servers, LinkClose(s) PROVE EndsStep
    BY <1>0, <2>3 DEF LinkClose
  <2>4. ASSUME NEW s \in Servers, LinkRead(s) PROVE EndsStep
    BY <1>1, <2>4 DEF LinkRead, endpoints
  <2>5. ASSUME NEW s \in Servers, NEW keep, NEW n, ImCrash(s, keep, n) PROVE EndsStep
    BY <1>0, <2>5 DEF ImCrash
  <2>6. ASSUME NEW c \in Conns, ImAccept(c) PROVE EndsStep
    BY <1>0, <2>6 DEF ImAccept, imVars
  <2>7. ASSUME NEW c \in Conns, ImRead(c) PROVE EndsStep
    <3>0. c2s[c] # <<>> /\ imConn[c] # "FREED" /\ link' = link /\ rlink' = rlink
      BY <2>7 DEF ImRead, Live
    <3>1. CASE HandleOnlineRequest(c, Head(c2s[c]))
      <4>1. /\ Report(ServerOf[c], Online(UserOf[c])) /\ gRouteConn' = gRouteConn
            /\ announced' = IF gRouteConn[ServerOf[c]] THEN announced \union {c} ELSE announced
            /\ imConn' = [imConn EXCEPT ![c] = "OPEN"]
        BY <3>0, <3>1, LoginOfOwner DEF HandleOnlineRequest
      <4>2. ServerOf[c] \in Servers
        BY NetAssumption
      <4> QED
        BY <1>0, <3>0, <4>1, <4>2 DEF Report
    <3>2. CASE UNCHANGED <<imConn, imVars>>
      BY <1>1, <3>0, <3>2
    <3> QED
      BY <2>7, <3>1, <3>2 DEF ImRead
  <2>8. ASSUME NEW c \in Conns, ImOnClose(c) PROVE EndsStep
    BY <1>0, <2>8 DEF ImOnClose
  <2> QED
    BY <1>4, <2>1, <2>2, <2>3, <2>4, <2>5, <2>6, <2>7, <2>8 DEF ImNext
<1> QED
  BY <1>1, <1>2, <1>3, <1>4 DEF Next, vars, endpoints

-----------------------------------------------------------------------------
(* The invariant.                                                          *)

LEMMA SessionInit == Init => SessionInv
<1> SUFFICES ASSUME Init PROVE SessionInv
  OBVIOUS
<1>1. ASSUME NEW c \in Conns PROVE SessionKept(c)
  BY <1>1 DEF SessionKept, Init, NetInit, ImInit
<1>2. ASSUME NEW c \in Conns PROVE ReportsOwn(c)
  <2>1. UserOf[c] \in UserIds /\ Nil \notin Servers
    BY NetAssumption DEF UserIds
  <2> QED
    BY <2>1, HasNothing DEF ReportsOwn, Init, NetInit, RouteInit
<1>3. ASSUME NEW c \in Conns PROVE ReportKept(c)
  BY <1>3 DEF ReportKept, Init, ImInit
<1> QED
  BY MapInit, <1>1, <1>2, <1>3 DEF SessionInv

\* A session stays in g_user_map: only its own close, or the end of the process,
\* takes its key out.
LEMMA SessionKeptNext ==
  ASSUME OneSession, SessionInv, [Next]_vars, NEW c \in Conns
  PROVE  SessionKept(c)'
<1> DEFINE s == ServerOf[c]
           u == UserOf[c]
<1>0. /\ s \in Servers /\ u \in Users /\ u \in UserIds /\ NoUser \in UserIds /\ u # NoUser
      /\ Route \notin Conns /\ Nil \notin Conns
      /\ SessionKept(c) /\ MapInv /\ c2s \in [Conns -> Seq(Packets)]
      /\ imConn \in [Conns -> ConnStates] /\ mUserId \in [Conns -> UserIds]
      /\ userMap \in [Servers -> [UserIds -> Conns \union {Route, Nil}]]
  <2>1. /\ s \in Servers /\ u \in Users /\ u \in UserIds /\ NoUser \in UserIds /\ u # NoUser
        /\ Route \notin Conns /\ Nil \notin Conns
    BY NetAssumption DEF UserIds
  <2>2. SessionKept(c) /\ MapInv
    BY DEF SessionInv
  <2>3. /\ c2s \in [Conns -> Seq(Packets)]
        /\ imConn \in [Conns -> ConnStates] /\ mUserId \in [Conns -> UserIds]
        /\ userMap \in [Servers -> [UserIds -> Conns \union {Route, Nil}]]
    BY <2>2 DEF MapInv, TypeOK, NetTypeOK, ImTypeOK
  <2> QED
    BY <2>1, <2>2, <2>3
<1> HIDE DEF s, u
<1>k. /\ mUserId[c] \in {NoUser, u}
      /\ imConn[c] = "OPEN" => userMap[s][u] = c
  BY <1>0 DEF SessionKept, s, u
<1>q. ASSUME mUserId'[c] \in {NoUser, u},
             imConn'[c] = "OPEN" => userMap'[s][u] = c
      PROVE  SessionKept(c)'
  BY <1>q DEF SessionKept, s, u
<1>1. CASE UNCHANGED <<imConn, mUserId, userMap>>
  BY <1>1, <1>k, <1>q
<1>2. ASSUME NEW t \in Servers, ImStart(t) PROVE SessionKept(c)'
  BY <1>0, <1>2, <1>k, <1>q DEF ImStart, Registered, InsertIfAbsent
<1>3. ASSUME NEW t \in Servers, LinkClose(t) PROVE SessionKept(c)'
  BY <1>0, <1>3, <1>k, <1>q DEF LinkClose, Erased
<1>4. ASSUME NEW t \in Servers, NEW keep, NEW n, ImCrash(t, keep, n) PROVE SessionKept(c)'
  <2>1. imConn'[c] = "OPEN" => imConn[c] = "OPEN" /\ s # t
    BY <1>0, <1>4 DEF ImCrash, Live, s
  <2>2. s # t => userMap'[s] = userMap[s]
    BY <1>0, <1>4 DEF ImCrash
  <2>3. mUserId' = mUserId
    BY <1>4 DEF ImCrash
  <2> QED
    BY <1>k, <1>q, <2>1, <2>2, <2>3
<1>5. ASSUME NEW d \in Conns, ImAccept(d) PROVE SessionKept(c)'
  BY <1>0, <1>5, <1>k, <1>q DEF ImAccept, imVars
<1>6. ASSUME NEW d \in Conns, ImRead(d) PROVE SessionKept(c)'
  <2>1. CASE HandleOnlineRequest(d, Head(c2s[d]))
    <3>1. /\ mUserId' = [mUserId EXCEPT ![d] = UserOf[d]]
          /\ imConn' = [imConn EXCEPT ![d] = "OPEN"]
          /\ userMap' = Registered(ServerOf[d], UserOf[d], d)
      BY <1>0, <1>6, <2>1, LoginOfOwner DEF HandleOnlineRequest, ImRead
    <3>2. CASE d = c
      <4>1. userMap[s][u] \in {Nil, c}
        <5>1. userMap[s][u] # Route
          BY <1>0 DEF MapInv, EntryOfLive
        <5>2. userMap[s][u] \in Conns => UserOf[userMap[s][u]] = u
          BY <1>0 DEF MapInv, EntryOfLive
        <5> QED
          BY <1>0, <5>1, <5>2 DEF OneSession, u
      <4>2. /\ userMap' = [userMap EXCEPT ![s] = InsertIfAbsent(@, u, c)]
            /\ mUserId'[c] = u
        BY <1>0, <3>1, <3>2 DEF Registered, s, u
      <4>3. userMap'[s][u] = c
        BY <1>0, <4>1, <4>2 DEF InsertIfAbsent
      <4> QED
        BY <1>q, <4>2, <4>3
    <3>3. CASE d # c
      <4>1. mUserId'[c] = mUserId[c] /\ imConn'[c] = imConn[c]
        BY <1>0, <3>1, <3>3
      <4>2. userMap[s][u] = c => userMap'[s][u] = c
        BY <1>0, <3>1, NetAssumption DEF Registered, InsertIfAbsent
      <4> QED
        BY <1>k, <1>q, <4>1, <4>2
    <3> QED
      BY <3>2, <3>3
  <2> QED
    BY <1>1, <1>6, <2>1 DEF ImRead, imVars
<1>7. ASSUME NEW d \in Conns, ImOnClose(d) PROVE SessionKept(c)'
  <2>1. /\ userMap' = Erased(ServerOf[d], mUserId[d]) /\ mUserId' = mUserId
        /\ imConn' = [imConn EXCEPT ![d] = "FREED"]
    BY <1>7 DEF ImOnClose
  <2>2. CASE d = c
    BY <1>0, <1>k, <1>q, <2>1, <2>2
  <2>3. CASE d # c
    <3>1. mUserId[d] # u /\ mUserId[d] \in UserIds
      <4>1. mUserId[d] \in {NoUser, UserOf[d]}
        BY DEF SessionInv, SessionKept
      <4> QED
        BY <1>0, <2>3, <4>1 DEF OneSession, u
    <3>2. userMap'[s][u] = userMap[s][u]
      BY <1>0, <2>1, <3>1, NetAssumption DEF Erased
    <3>3. imConn'[c] = imConn[c]
      BY <1>0, <2>1, <2>3
    <3> QED
      BY <1>k, <1>q, <2>1, <3>2, <3>3
  <2> QED
    BY <2>2, <2>3
<1>8. CASE ImNext
  BY <1>1, <1>2, <1>3, <1>4, <1>5, <1>6, <1>7, <1>8
     DEF ImNext, LinkConfirm, LinkRead, endpoints, imVars
<1>9. CASE RouteNext /\ UNCHANGED <<imVars, clientVars>>
  BY <1>1, <1>9 DEF RouteNext, RouteAccept, RouteRead, RouteClose, RouteStart, RouteCrash,
                    endpoints, imVars
<1>10. CASE ClientNext /\ UNCHANGED <<imVars, routeMap>>
  BY <1>1, <1>10 DEF ClientNext, CliConnect, CliConfirm, CliTimer, CliRead, CliClose,
                     CliKill, endpoints, imVars
<1> QED
  BY <1>1, <1>8, <1>9, <1>10 DEF Next, vars, endpoints, imVars

\* Nobody else reports the user of a session.
LEMMA ReportsOwnNext ==
  ASSUME OneSession, SessionInv, [Next]_vars, NEW c \in Conns
  PROVE  ReportsOwn(c)'
<1> DEFINE u == UserOf[c]
<1> SUFFICES ASSUME NEW t \in Servers
             PROVE  /\ c \notin announced' \/ t # ServerOf[c] =>
                         routeMap'[u] # t /\ ~Has(s2r'[t], Online(u))
                    /\ imConn'[c] # "FREED" => ~Has(s2r'[t], Offline(u))
  BY DEF ReportsOwn
<1>0. /\ s2r[t] \in Seq(Packets) /\ routeMap \in [UserIds -> Servers \union {Nil}]
      /\ Nil \notin Servers
      /\ u \in UserIds /\ u # NoUser
      /\ ReportStep(t) /\ TableStep /\ EndsStep
      /\ ReportsOwn(c)
  <2>1. MapInv /\ ReportsOwn(c)
    BY DEF SessionInv
  <2>2. s2r[t] \in Seq(Packets) /\ routeMap \in [UserIds -> Servers \union {Nil}]
    BY <2>1 DEF MapInv, TypeOK, NetTypeOK, RouteTypeOK
  <2> QED
    BY <2>1, <2>2, ReportStepNext, EndsStepNext, NetAssumption DEF UserIds
<1>1. /\ c \in announced => c \in announced'
      /\ imConn[c] = "FREED" => imConn'[c] = "FREED"
  BY <1>0 DEF EndsStep
<1>2. /\ \A v, w : Online(v) = Online(w) => v = w
      /\ \A v, w : Offline(v) = Offline(w) => v = w
      /\ \A v, w : Online(v) # Offline(w)
      /\ \A v : Online(v) # Eof /\ Online(v) \notin Messages
      /\ \A v : Offline(v) # Eof /\ Offline(v) \notin Messages
      /\ \A v \in UserIds : Online(v) \in Packets /\ Offline(v) \in Packets
      /\ Messages \subseteq Packets
  <2>1. \A p \in Messages : p.type = "msg"
    BY DEF Messages, Msg
  <2> QED
    BY <2>1, PacketKinds
<1>k. ASSUME NEW x \in Servers
      PROVE  /\ c \notin announced \/ x # ServerOf[c] =>
                  routeMap[u] # x /\ ~Has(s2r[x], Online(u))
             /\ imConn[c] # "FREED" => ~Has(s2r[x], Offline(u))
  BY <1>0 DEF ReportsOwn
<1> HIDE DEF u
\* The channel gets no report of u but of c itself.
<1>3. /\ Has(s2r'[t], Online(u)) => Has(s2r[t], Online(u)) \/ (t = ServerOf[c] /\ c \in announced')
      /\ Has(s2r'[t], Offline(u)) => Has(s2r[t], Offline(u)) \/ imConn'[c] = "FREED"
  <2> DEFINE Goal ==
        /\ Has(s2r'[t], Online(u)) => Has(s2r[t], Online(u)) \/ (t = ServerOf[c] /\ c \in announced')
        /\ Has(s2r'[t], Offline(u)) => Has(s2r[t], Offline(u)) \/ imConn'[c] = "FREED"
  <2>1. CASE s2r'[t] = s2r[t]
    BY <2>1
  <2>2. ASSUME NEW d \in Conns, t = ServerOf[d], d \in announced',
               s2r'[t] = Append(s2r[t], Online(UserOf[d]))
        PROVE  Goal
    <3>1. \A q : Has(s2r'[t], q) <=> Has(s2r[t], q) \/ q = Online(UserOf[d])
      <4>1. Online(UserOf[d]) \in Packets
        BY <1>2, NetAssumption DEF UserIds
      <4> QED
        BY <1>0, <2>2, <4>1, HasAppend
    <3>2. Online(u) = Online(UserOf[d]) => d = c
      BY <1>2 DEF OneSession, u
    <3> QED
      BY <1>2, <2>2, <3>1, <3>2
  <2>3. ASSUME NEW d \in Conns, imConn'[d] = "FREED",
               s2r'[t] = Append(s2r[t], Offline(mUserId[d]))
        PROVE  Goal
    <3>0. mUserId[d] \in {NoUser, UserOf[d]} /\ mUserId[d] \in UserIds
      BY NetAssumption DEF SessionInv, SessionKept, UserIds
    <3>1. \A q : Has(s2r'[t], q) <=> Has(s2r[t], q) \/ q = Offline(mUserId[d])
      BY <1>0, <1>2, <2>3, <3>0, HasAppend
    <3>2. Offline(u) = Offline(mUserId[d]) => d = c
      BY <1>0, <1>2, <3>0 DEF OneSession, u
    <3> QED
      BY <1>2, <2>3, <3>1, <3>2
  <2>4. ASSUME NEW p \in Messages, s2r'[t] = Append(s2r[t], p)
        PROVE  Goal
    <3>1. \A q : Has(s2r'[t], q) <=> Has(s2r[t], q) \/ q = p
      BY <1>0, <1>2, <2>4, HasAppend
    <3> QED
      BY <1>2, <2>4, <3>1
  <2>5. CASE s2r'[t] = <<>>
    BY <2>5, HasNothing
  <2>6. ASSUME NEW n \in Nat, s2r'[t] = Hangup(s2r[t], n)
        PROVE  Goal
    BY <1>0, <1>2, <2>6, HasHangup
  <2>7. CASE s2r[t] # <<>> /\ s2r'[t] \in Drained(s2r[t])
    BY <1>0, <2>7, HasDrained
  <2> QED
    BY <1>0, <2>1, <2>2, <2>3, <2>4, <2>5, <2>6, <2>7 DEF ReportStep
\* The table takes a report of u out of a channel only.
<1>4. routeMap'[u] = t => routeMap[u] = t \/ Has(s2r[t], Online(u))
  <2>1. ASSUME NEW x \in Servers, NEW v \in UserIds, s2r[x] # <<>>, Head(s2r[x]) = Online(v),
               routeMap' = InsertIfAbsent(routeMap, v, x)
        PROVE  routeMap'[u] = t => routeMap[u] = t \/ Has(s2r[t], Online(u))
    <3>1. Has(s2r[x], Online(v))
      <4>1. s2r[x] \in Seq(Packets)
        BY DEF SessionInv, MapInv, TypeOK, NetTypeOK
      <4>2. Tail(s2r[x]) \in Drained(s2r[x])
        BY DEF Drained
      <4> QED
        BY <2>1, <4>1, <4>2, HasDrained
    <3>2. routeMap'[u] # routeMap[u] => v = u /\ routeMap'[u] = x
      BY <1>0, <2>1 DEF InsertIfAbsent
    <3> QED
      BY <3>1, <3>2
  <2>2. ASSUME NEW v \in UserIds, routeMap' = [routeMap EXCEPT ![v] = Nil]
        PROVE  routeMap'[u] = t => routeMap[u] = t
    BY <1>0, <2>2
  <2>3. ASSUME NEW x \in Servers, routeMap' = WithoutServer(x)
        PROVE  routeMap'[u] = t => routeMap[u] = t
    BY <1>0, <2>3 DEF WithoutServer
  <2>4. CASE routeMap' = [v \in UserIds |-> Nil]
    BY <1>0, <2>4
  <2> QED
    BY <1>0, <2>1, <2>2, <2>3, <2>4 DEF TableStep
<1> QED
  BY <1>1, <1>3, <1>4, <1>k

\* The report of a session is in the channel until it is in the table, and there
\* until the session ends.
LEMMA ReportKeptNext ==
  ASSUME OneSession, SessionInv, [Next]_vars, NEW c \in Conns
  PROVE  ReportKept(c)'
<1> DEFINE u == UserOf[c]
           s == ServerOf[c]
<1>0. /\ s2r[s] \in Seq(Packets) /\ routeMap \in [UserIds -> Servers \union {Nil}]
      /\ Nil \notin Servers /\ s \in Servers
      /\ u \in UserIds /\ u # NoUser
      /\ ReportStep(s) /\ TableStep /\ EndsStep
      /\ ReportsOwn(c) /\ ReportKept(c)
      /\ gRouteConn[s] <=> Confirmed(link[s])
  <2>1. MapInv /\ ReportsOwn(c) /\ ReportKept(c) /\ s \in Servers /\ u \in UserIds
        /\ u # NoUser /\ Nil \notin Servers
    BY NetAssumption DEF SessionInv, UserIds
  <2>2. s2r[s] \in Seq(Packets) /\ routeMap \in [UserIds -> Servers \union {Nil}]
    BY <2>1 DEF MapInv, TypeOK, NetTypeOK, RouteTypeOK
  <2>3. gRouteConn[s] <=> Confirmed(link[s])
    BY <2>1 DEF MapInv, RouteConnOpen
  <2> QED
    BY <2>1, <2>2, <2>3, ReportStepNext, EndsStepNext
<1>1. /\ imConn[c] = "FREED" => imConn'[c] = "FREED"
      /\ c \in announced' /\ c \notin announced =>
           gRouteConn[s] /\ s2r'[s] = Append(s2r[s], Online(u))
      /\ gRouteConn'[s] => gRouteConn[s] \/ link[s] = "CONNECTING"
      /\ rlink[s] = "FREED" => rlink'[s] = "FREED"
      /\ link[s] \notin {"IDLE", "CONNECTING"} => link'[s] \notin {"IDLE", "CONNECTING"}
  BY <1>0 DEF EndsStep
<1>2. /\ \A v, w : Online(v) = Online(w) => v = w
      /\ \A v, w : Offline(v) = Offline(w) => v = w
      /\ \A v : Online(v) # Eof
      /\ \A v \in UserIds : Online(v) \in Packets /\ Offline(v) \in Packets
      /\ Messages \subseteq Packets
  BY PacketKinds
<1>k. /\ \A x \in Servers : /\ x # s => routeMap[u] # x /\ ~Has(s2r[x], Online(u))
                            /\ imConn[c] # "FREED" => ~Has(s2r[x], Offline(u))
      /\ c \in announced =>
           /\ link[s] \notin {"IDLE", "CONNECTING"}
           /\ imConn[c] # "FREED" /\ gRouteConn[s] /\ rlink[s] # "FREED" =>
                routeMap[u] = s \/ Has(s2r[s], Online(u))
  BY <1>0 DEF ReportsOwn, ReportKept
<1> HIDE DEF s, u
<1>h. ASSUME NEW x \in Servers, s2r[x] # <<>>
      PROVE  Has(s2r[x], Head(s2r[x]))
  <2>1. s2r[x] \in Seq(Packets)
    BY DEF SessionInv, MapInv, TypeOK, NetTypeOK
  <2>2. Tail(s2r[x]) \in Drained(s2r[x])
    BY DEF Drained
  <2> QED
    BY <1>h, <2>1, <2>2, HasDrained
<1>3. c \in announced' => link'[s] \notin {"IDLE", "CONNECTING"}
  BY <1>0, <1>1, <1>k DEF Confirmed
<1>4. ASSUME c \in announced', imConn'[c] # "FREED", gRouteConn'[s], rlink'[s] # "FREED"
      PROVE  routeMap'[u] = s \/ Has(s2r'[s], Online(u))
  <2>1. imConn[c] # "FREED" /\ rlink[s] # "FREED"
    BY <1>1, <1>4
  <2>2. CASE c \notin announced
    BY <1>0, <1>1, <1>2, <1>4, <2>2, HasAppend
  <2>3. CASE c \in announced
    <3>1. gRouteConn[s] /\ (routeMap[u] = s \/ Has(s2r[s], Online(u)))
      BY <1>1, <1>4, <1>k, <2>1, <2>3
    <3>2. routeMap[u] \in {Nil, s}
      BY <1>0, <1>k
    \* What the table has of u stays.
    <3>3. CASE routeMap[u] = s
      <4>1. ASSUME NEW x \in Servers, NEW v \in UserIds,
                   routeMap' = InsertIfAbsent(routeMap, v, x)
            PROVE  routeMap'[u] = s
        BY <1>0, <3>3, <4>1 DEF InsertIfAbsent
      <4>2. ASSUME NEW x \in Servers, NEW v \in UserIds, s2r[x] # <<>>,
                   Head(s2r[x]) = Offline(v), routeMap' = [routeMap EXCEPT ![v] = Nil]
            PROVE  routeMap'[u] = s
        <5>1. v # u
          BY <1>h, <1>k, <2>1, <4>2
        <5> QED
          BY <1>0, <3>3, <4>2, <5>1
      <4>3. ASSUME NEW x \in Servers, rlink'[x] = "FREED", routeMap' = WithoutServer(x)
            PROVE  routeMap'[u] = s
        BY <1>0, <1>4, <3>3, <4>3 DEF WithoutServer
      <4> QED
        BY <1>0, <1>4, <3>3, <4>1, <4>2, <4>3 DEF TableStep
    \* Otherwise the report stays, or is what the route_server reads.
    <3>4. CASE routeMap[u] = Nil /\ Has(s2r[s], Online(u))
      <4>1. CASE s2r'[s] = s2r[s]
        BY <3>4, <4>1
      <4>2. ASSUME NEW p \in Packets, s2r'[s] = Append(s2r[s], p)
            PROVE  Has(s2r'[s], Online(u))
        BY <1>0, <3>4, <4>2, HasAppend
      <4>3. ASSUME s2r[s] # <<>>, s2r'[s] \in Drained(s2r[s]),
                   \A v \in UserIds : Head(s2r[s]) = Online(v)
                                        => routeMap' = InsertIfAbsent(routeMap, v, s)
            PROVE  routeMap'[u] = s \/ Has(s2r'[s], Online(u))
        <5>1. CASE Head(s2r[s]) = Online(u)
          BY <1>0, <3>4, <4>3, <5>1 DEF InsertIfAbsent
        <5>2. CASE Head(s2r[s]) # Online(u)
          BY <1>0, <1>2, <3>4, <4>3, <5>2, HasDrained
        <5> QED
          BY <5>1, <5>2
      <4>4. /\ \A d \in Conns : Online(UserOf[d]) \in Packets /\ Offline(mUserId[d]) \in Packets
            /\ \A p \in Messages : p \in Packets
        <5>1. \A d \in Conns : UserOf[d] \in UserIds /\ mUserId[d] \in UserIds
          BY NetAssumption DEF SessionInv, MapInv, TypeOK, ImTypeOK, UserIds
        <5> QED
          BY <1>2, <5>1
      <4> QED
        BY <1>0, <1>4, <4>1, <4>2, <4>3, <4>4 DEF ReportStep
    <3> QED
      BY <3>1, <3>2, <3>3, <3>4
  <2> QED
    BY <2>2, <2>3
<1> QED
  BY <1>3, <1>4 DEF ReportKept, s, u

LEMMA SessionInvNext ==
  ASSUME OneSession, SessionInv, [Next]_vars
  PROVE  SessionInv'
<1>1. MapInv'
  BY MapNext DEF SessionInv
<1>2. \A c \in Conns : SessionKept(c)' /\ ReportsOwn(c)' /\ ReportKept(c)'
  BY SessionKeptNext, ReportsOwnNext, ReportKeptNext
<1> QED
  BY <1>1, <1>2 DEF SessionInv

THEOREM SessionInvariant == ASSUME OneSession PROVE Spec => []SessionInv
<1>1. SessionInv /\ [Next]_vars => SessionInv'
  BY SessionInvNext
<1> QED
  BY <1>1, SessionInit, PTL DEF Spec

-----------------------------------------------------------------------------

\* A user's session is found by its im_server from its login to its end, although
\* every close erases by key.
THEOREM SessionRegisteredHolds ==
  ASSUME OneSession PROVE Spec => []SessionRegistered
<1>1. SessionInv => SessionRegistered
  BY DEF SessionInv, SessionKept, SessionRegistered
<1> QED
  BY <1>1, SessionInvariant, PTL

\* A login that was reported is not forgotten: whatever other users, im_servers
\* and connections do, the table has it, or will when its channel is read.
THEOREM AnnouncedIsRoutedHolds ==
  ASSUME OneSession PROVE Spec => []AnnouncedIsRouted
<1>1. SessionInv => AnnouncedIsRouted
  <2> SUFFICES ASSUME SessionInv, NEW c \in announced, imConn[c] = "OPEN",
                      gRouteConn[ServerOf[c]], rlink[ServerOf[c]] # "FREED"
               PROVE  \/ routeMap[UserOf[c]] = ServerOf[c]
                      \/ Has(s2r[ServerOf[c]], Online(UserOf[c]))
    BY DEF AnnouncedIsRouted, Has
  <2>1. c \in Conns
    BY DEF SessionInv, MapInv, TypeOK, ImTypeOK
  <2> QED
    BY <2>1 DEF SessionInv, ReportKept
<1> QED
  BY <1>1, SessionInvariant, PTL

\* imconn.cpp:360: a login without a route connection is never reported later.
THEOREM UnreportedUnroutedHolds ==
  ASSUME OneSession PROVE Spec => []UnreportedUnrouted
<1>1. SessionInv => UnreportedUnrouted
  <2> SUFFICES ASSUME SessionInv, NEW c \in Conns, c \notin announced
               PROVE  /\ routeMap[UserOf[c]] # ServerOf[c]
                      /\ ~Has(s2r[ServerOf[c]], Online(UserOf[c]))
    BY DEF UnreportedUnrouted, Has
  <2>1. ReportsOwn(c) /\ ServerOf[c] \in Servers
    BY NetAssumption DEF SessionInv
  <2> QED
    BY <2>1 DEF ReportsOwn
<1> QED
  BY <1>1, SessionInvariant, PTL
=============================================================================
