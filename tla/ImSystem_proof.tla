--------------------------- MODULE ImSystem_proof ---------------------------
(***************************************************************************)
(* Theorems about ImSystem, for any number of users, im_servers and client *)
(* connections, and any number of messages.                                *)
(***************************************************************************)
EXTENDS ImInv, SequenceTheorems, TLAPS

-----------------------------------------------------------------------------
(* PDUs and channels.                                                      *)

LEMMA PacketShape ==
  ASSUME NEW p \in Packets
  PROVE  /\ p.type = "online" => p.user \in UserIds /\ p = Online(p.user)
         /\ p.type = "offline" => p.user \in UserIds /\ p = Offline(p.user)
         /\ p.type = "msg" => p \in Messages /\ p.to \in UserIds
BY DEF Packets, Presence, Messages, Online, Offline, Msg, Eof

LEMMA PacketKinds ==
  /\ Eof \in Packets
  /\ \A u \in UserIds : Online(u) \in Packets /\ Offline(u) \in Packets
  /\ \A u, v : Online(u) # Offline(v)
  /\ \A u : Online(u).type = "online" /\ Online(u).user = u
  /\ \A u : Offline(u).type = "offline" /\ Offline(u).user = u
  /\ Eof.type = "eof"
  /\ Messages \subseteq Packets
BY DEF Packets, Presence, Online, Offline, Eof

\* The messages clients create.
LEMMA MsgShape ==
  ASSUME NEW c \in Conns, NEW u \in UserIds, NEW n \in 1..MaxMsgs
  PROVE  /\ Msg(c, u, n) \in Messages
         /\ Msg(c, u, n).type = "msg"
BY DEF Messages, Msg

LEMMA HangupShape ==
  ASSUME NEW ch \in Seq(Packets), NEW n \in Nat
  PROVE  /\ Hangup(ch, n) \in Seq(Packets)
         /\ Len(Hangup(ch, n)) \in 1..(Len(ch) + 1)
         /\ Hangup(ch, n)[Len(Hangup(ch, n))] = Eof
         /\ \A i \in 1..(Len(Hangup(ch, n)) - 1) : Hangup(ch, n)[i] = ch[i]
<1> DEFINE m == IF n < Len(ch) THEN n ELSE Len(ch)
<1>1. m \in 0..Len(ch)
  OBVIOUS
<1>2. /\ SubSeq(ch, 1, m) \in Seq(Packets)
      /\ Len(SubSeq(ch, 1, m)) = m
      /\ \A i \in 1..m : SubSeq(ch, 1, m)[i] = ch[i]
  BY <1>1
<1> HIDE DEF m
<1>3. Hangup(ch, n) = Append(SubSeq(ch, 1, m), Eof)
  BY DEF Hangup, m
<1> QED
  BY <1>1, <1>2, <1>3, PacketKinds

LEMMA DrainedShape ==
  ASSUME NEW ch \in Seq(Packets), ch # <<>>, NEW rest \in Drained(ch)
  PROVE  /\ rest \in Seq(Packets)
         /\ Head(ch) = ch[1]
         /\ Head(ch) \in Packets
         /\ Len(rest) < Len(ch)
         /\ \A i \in 1..Len(rest) : rest[i] = ch[i + 1]
         /\ \A i \in 2..Len(ch) : ch[i] # Eof => i - 1 \in 1..Len(rest)
<1> DEFINE t == Tail(ch)
           e == <<Eof>>
<1>0. /\ Len(ch) \in Nat \ {0}
      /\ Len(t) + 1 = Len(ch)
  OBVIOUS
<1>1. /\ t \in Seq(Packets)
      /\ \A i \in 1..Len(t) : t[i] = ch[i + 1]
      /\ Head(ch) = ch[1]
      /\ ch[1] \in Packets
  OBVIOUS
<1>2. Len(e) = 1 /\ e[1] = Eof
  OBVIOUS
<1>3. rest = t \/ (t = e /\ rest = <<>>)
  BY DEF Drained
<1> HIDE DEF t, e
<1>4. CASE rest = t
  BY <1>0, <1>1, <1>4
<1>5. CASE t = e /\ rest = <<>>
  <2>0. Len(t) = 1 /\ t[1] = Eof
    BY <1>2, <1>5, Zenon
  <2>1. Len(ch) = 2
    BY <1>0, <2>0
  <2>2. ch[2] = Eof
    BY <1>1, <2>0, <2>1
  <2>3. Len(rest) = 0 /\ rest \in Seq(Packets)
    BY <1>5
  <2> QED
    BY <1>1, <2>1, <2>2, <2>3
<1> QED
  BY <1>3, <1>4, <1>5

-----------------------------------------------------------------------------
(* Type correctness.                                                       *)

LEMMA TypeInit == Init => TypeOK
<1> SUFFICES ASSUME Init PROVE TypeOK
  OBVIOUS
<1>1. NetTypeOK
  BY DEF Init, NetInit, NetTypeOK, ConnStates
<1>2. ImTypeOK
  BY DEF Init, ImInit, ImTypeOK, UserIds
<1>3. RouteTypeOK
  BY DEF Init, RouteInit, RouteTypeOK
<1>4. ClientTypeOK
  BY NetAssumption DEF Init, ClientInit, ClientTypeOK
<1> QED
  BY <1>1, <1>2, <1>3, <1>4 DEF TypeOK

\* What handling a message does: nothing, or one PDU more in one channel.
MsgEffect(s, p) ==
  /\ p \in Messages /\ p.type = "msg" /\ p.to \in UserIds
  /\ \/ s2c' = s2c /\ s2r' = s2r
     \/ \E d \in Conns : /\ userMap[s][p.to] = d
                         /\ s2c' = [s2c EXCEPT ![d] = Append(s2c[d], p)]
                         /\ s2r' = s2r
     \/ /\ userMap[s][p.to] = Route \/ (userMap[s][p.to] = Nil /\ gRouteConn[s])
        /\ s2c' = s2c
        /\ s2r' = [s2r EXCEPT ![s] = Append(s2r[s], p)]

LEMMA HandleMsgEffect ==
  ASSUME NEW s \in Servers, NEW p \in Packets,
         HandleMsg(s, p, TRUE) \/ HandleMsg(s, p, FALSE)
  PROVE  MsgEffect(s, p)
<1> USE DEF MsgEffect
<1>1. p \in Messages /\ p.type = "msg" /\ p.to \in UserIds
  BY PacketShape DEF HandleMsg
<1> DEFINE dst == userMap[s][p.to]
<1>2. CASE dst \in Conns /\ s2c' = [s2c EXCEPT ![dst] = Append(@, p)] /\ UNCHANGED s2r
  BY <1>1, <1>2
<1>3. CASE dst = Route /\ s2r' = [s2r EXCEPT ![s] = Append(@, p)] /\ UNCHANGED s2c
  BY <1>1, <1>3
<1>4. CASE dst = Nil /\ UNCHANGED s2r /\ UNCHANGED s2c
  BY <1>1, <1>4
<1>5. CASE dst = Nil /\ Report(s, p) /\ UNCHANGED s2c
  BY <1>1, <1>5 DEF Report
<1> QED
  BY <1>2, <1>3, <1>4, <1>5 DEF HandleMsg

LEMMA MsgEffectType ==
  ASSUME s2c \in [Conns -> Seq(Packets)], s2r \in [Servers -> Seq(Packets)],
         NEW s \in Servers, NEW p \in Packets, MsgEffect(s, p)
  PROVE  s2c' \in [Conns -> Seq(Packets)] /\ s2r' \in [Servers -> Seq(Packets)]
<1>1. CASE s2c' = s2c /\ s2r' = s2r
  BY <1>1
<1>2. ASSUME NEW d \in Conns, s2c' = [s2c EXCEPT ![d] = Append(s2c[d], p)], s2r' = s2r
      PROVE  s2c' \in [Conns -> Seq(Packets)] /\ s2r' \in [Servers -> Seq(Packets)]
  BY <1>2
<1>3. CASE s2c' = s2c /\ s2r' = [s2r EXCEPT ![s] = Append(s2r[s], p)]
  BY <1>3
<1> QED
  BY <1>1, <1>2, <1>3 DEF MsgEffect

\* An im_server's step.
LEMMA TypeIm ==
  ASSUME TypeOK, ImNext, UNCHANGED <<routeMap, clientVars>>
  PROVE  TypeOK'
<1> USE NetAssumption
    DEF TypeOK, NetTypeOK, ImTypeOK, RouteTypeOK, ClientTypeOK, ConnStates, processes,
        channels, endpoints, imVars, clientVars
<1>1. ASSUME NEW s \in Servers, ImStart(s) PROVE TypeOK'
  BY <1>1 DEF ImStart, Registered, InsertIfAbsent, UserIds
<1>2. ASSUME NEW s \in Servers, LinkConfirm(s) PROVE TypeOK'
  BY <1>2 DEF LinkConfirm
<1>3. ASSUME NEW s \in Servers, LinkClose(s) PROVE TypeOK'
  <2>1. /\ s2r' \in [Servers -> Seq(Packets)]
        /\ r2s' \in [Servers -> Seq(Packets)]
        /\ link' \in [Servers -> ConnStates]
    BY <1>3 DEF LinkClose
  <2>2. userMap' \in [Servers -> [UserIds -> Conns \union {Route, Nil}]]
    BY <1>3 DEF LinkClose, Erased
  <2> QED
    BY <1>3, <2>1, <2>2 DEF LinkClose
<1>4. ASSUME NEW s \in Servers, LinkRead(s) PROVE TypeOK'
  <2> DEFINE p == Head(r2s[s])
  <2>1. PICK rest \in Drained(r2s[s]) : r2s' = [r2s EXCEPT ![s] = rest]
    BY <1>4 DEF LinkRead
  <2>2. p \in Packets /\ rest \in Seq(Packets)
    BY <1>4, <2>1, DrainedShape DEF LinkRead
  <2>3. s2c' \in [Conns -> Seq(Packets)] /\ s2r' \in [Servers -> Seq(Packets)]
    <3>1. MsgEffect(s, p)
      <4>1. HandleMsg(s, p, TRUE)
        BY <1>4 DEF LinkRead
      <4> QED
        BY <2>2, <4>1, HandleMsgEffect, Zenon
    <3> QED
      BY <2>2, <3>1, MsgEffectType
  <2> QED
    BY <1>4, <2>1, <2>2, <2>3 DEF LinkRead
<1>5. ASSUME NEW s \in Servers, NEW keep \in [Conns -> 0..MaxMsgs],
             NEW n \in 0..Len(s2r[s]), ImCrash(s, keep, n)
      PROVE  TypeOK'
  <2>1. s2r' \in [Servers -> Seq(Packets)]
    <3>1. \A k \in {0, n} : Hangup(s2r[s], k) \in Seq(Packets)
      BY HangupShape
    <3> QED
      BY <1>5, <3>1 DEF ImCrash
  <2>2. s2c' \in [Conns -> Seq(Packets)]
    <3>1. \A c \in Conns : Hangup(s2c[c], keep[c]) \in Seq(Packets)
      BY HangupShape
    <3> QED
      BY <1>5, <3>1 DEF ImCrash
  <2> QED
    BY <1>5, <2>1, <2>2 DEF ImCrash
<1>6. ASSUME NEW c \in Conns, ImAccept(c) PROVE TypeOK'
  BY <1>6 DEF ImAccept
<1>7. ASSUME NEW c \in Conns, ImRead(c) PROVE TypeOK'
  <2> DEFINE p == Head(c2s[c])
             s == ServerOf[c]
  <2>1. PICK rest \in Drained(c2s[c]) : c2s' = [c2s EXCEPT ![c] = rest]
    BY <1>7 DEF ImRead
  <2>2. p \in Packets /\ rest \in Seq(Packets)
    BY <1>7, <2>1, DrainedShape DEF ImRead
  <2>3. CASE HandleOnlineRequest(c, p)
    <3>1. p.user \in UserIds /\ Online(p.user) \in Packets
      BY <2>2, <2>3, PacketShape, PacketKinds DEF HandleOnlineRequest
    <3>2. s2r' \in [Servers -> Seq(Packets)]
      BY <2>3, <3>1 DEF HandleOnlineRequest, Report
    <3>3. userMap' \in [Servers -> [UserIds -> Conns \union {Route, Nil}]]
      BY <2>3, <3>1 DEF HandleOnlineRequest, Registered, InsertIfAbsent
    <3> QED
      BY <1>7, <2>1, <2>2, <2>3, <3>1, <3>2, <3>3 DEF ImRead, HandleOnlineRequest
  <2>4. CASE HandleMsg(s, p, FALSE) /\ UNCHANGED <<imConn, imVars>>
    <3>1. s2c' \in [Conns -> Seq(Packets)] /\ s2r' \in [Servers -> Seq(Packets)]
      <4>1. s \in Servers
        OBVIOUS
      <4>2. MsgEffect(s, p)
        BY <2>2, <2>4, <4>1, HandleMsgEffect, Zenon
      <4> QED
        BY <2>2, <4>1, <4>2, MsgEffectType
    <3> QED
      BY <1>7, <2>1, <2>2, <2>4, <3>1 DEF ImRead
  <2> QED
    BY <1>7, <2>3, <2>4 DEF ImRead
<1>8. ASSUME NEW c \in Conns, ImOnClose(c) PROVE TypeOK'
  <2>1. Offline(mUserId[c]) \in Packets
    BY PacketKinds
  <2> QED
    BY <1>8, <2>1 DEF ImOnClose, Report, Erased
<1> QED
  BY <1>1, <1>2, <1>3, <1>4, <1>5, <1>6, <1>7, <1>8 DEF ImNext

\* A step of the route_server.
LEMMA TypeRoute ==
  ASSUME TypeOK, RouteNext, UNCHANGED <<imVars, clientVars>>
  PROVE  TypeOK'
<1> USE NetAssumption
    DEF TypeOK, NetTypeOK, ImTypeOK, RouteTypeOK, ClientTypeOK, ConnStates, processes,
        channels, endpoints, imVars, clientVars
<1>1. ASSUME NEW s \in Servers, RouteAccept(s) PROVE TypeOK'
  BY <1>1 DEF RouteAccept
<1>2. ASSUME NEW s \in Servers, RouteRead(s) PROVE TypeOK'
  <2> DEFINE p == Head(s2r[s])
  <2>1. PICK rest \in Drained(s2r[s]) : s2r' = [s2r EXCEPT ![s] = rest]
    BY <1>2 DEF RouteRead
  <2>2. p \in Packets /\ rest \in Seq(Packets)
    BY <1>2, <2>1, DrainedShape DEF RouteRead
  <2>3. CASE RouteHandleOnline(s, p)
    <3>1. p.user \in UserIds
      BY <2>2, <2>3, PacketShape DEF RouteHandleOnline
    <3>2. routeMap' \in [UserIds -> Servers \union {Nil}] /\ UNCHANGED r2s
      BY <2>3, <3>1 DEF RouteHandleOnline, InsertIfAbsent
    <3> QED
      BY <1>2, <2>1, <2>2, <3>2 DEF RouteRead
  <2>4. CASE RouteHandleOffline(p)
    BY <1>2, <2>1, <2>2, <2>4 DEF RouteRead, RouteHandleOffline
  <2>5. CASE RouteHandleMsg(p)
    <3>1. r2s' \in [Servers -> Seq(Packets)] /\ UNCHANGED routeMap
      <4>1. routeMap[p.to] \in Servers \union {Nil}
        BY <2>2, <2>5, PacketShape DEF RouteHandleMsg
      <4>2. CASE routeMap[p.to] = Nil
        BY <2>5, <4>2 DEF RouteHandleMsg
      <4>3. ASSUME NEW dst \in Servers, routeMap[p.to] = dst, dst # Nil
            PROVE  r2s' \in [Servers -> Seq(Packets)] /\ UNCHANGED routeMap
        <5>1. r2s' = [r2s EXCEPT ![dst] = Append(r2s[dst], p)] /\ UNCHANGED routeMap
          BY <2>5, <4>3 DEF RouteHandleMsg
        <5> HIDE DEF p
        <5> QED
          BY <2>2, <5>1
      <4> QED
        BY <4>1, <4>2, <4>3
    <3> QED
      BY <1>2, <2>1, <2>2, <3>1 DEF RouteRead
  <2> QED
    BY <1>2, <2>3, <2>4, <2>5 DEF RouteRead
<1>3. ASSUME NEW s \in Servers, RouteClose(s) PROVE TypeOK'
  BY <1>3 DEF RouteClose, WithoutServer
<1>4. CASE RouteStart
  BY <1>4 DEF RouteStart
<1>5. ASSUME NEW keep \in [Servers -> 0..MaxMsgs], RouteCrash(keep) PROVE TypeOK'
  <2>1. \A s \in Servers : Hangup(r2s[s], keep[s]) \in Seq(Packets)
    BY HangupShape
  <2>2. r2s' \in [Servers -> Seq(Packets)]
    BY <1>5, <2>1 DEF RouteCrash
  <2>3. s2r' \in [Servers -> Seq(Packets)] /\ rlink' \in [Servers -> ConnStates]
    BY <1>5 DEF RouteCrash
  <2> QED
    BY <1>5, <2>2, <2>3 DEF RouteCrash
<1> QED
  BY <1>1, <1>2, <1>3, <1>4, <1>5 DEF RouteNext

\* A client's step.
LEMMA TypeClient ==
  ASSUME TypeOK, ClientNext, UNCHANGED <<imVars, routeMap>>
  PROVE  TypeOK'
<1> USE NetAssumption
    DEF TypeOK, NetTypeOK, ImTypeOK, RouteTypeOK, ClientTypeOK, ConnStates, processes,
        channels, endpoints, imVars, clientVars
<1>1. ASSUME NEW c \in Conns, CliConnect(c) PROVE TypeOK'
  BY <1>1 DEF CliConnect
<1>2. ASSUME NEW c \in Conns, CliConfirm(c) PROVE TypeOK'
  <2>1. Online(UserOf[c]) \in Packets
    BY PacketKinds DEF UserIds
  <2> QED
    BY <1>2, <2>1 DEF CliConfirm
<1>3. ASSUME NEW c \in Conns, NEW to \in Targets, CliTimer(c, to) PROVE TypeOK'
  <2>1. nextId \in 1..MaxMsgs /\ nextId' \in 1..(MaxMsgs + 1)
    BY <1>3 DEF CliTimer
  <2>2. Msg(c, to, nextId) \in Packets
    BY <2>1, MsgShape, PacketKinds DEF UserIds
  <2> QED
    BY <1>3, <2>1, <2>2 DEF CliTimer
<1>4. ASSUME NEW c \in Conns, CliRead(c) PROVE TypeOK'
  <2>1. PICK rest \in Drained(s2c[c]) : s2c' = [s2c EXCEPT ![c] = rest]
    BY <1>4 DEF CliRead
  <2>2. Head(s2c[c]) \in Packets /\ rest \in Seq(Packets)
    BY <1>4, <2>1, DrainedShape DEF CliRead
  <2>3. Head(s2c[c]) \in Messages
    BY <1>4, <2>2, PacketShape DEF CliRead
  <2> QED
    BY <1>4, <2>1, <2>2, <2>3 DEF CliRead
<1>5. ASSUME NEW c \in Conns, CliClose(c) PROVE TypeOK'
  BY <1>5 DEF CliClose
<1>6. ASSUME NEW c \in Conns, NEW keep \in 0..Len(c2s[c]), CliKill(c, keep) PROVE TypeOK'
  <2>1. Hangup(c2s[c], keep) \in Seq(Packets)
    BY HangupShape
  <2> QED
    BY <1>6, <2>1 DEF CliKill
<1> QED
  BY <1>1, <1>2, <1>3, <1>4, <1>5, <1>6 DEF ClientNext

LEMMA TypeNext ==
  ASSUME TypeOK, [Next]_vars
  PROVE  TypeOK'
<1>1. CASE UNCHANGED vars
  BY <1>1 DEF vars, TypeOK, NetTypeOK, ImTypeOK, RouteTypeOK, ClientTypeOK, processes,
              channels, endpoints, imVars, clientVars
<1> QED
  BY <1>1, TypeIm, TypeRoute, TypeClient DEF Next

\* Every variable of the system keeps its type: no PDU of an unknown user or
\* to nobody enters a channel, a client reads nothing but messages, and the
\* maps only hold connections.
THEOREM TypeCorrect == Spec => []TypeOK
<1>1. TypeOK /\ [Next]_vars => TypeOK'
  BY TypeNext
<1> QED
  BY <1>1, TypeInit, PTL DEF Spec

-----------------------------------------------------------------------------
(* The maps of an im_server name no deleted object.                        *)

LEMMA MapInit == Init => MapInv
<1> SUFFICES ASSUME Init PROVE MapInv
  OBVIOUS
<1>1. OwnLogin
  BY DEF Init, NetInit, OwnLogin, At
<1>2. RouteConnOpen
  BY DEF Init, NetInit, ImInit, RouteConnOpen, Confirmed
<1>3. EntryOfLive
  BY NetAssumption DEF Init, ImInit, EntryOfLive
<1> QED
  BY TypeInit, <1>1, <1>2, <1>3 DEF MapInv

\* One channel changes, and its logins stay those of its client.
LEMMA OwnLoginStep ==
  ASSUME c2s \in [Conns -> Seq(Packets)], OwnLogin,
         NEW c \in Conns, NEW ch, c2s' = [c2s EXCEPT ![c] = ch],
         \A i \in 1..Len(ch) : ch[i].type = "online" => ch[i].user = UserOf[c]
  PROVE  OwnLogin'
<1> SUFFICES ASSUME NEW d \in Conns
             PROVE  \A i \in At(c2s'[d]) :
                      c2s'[d][i].type = "online" => c2s'[d][i].user = UserOf[d]
  BY DEF OwnLogin, At
<1>1. CASE d = c
  BY <1>1 DEF At
<1>2. CASE d # c
  <2>1. c2s'[d] = c2s[d]
    BY <1>2
  <2> QED
    BY <2>1 DEF OwnLogin, At
<1> QED
  BY <1>1, <1>2

LEMMA OwnLoginEmpty ==
  ASSUME c2s \in [Conns -> Seq(Packets)], OwnLogin,
         NEW c \in Conns, c2s' = [c2s EXCEPT ![c] = <<>>]
  PROVE  OwnLogin'
<1> DEFINE ch == <<>>
<1>1. \A i \in 1..Len(ch) : ch[i].type = "online" => ch[i].user = UserOf[c]
  OBVIOUS
<1>2. c2s' = [c2s EXCEPT ![c] = ch]
  OBVIOUS
<1> HIDE DEF ch
<1> QED
  BY <1>1, <1>2, OwnLoginStep

\* Clients put their own login and messages into a channel; every other step
\* only takes PDUs out of it.
LEMMA OwnLoginNext ==
  ASSUME TypeOK, OwnLogin, [Next]_vars
  PROVE  OwnLogin'
<1>0. c2s \in [Conns -> Seq(Packets)]
  BY DEF TypeOK, NetTypeOK
<1>1. CASE UNCHANGED c2s
  BY <1>1 DEF OwnLogin, At
<1>2. ASSUME NEW s \in Servers, NEW keep, NEW n, ImCrash(s, keep, n) PROVE OwnLogin'
  BY <1>0, <1>2 DEF ImCrash, OwnLogin, At
<1>3. ASSUME NEW c \in Conns, ImRead(c) PROVE OwnLogin'
  <2>1. PICK rest \in Drained(c2s[c]) : c2s' = [c2s EXCEPT ![c] = rest]
    BY <1>3 DEF ImRead
  <2>2. /\ Len(rest) < Len(c2s[c]) /\ Len(c2s[c]) \in Nat /\ Len(rest) \in Nat
        /\ \A i \in 1..Len(rest) : rest[i] = c2s[c][i + 1]
    BY <1>0, <1>3, <2>1, DrainedShape DEF ImRead
  <2>3. ASSUME NEW i \in 1..Len(rest), rest[i].type = "online"
        PROVE  rest[i].user = UserOf[c]
    <3>1. i + 1 \in 1..Len(c2s[c]) /\ rest[i] = c2s[c][i + 1]
      BY <2>2
    <3> QED
      BY <2>3, <3>1 DEF OwnLogin, At
  <2> QED
    BY <1>0, <2>1, <2>3, OwnLoginStep
<1>4. ASSUME NEW c \in Conns, ImOnClose(c) \/ CliClose(c) PROVE OwnLogin'
  <2>1. c2s' = [c2s EXCEPT ![c] = <<>>]
    BY <1>4 DEF ImOnClose, CliClose
  <2> QED
    BY <1>0, <2>1, OwnLoginEmpty
<1>5. ASSUME NEW c \in Conns, CliConfirm(c) PROVE OwnLogin'
  <2> DEFINE ch == Append(c2s[c], Online(UserOf[c]))
  <2>1. c2s' = [c2s EXCEPT ![c] = ch]
    BY <1>5 DEF CliConfirm
  <2>2. \A i \in 1..Len(ch) : ch[i].type = "online" => ch[i].user = UserOf[c]
    BY <1>0, PacketKinds DEF OwnLogin, At
  <2> QED
    BY <1>0, <2>1, <2>2, OwnLoginStep
<1>6. ASSUME NEW c \in Conns, NEW to \in Targets, CliTimer(c, to) PROVE OwnLogin'
  <2> DEFINE ch == Append(c2s[c], Msg(c, to, nextId))
  <2>1. c2s' = [c2s EXCEPT ![c] = ch]
    BY <1>6 DEF CliTimer
  <2>2. Msg(c, to, nextId).type # "online"
    BY DEF Msg
  <2>3. \A i \in 1..Len(ch) : ch[i].type = "online" => ch[i].user = UserOf[c]
    BY <1>0, <2>2 DEF OwnLogin, At
  <2> QED
    BY <1>0, <2>1, <2>3, OwnLoginStep
<1>7. ASSUME NEW c \in Conns, NEW keep \in 0..Len(c2s[c]), CliKill(c, keep) PROVE OwnLogin'
  <2>1. CASE c2s' = [c2s EXCEPT ![c] = <<>>]
    BY <1>0, <2>1, OwnLoginEmpty
  <2>2. CASE c2s' = [c2s EXCEPT ![c] = Hangup(c2s[c], keep)]
    <3> DEFINE h == Hangup(c2s[c], keep)
    <3>1. \A i \in 1..Len(h) : h[i] = Eof \/ (i \in 1..Len(c2s[c]) /\ h[i] = c2s[c][i])
      <4>1. /\ Len(h) \in 1..(Len(c2s[c]) + 1) /\ h[Len(h)] = Eof /\ Len(c2s[c]) \in Nat
            /\ \A i \in 1..(Len(h) - 1) : h[i] = c2s[c][i]
        <5>1. c2s[c] \in Seq(Packets) /\ keep \in Nat /\ Len(c2s[c]) \in Nat
          BY <1>0
        <5> QED
          BY <5>1, HangupShape, Zenon
      <4> HIDE DEF h
      <4> QED
        BY <4>1
    <3>2. c2s' = [c2s EXCEPT ![c] = h]
      BY <2>2
    <3> HIDE DEF h
    <3>3. \A i \in 1..Len(h) : h[i].type = "online" => h[i].user = UserOf[c]
      BY <3>1, PacketKinds DEF OwnLogin, At
    <3> QED
      BY <1>0, <3>2, <3>3, OwnLoginStep
  <2> QED
    BY <1>7, <2>1, <2>2 DEF CliKill
<1>8. CASE ImNext
  BY <1>1, <1>2, <1>3, <1>4, <1>8
     DEF ImNext, ImStart, LinkConfirm, LinkClose, LinkRead, ImAccept, channels
<1>9. CASE RouteNext
  BY <1>1, <1>9 DEF RouteNext, RouteAccept, RouteRead, RouteClose, RouteStart, RouteCrash, channels
<1>10. CASE ClientNext
  BY <1>1, <1>4, <1>5, <1>6, <1>7, <1>10 DEF ClientNext, CliConnect, CliRead, channels
<1> QED
  BY <1>1, <1>8, <1>9, <1>10 DEF Next, vars, channels

LEMMA RouteConnOpenNext ==
  ASSUME TypeOK, RouteConnOpen, [Next]_vars
  PROVE  RouteConnOpen'
<1> USE DEF RouteConnOpen, Confirmed
<1>0. link \in [Servers -> ConnStates] /\ gRouteConn \in [Servers -> BOOLEAN]
  BY DEF TypeOK, NetTypeOK, ImTypeOK
<1>00. up \in [Servers -> {"off", "up", "down"}]
  BY DEF TypeOK, NetTypeOK
<1>1. CASE UNCHANGED <<link, gRouteConn, up>>
  BY <1>1
<1>2. ASSUME NEW s \in Servers, ImStart(s) \/ LinkConfirm(s) \/ LinkClose(s)
      PROVE  RouteConnOpen'
  <2>1. CASE ImStart(s)
    BY <1>0, <1>00, <2>1 DEF ImStart
  <2>2. CASE LinkConfirm(s)
    BY <1>0, <1>00, <2>2 DEF LinkConfirm, processes
  <2>3. CASE LinkClose(s)
    BY <1>0, <1>00, <2>3 DEF LinkClose, processes
  <2> QED
    BY <1>2, <2>1, <2>2, <2>3
<1>3. ASSUME NEW s \in Servers, NEW keep, NEW n, ImCrash(s, keep, n)
      PROVE  RouteConnOpen'
  BY <1>0, <1>00, <1>3 DEF ImCrash
<1>4. ASSUME NEW s \in Servers, LinkRead(s) PROVE RouteConnOpen'
  BY <1>1, <1>4 DEF LinkRead, processes, endpoints, imVars
<1>5. ASSUME NEW c \in Conns, ImAccept(c) \/ ImRead(c) \/ ImOnClose(c)
      PROVE  RouteConnOpen'
  BY <1>1, <1>5 DEF ImAccept, ImRead, ImOnClose, HandleOnlineRequest, processes, imVars
<1>6. CASE ImNext
  BY <1>2, <1>3, <1>4, <1>5, <1>6 DEF ImNext
<1>7. CASE RouteNext /\ UNCHANGED <<imVars, clientVars>>
  BY <1>1, <1>7 DEF RouteNext, RouteAccept, RouteRead, RouteClose, RouteStart, RouteCrash,
                    processes, endpoints, imVars
<1>8. CASE ClientNext /\ UNCHANGED <<imVars, routeMap>>
  BY <1>1, <1>8 DEF ClientNext, CliConnect, CliConfirm, CliTimer, CliRead, CliClose, CliKill,
                    processes, endpoints, imVars
<1> QED
  BY <1>1, <1>6, <1>7, <1>8 DEF Next, vars, processes, endpoints, imVars

LEMMA EntryOfLiveNext ==
  ASSUME MapInv, [Next]_vars, OwnLogin'
  PROVE  EntryOfLive'
<1> USE NetAssumption DEF EntryOfLive
<1>0. /\ imConn \in [Conns -> ConnStates]
      /\ link \in [Servers -> ConnStates]
      /\ mUserId \in [Conns -> UserIds]
      /\ userMap \in [Servers -> [UserIds -> Conns \union {Route, Nil}]]
      /\ c2s \in [Conns -> Seq(Packets)]
  BY DEF MapInv, TypeOK, NetTypeOK, ImTypeOK
<1>1. CASE UNCHANGED <<imConn, link, mUserId, userMap>>
  BY <1>1 DEF MapInv
<1>2. ASSUME NEW s \in Servers, ImStart(s) PROVE EntryOfLive'
  <2>1. userMap' = [userMap EXCEPT ![s][NoUser] = IF @ = Nil THEN Route ELSE @]
    BY <1>0, <1>2 DEF ImStart, Registered, InsertIfAbsent, UserIds
  <2> QED
    BY <1>0, <1>2, <2>1 DEF ImStart, MapInv, UserIds
<1>3. ASSUME NEW s \in Servers, LinkConfirm(s) PROVE EntryOfLive'
  BY <1>0, <1>3 DEF LinkConfirm, MapInv
<1>4. ASSUME NEW s \in Servers, LinkClose(s) PROVE EntryOfLive'
  BY <1>0, <1>4 DEF LinkClose, Erased, MapInv, UserIds
<1>5. ASSUME NEW s \in Servers, LinkRead(s) PROVE EntryOfLive'
  BY <1>1, <1>5 DEF LinkRead, endpoints, imVars
<1>6. ASSUME NEW s \in Servers, NEW keep, NEW n, ImCrash(s, keep, n) PROVE EntryOfLive'
  BY <1>0, <1>6 DEF ImCrash, MapInv
<1>7. ASSUME NEW c \in Conns, ImAccept(c) PROVE EntryOfLive'
  BY <1>0, <1>7 DEF ImAccept, imVars, MapInv
<1>8. ASSUME NEW c \in Conns, ImRead(c) PROVE EntryOfLive'
  <2> DEFINE p == Head(c2s[c])
             s == ServerOf[c]
  <2>1. CASE HandleOnlineRequest(c, p)
    <3>1. p.user = UserOf[c]
      <4>1. p = c2s[c][1] /\ 1 \in 1..Len(c2s[c])
        BY <1>0, <1>8 DEF ImRead
      <4> QED
        BY <2>1, <4>1 DEF HandleOnlineRequest, MapInv, OwnLogin, At
    <3>2. /\ imConn' = [imConn EXCEPT ![c] = "OPEN"]
          /\ mUserId' = [mUserId EXCEPT ![c] = UserOf[c]]
          /\ userMap' = [userMap EXCEPT ![s][UserOf[c]] = IF @ = Nil THEN c ELSE @]
          /\ UserOf[c] \in UserIds /\ UserOf[c] # NoUser
      <4>1. /\ imConn' = [imConn EXCEPT ![c] = "OPEN"]
            /\ mUserId' = [mUserId EXCEPT ![c] = UserOf[c]]
            /\ userMap' = Registered(s, UserOf[c], c)
        BY <2>1, <3>1 DEF HandleOnlineRequest
      <4>2. UserOf[c] \in UserIds /\ UserOf[c] # NoUser /\ s \in Servers
        BY DEF UserIds
      <4> HIDE DEF p, s
      <4>3. Registered(s, UserOf[c], c)
              = [userMap EXCEPT ![s][UserOf[c]] = IF @ = Nil THEN c ELSE @]
        BY <1>0, <4>2 DEF Registered, InsertIfAbsent
      <4> QED
        BY <4>1, <4>2, <4>3
    <3>3. link' = link
      BY <1>8 DEF ImRead
    <3> HIDE DEF p
    <3> QED
      BY <1>0, <3>2, <3>3 DEF MapInv
  <2>2. CASE HandleMsg(s, p, FALSE) /\ UNCHANGED <<imConn, imVars>>
    BY <1>1, <1>8, <2>2 DEF ImRead, imVars
  <2> QED
    BY <1>8, <2>1, <2>2 DEF ImRead
<1>9. ASSUME NEW c \in Conns, ImOnClose(c) PROVE EntryOfLive'
  BY <1>0, <1>9 DEF ImOnClose, Erased, MapInv
<1>10. CASE ImNext
  BY <1>2, <1>3, <1>4, <1>5, <1>6, <1>7, <1>8, <1>9, <1>10 DEF ImNext
<1>11. CASE RouteNext /\ UNCHANGED <<imVars, clientVars>>
  BY <1>1, <1>11 DEF RouteNext, RouteAccept, RouteRead, RouteClose, RouteStart, RouteCrash,
                     endpoints, imVars
<1>12. CASE ClientNext /\ UNCHANGED <<imVars, routeMap>>
  BY <1>1, <1>12 DEF ClientNext, CliConnect, CliConfirm, CliTimer, CliRead, CliClose, CliKill,
                     endpoints, imVars
<1> QED
  BY <1>1, <1>10, <1>11, <1>12 DEF Next, vars, endpoints, imVars

LEMMA MapNext ==
  ASSUME MapInv, [Next]_vars
  PROVE  MapInv'
<1>1. TypeOK'
  BY TypeNext DEF MapInv
<1>2. OwnLogin'
  BY OwnLoginNext DEF MapInv
<1>3. RouteConnOpen'
  BY RouteConnOpenNext DEF MapInv
<1>4. EntryOfLive'
  BY <1>2, EntryOfLiveNext
<1> QED
  BY <1>1, <1>2, <1>3, <1>4 DEF MapInv

THEOREM MapInvariant == Spec => []MapInv
<1>1. MapInv /\ [Next]_vars => MapInv'
  BY MapNext
<1> QED
  BY <1>1, MapInit, PTL DEF Spec

\* CImConn::Close, which takes one key out of g_user_map, leaves no entry of a
\* deleted object behind: FindImConnByUserId never returns one, however
\* sessions of one user overlap.
THEOREM NoDanglingEntryHolds == Spec => []NoDanglingEntry
<1>1. MapInv => NoDanglingEntry
  BY DEF MapInv, RouteConnOpen, EntryOfLive, NoDanglingEntry
<1> QED
  BY <1>1, MapInvariant, PTL

-----------------------------------------------------------------------------
(* The route table: g_user_map of an im_server and g_route_user_map of the *)
(* route_server, which lags behind it by what is in the channel between    *)
(* them.  First, what keeps LinkInv(s): a lemma for every way a step can   *)
(* change the channel of s.                                                *)

\* Nothing LinkInv(s) depends on changes, but for route entries taken out.
Quiet(s) ==
  /\ s2r'[s] = s2r[s] /\ link'[s] = link[s]
  /\ gRouteConn'[s] = gRouteConn[s] /\ userMap'[s] = userMap[s]
  /\ \A u \in UserIds : routeMap'[u] = s => routeMap[u] = s

LEMMA QuietKeeps ==
  ASSUME NEW s \in Servers, LinkInv(s), Quiet(s)
  PROVE  LinkInv(s)'
<1> USE DEF LinkInv, Quiet, At
<1>1. NoReportYet(s)'
  BY DEF NoReportYet
<1>2. NoZeroLogin(s)'
  BY DEF NoZeroLogin, UserIds
<1>3. EntryBacked(s)'
  BY DEF EntryBacked
<1>4. ReportBacked(s)'
  BY DEF ReportBacked
<1>5. MsgAfterOffline(s)'
  BY DEF MsgAfterOffline
<1>6. MsgUnrouted(s)'
  BY DEF MsgUnrouted, UserIds
<1> QED
  BY <1>1, <1>2, <1>3, <1>4, <1>5, <1>6

\* No route connection, and the channel stays: the maps no longer matter.
LEMMA UnreportedKeeps ==
  ASSUME NEW s \in Servers, LinkInv(s), ~gRouteConn'[s],
         s2r'[s] = s2r[s], routeMap' = routeMap,
         \/ link'[s] = link[s]
         \/ link'[s] = "CONNECTING" /\ link[s] = "IDLE"
         \/ link'[s] = "FREED"
  PROVE  LinkInv(s)'
<1> USE DEF LinkInv, At
<1>1. NoReportYet(s)'
  BY DEF NoReportYet
<1>2. NoZeroLogin(s)'
  BY DEF NoZeroLogin
<1>3. EntryBacked(s)'
  BY DEF EntryBacked
<1>4. ReportBacked(s)'
  BY DEF ReportBacked
<1>5. MsgAfterOffline(s)'
  BY DEF MsgAfterOffline
<1>6. MsgUnrouted(s)'
  BY DEF MsgUnrouted
<1> QED
  BY <1>1, <1>2, <1>3, <1>4, <1>5, <1>6

\* The connection is confirmed: no report was sent before.
LEMMA ConfirmKeeps ==
  ASSUME NEW s \in Servers, LinkInv(s), link[s] = "CONNECTING",
         link'[s] \in {"OPEN", "STUCK"}, s2r'[s] = s2r[s], routeMap' = routeMap
  PROVE  LinkInv(s)'
<1> USE DEF LinkInv, At
<1>0. \A u : Online(u).type = "online"
  BY PacketKinds
<1>1. NoReportYet(s)'
  BY DEF NoReportYet
<1>2. NoZeroLogin(s)'
  BY DEF NoZeroLogin
<1>3. EntryBacked(s)'
  BY DEF EntryBacked, NoReportYet
<1>4. ReportBacked(s)'
  BY <1>0 DEF ReportBacked, NoReportYet
<1>5. MsgAfterOffline(s)'
  BY DEF MsgAfterOffline
<1>6. MsgUnrouted(s)'
  BY DEF MsgUnrouted
<1> QED
  BY <1>1, <1>2, <1>3, <1>4, <1>5, <1>6

\* The channel is emptied, and no connection or no entry is left.
LEMMA EmptyKeeps ==
  ASSUME NEW s \in Servers, LinkInv(s), s2r'[s] = <<>>,
         \/ ~gRouteConn'[s] /\ link'[s] = "FREED" /\ routeMap' = routeMap
         \/ \A u \in UserIds : routeMap'[u] # s
  PROVE  LinkInv(s)'
<1>0. At(s2r'[s]) = {}
  BY DEF At
<1>1. NoReportYet(s)'
  BY <1>0 DEF NoReportYet
<1>2. NoZeroLogin(s)'
  BY <1>0 DEF NoZeroLogin, LinkInv, UserIds
<1>3. EntryBacked(s)'
  BY <1>0 DEF EntryBacked
<1>4. ReportBacked(s)'
  BY <1>0 DEF ReportBacked
<1>5. MsgAfterOffline(s)'
  BY <1>0 DEF MsgAfterOffline
<1>6. MsgUnrouted(s)'
  BY <1>0 DEF MsgUnrouted
<1> QED
  BY <1>1, <1>2, <1>3, <1>4, <1>5, <1>6 DEF LinkInv

LEMMA AppendShape ==
  ASSUME NEW ch \in Seq(Packets), NEW p \in Packets
  PROVE  /\ Len(ch) \in Nat
         /\ Len(Append(ch, p)) = Len(ch) + 1
         /\ Append(ch, p)[Len(ch) + 1] = p
         /\ \A i \in 1..Len(ch) : Append(ch, p)[i] = ch[i]
OBVIOUS

\* A login is reported.  Its user is in g_user_map.
LEMMA LoginKeeps ==
  ASSUME NEW s \in Servers, s2r[s] \in Seq(Packets), LinkInv(s), NEW v \in Users,
         s2r'[s] = Append(s2r[s], Online(v)), routeMap' = routeMap,
         link'[s] = link[s], link[s] \notin {"IDLE", "CONNECTING"},
         gRouteConn'[s] = gRouteConn[s], userMap'[s][v] # Nil,
         \A u \in UserIds : userMap[s][u] # Nil => userMap'[s][u] # Nil
  PROVE  LinkInv(s)'
<1> DEFINE ch == s2r[s]
           new == s2r'[s]
           n == Len(ch)
<1>1. /\ n \in Nat /\ Len(new) = n + 1 /\ new[n + 1] = Online(v)
      /\ \A i \in 1..n : new[i] = ch[i]
  BY AppendShape, PacketKinds DEF UserIds
<1>2. /\ Online(v).type = "online"
      /\ \A u : Online(u) = Online(v) => u = v
      /\ \A u : Online(v) # Offline(u)
  BY PacketKinds
<1> HIDE DEF ch, new, n
<1>3. At(new) = At(ch) \union {n + 1} /\ At(ch) = 1..n
  BY <1>1 DEF At, n
<1> USE <1>1, <1>2, <1>3 DEF LinkInv
<1>4. NoReportYet(s)'
  BY DEF NoReportYet
<1>5. NoZeroLogin(s)'
  <2>1. v # NoUser
    BY NetAssumption
  <2> QED
    BY <2>1 DEF NoZeroLogin, ch, new
<1>6. EntryBacked(s)'
  BY DEF EntryBacked, ch, new
<1>7. ReportBacked(s)'
  BY DEF ReportBacked, ch, new
<1>8. MsgAfterOffline(s)'
  <2> SUFFICES ASSUME NEW u \in Users, NEW i \in At(new), NEW j \in At(new),
                      new[i].type = "msg", new[i].to = u, j < i, new[j] = Online(u)
               PROVE  \E k \in At(new) : j < k /\ k < i /\ new[k] = Offline(u)
    BY DEF MsgAfterOffline, new
  <2>1. i \in At(ch) /\ j \in At(ch)
    OBVIOUS
  <2>2. PICK k \in At(ch) : j < k /\ k < i /\ ch[k] = Offline(u)
    BY <2>1 DEF MsgAfterOffline, ch
  <2> QED
    BY <2>2
<1>9. MsgUnrouted(s)'
  <2> SUFFICES ASSUME NEW u \in Users, NEW i \in At(new),
                      new[i].type = "msg", new[i].to = u, routeMap[u] = s
               PROVE  \E k \in At(new) : k < i /\ new[k] = Offline(u)
    BY DEF MsgUnrouted, new
  <2>1. i \in At(ch)
    OBVIOUS
  <2>2. PICK k \in At(ch) : k < i /\ ch[k] = Offline(u)
    BY <2>1 DEF MsgUnrouted, ch
  <2> QED
    BY <2>2
<1> QED
  BY <1>4, <1>5, <1>6, <1>7, <1>8, <1>9

\* A logout is reported.  Only its user leaves g_user_map.
LEMMA LogoutKeeps ==
  ASSUME NEW s \in Servers, s2r[s] \in Seq(Packets), LinkInv(s), NEW v \in UserIds,
         s2r'[s] = Append(s2r[s], Offline(v)), routeMap' = routeMap,
         link'[s] = link[s], link[s] \notin {"IDLE", "CONNECTING"},
         gRouteConn'[s] = gRouteConn[s],
         \A u \in UserIds \ {v} : userMap'[s][u] = userMap[s][u]
  PROVE  LinkInv(s)'
<1> DEFINE ch == s2r[s]
           new == s2r'[s]
           n == Len(ch)
<1>1. /\ n \in Nat /\ Len(new) = n + 1 /\ new[n + 1] = Offline(v)
      /\ \A i \in 1..n : new[i] = ch[i]
  BY AppendShape, PacketKinds
<1>2. /\ Offline(v).type = "offline"
      /\ \A u : Online(u) # Offline(v)
  BY PacketKinds
<1> HIDE DEF ch, new, n
<1>3. At(new) = At(ch) \union {n + 1} /\ At(ch) = 1..n
  BY <1>1 DEF At, n
<1> USE <1>1, <1>2, <1>3 DEF LinkInv
<1>4. NoReportYet(s)'
  BY DEF NoReportYet
<1>5. NoZeroLogin(s)'
  BY DEF NoZeroLogin, ch, new
<1>6. EntryBacked(s)'
  BY DEF EntryBacked, ch, new
<1>7. ReportBacked(s)'
  <2> SUFFICES ASSUME NEW u \in UserIds, NEW i \in At(new), gRouteConn[s], new[i] = Online(u)
               PROVE  \/ userMap'[s][u] # Nil
                      \/ \E j \in At(new) : i < j /\ new[j] = Offline(u)
    BY DEF ReportBacked, new
  <2>1. i \in At(ch) /\ ch[i] = Online(u)
    OBVIOUS
  <2>2. CASE u = v
    <3>1. i < n + 1 /\ n + 1 \in At(new)
      BY <2>1
    <3> QED
      BY <2>2, <3>1
  <2>3. CASE u # v
    BY <2>1, <2>3 DEF ReportBacked, ch
  <2> QED
    BY <2>2, <2>3
<1>8. MsgAfterOffline(s)'
  <2> SUFFICES ASSUME NEW u \in Users, NEW i \in At(new), NEW j \in At(new),
                      new[i].type = "msg", new[i].to = u, j < i, new[j] = Online(u)
               PROVE  \E k \in At(new) : j < k /\ k < i /\ new[k] = Offline(u)
    BY DEF MsgAfterOffline, new
  <2>1. i \in At(ch) /\ j \in At(ch)
    OBVIOUS
  <2>2. PICK k \in At(ch) : j < k /\ k < i /\ ch[k] = Offline(u)
    BY <2>1 DEF MsgAfterOffline, ch
  <2> QED
    BY <2>2
<1>9. MsgUnrouted(s)'
  <2> SUFFICES ASSUME NEW u \in Users, NEW i \in At(new),
                      new[i].type = "msg", new[i].to = u, routeMap[u] = s
               PROVE  \E k \in At(new) : k < i /\ new[k] = Offline(u)
    BY DEF MsgUnrouted, new
  <2>1. i \in At(ch)
    OBVIOUS
  <2>2. PICK k \in At(ch) : k < i /\ ch[k] = Offline(u)
    BY <2>1 DEF MsgUnrouted, ch
  <2> QED
    BY <2>2
<1> QED
  BY <1>4, <1>5, <1>6, <1>7, <1>8, <1>9

\* A message is sent, to user 0 or to a user s does not have.
LEMMA MsgKeeps ==
  ASSUME NEW s \in Servers, s2r[s] \in Seq(Packets), LinkInv(s),
         NEW p \in Packets, p.type = "msg", p.to \in UserIds,
         p.to = NoUser \/ (userMap[s][p.to] = Nil /\ gRouteConn[s]),
         s2r'[s] = Append(s2r[s], p), routeMap' = routeMap,
         link'[s] = link[s], link[s] # "IDLE",
         gRouteConn'[s] = gRouteConn[s], userMap'[s] = userMap[s]
  PROVE  LinkInv(s)'
<1> DEFINE ch == s2r[s]
           new == s2r'[s]
           n == Len(ch)
<1>1. /\ n \in Nat /\ Len(new) = n + 1 /\ new[n + 1] = p
      /\ \A i \in 1..n : new[i] = ch[i]
  BY AppendShape
<1>2. \A u : Online(u) # p
  BY PacketKinds
<1> HIDE DEF ch, new, n
<1>3. At(new) = At(ch) \union {n + 1} /\ At(ch) = 1..n
  BY <1>1 DEF At, n
<1> USE <1>1, <1>2, <1>3 DEF LinkInv
<1>4. NoReportYet(s)'
  BY DEF NoReportYet, ch, new
<1>5. NoZeroLogin(s)'
  BY DEF NoZeroLogin, ch, new
<1>6. EntryBacked(s)'
  BY DEF EntryBacked, ch, new
<1>7. ReportBacked(s)'
  BY DEF ReportBacked, ch, new
<1>8. MsgAfterOffline(s)'
  <2> SUFFICES ASSUME NEW u \in Users, NEW i \in At(new), NEW j \in At(new),
                      new[i].type = "msg", new[i].to = u, j < i, new[j] = Online(u)
               PROVE  \E k \in At(new) : j < k /\ k < i /\ new[k] = Offline(u)
    BY DEF MsgAfterOffline, new
  <2>1. j \in At(ch) /\ ch[j] = Online(u)
    OBVIOUS
  <2>2. CASE i \in At(ch)
    <3>1. PICK k \in At(ch) : j < k /\ k < i /\ ch[k] = Offline(u)
      BY <2>1, <2>2 DEF MsgAfterOffline, ch
    <3> QED
      BY <3>1
  <2>3. CASE i = n + 1
    <3>1. u = p.to /\ u # NoUser /\ u \in UserIds
      BY <2>3, NetAssumption DEF UserIds
    <3>2. PICK k \in At(ch) : j < k /\ ch[k] = Offline(u)
      BY <2>1, <3>1 DEF ReportBacked, ch
    <3> QED
      BY <2>3, <3>2
  <2> QED
    BY <2>2, <2>3
<1>9. MsgUnrouted(s)'
  <2> SUFFICES ASSUME NEW u \in Users, NEW i \in At(new),
                      new[i].type = "msg", new[i].to = u, routeMap[u] = s
               PROVE  \E k \in At(new) : k < i /\ new[k] = Offline(u)
    BY DEF MsgUnrouted, new
  <2>1. CASE i \in At(ch)
    <3>1. PICK k \in At(ch) : k < i /\ ch[k] = Offline(u)
      BY <2>1 DEF MsgUnrouted, ch
    <3> QED
      BY <3>1
  <2>2. CASE i = n + 1
    <3>1. u = p.to /\ u # NoUser /\ u \in UserIds
      BY <2>2, NetAssumption DEF UserIds
    <3>2. PICK k \in At(ch) : ch[k] = Offline(u)
      BY <3>1 DEF EntryBacked, ch
    <3> QED
      BY <2>2, <3>2
  <2> QED
    BY <2>1, <2>2
<1> QED
  BY <1>4, <1>5, <1>6, <1>7, <1>8, <1>9

\* The im_server is gone: a prefix of what it had to send and the end of the
\* stream are left.
LEMMA HangupKeeps ==
  ASSUME NEW s \in Servers, s2r[s] \in Seq(Packets), LinkInv(s), NEW m \in Nat,
         s2r'[s] = Hangup(s2r[s], m), routeMap' = routeMap,
         link'[s] = "FREED", ~gRouteConn'[s]
  PROVE  LinkInv(s)'
<1> DEFINE ch == s2r[s]
           new == s2r'[s]
           n == Len(new)
<1>1. /\ n \in 1..(Len(ch) + 1) /\ new[n] = Eof /\ Len(ch) \in Nat
      /\ \A i \in 1..(n - 1) : new[i] = ch[i]
  <2>1. new = Hangup(ch, m) /\ ch \in Seq(Packets)
    OBVIOUS
  <2> HIDE DEF ch, new
  <2>2. Len(ch) \in Nat
    BY <2>1
  <2>3. /\ Len(Hangup(ch, m)) \in 1..(Len(ch) + 1)
        /\ Hangup(ch, m)[Len(Hangup(ch, m))] = Eof
        /\ \A i \in 1..(Len(Hangup(ch, m)) - 1) : Hangup(ch, m)[i] = ch[i]
    BY <2>1, HangupShape, Zenon
  <2> QED
    BY <2>1, <2>2, <2>3, Zenon
<1>2. Eof.type = "eof" /\ \A u : Online(u) # Eof
  BY PacketKinds
<1> HIDE DEF ch, new
<1>3. /\ At(new) = 1..n
      /\ \A i \in At(new) : i = n \/ (i \in At(ch) /\ i < n /\ new[i] = ch[i])
  BY <1>1 DEF At
<1>4. \A i \in At(ch) : i < n => i \in At(new)
  BY <1>1 DEF At
<1> HIDE DEF n
<1> USE <1>1, <1>2, <1>3, <1>4 DEF LinkInv
<1>5. NoReportYet(s)'
  BY DEF NoReportYet
<1>6. NoZeroLogin(s)'
  BY DEF NoZeroLogin, ch, new
<1>7. EntryBacked(s)'
  BY DEF EntryBacked
<1>8. ReportBacked(s)'
  BY DEF ReportBacked
<1>9. MsgAfterOffline(s)'
  <2> SUFFICES ASSUME NEW u \in Users, NEW i \in At(new), NEW j \in At(new),
                      new[i].type = "msg", new[i].to = u, j < i, new[j] = Online(u)
               PROVE  \E k \in At(new) : j < k /\ k < i /\ new[k] = Offline(u)
    BY DEF MsgAfterOffline, new
  <2>1. /\ i \in At(ch) /\ j \in At(ch) /\ i < n
        /\ ch[i].type = "msg" /\ ch[i].to = u /\ ch[j] = Online(u)
    <3>1. i # n /\ j # n
      OBVIOUS
    <3> QED
      BY <3>1
  <2>2. PICK k \in At(ch) : j < k /\ k < i /\ ch[k] = Offline(u)
    <3>1. MsgAfterOffline(s)
      OBVIOUS
    <3> QED
      BY ONLY <2>1, <3>1, j < i DEF MsgAfterOffline, ch
  <2>3. k < n /\ k \in At(new) /\ new[k] = ch[k]
    BY <2>1, <2>2 DEF At
  <2> QED
    BY <2>2, <2>3
<1>10. MsgUnrouted(s)'
  <2> SUFFICES ASSUME NEW u \in Users, NEW i \in At(new),
                      new[i].type = "msg", new[i].to = u, routeMap[u] = s
               PROVE  \E k \in At(new) : k < i /\ new[k] = Offline(u)
    BY DEF MsgUnrouted, new
  <2>1. i \in At(ch) /\ i < n /\ new[i] = ch[i]
    OBVIOUS
  <2>2. PICK k \in At(ch) : k < i /\ ch[k] = Offline(u)
    BY <2>1 DEF MsgUnrouted, ch
  <2>3. k < n /\ k \in At(new) /\ new[k] = ch[k]
    BY <2>1, <2>2 DEF At
  <2> QED
    BY <2>2, <2>3
<1> QED
  BY <1>5, <1>6, <1>7, <1>8, <1>9, <1>10

\* The route_server handles the first PDU, p, and the rest moves up.
LEMMA ReadKeeps ==
  ASSUME NEW s \in Servers, s2r[s] \in Seq(Packets), s2r[s] # <<>>, LinkInv(s),
         routeMap \in [UserIds -> Servers \union {Nil}],
         s2r'[s] \in Drained(s2r[s]), link'[s] = link[s], link[s] # "CONNECTING",
         gRouteConn'[s] = gRouteConn[s], userMap'[s] = userMap[s],
         \/ \E v \in UserIds : /\ Head(s2r[s]) = Online(v)
                               /\ routeMap' = InsertIfAbsent(routeMap, v, s)
         \/ \E v \in UserIds : /\ Head(s2r[s]) = Offline(v)
                               /\ routeMap' = [routeMap EXCEPT ![v] = Nil]
         \/ Head(s2r[s]).type = "msg" /\ routeMap' = routeMap
  PROVE  LinkInv(s)'
<1> DEFINE ch == s2r[s]
           rest == s2r'[s]
           p == Head(ch)
<1>1. /\ p = ch[1] /\ 1 \in At(ch) /\ Len(rest) < Len(ch)
      /\ Len(ch) \in Nat /\ Len(rest) \in Nat
      /\ \A i \in 1..Len(rest) : rest[i] = ch[i + 1]
      /\ \A i \in 2..Len(ch) : ch[i] # Eof => i - 1 \in 1..Len(rest)
  BY DrainedShape DEF At
<1>2. /\ \A u : Online(u) # Eof /\ Offline(u) # Eof
      /\ \A u, v : /\ Online(u) # Offline(v)
                   /\ Online(u) = Online(v) => u = v
                   /\ Offline(u) = Offline(v) => u = v
      /\ \A u : Online(u).type # "msg" /\ Offline(u).type # "msg"
  BY PacketKinds
<1> HIDE DEF ch, rest, p
\* A place in the rest was one place further back, ...
<1>3. \A i \in At(rest) : i + 1 \in At(ch) /\ rest[i] = ch[i + 1] /\ i + 1 > 1
  BY <1>1 DEF At
\* ... and no logout but the first PDU is lost.
<1>4. \A u : \A i \in At(ch) : ch[i] = Offline(u) /\ i > 1
                                 => i - 1 \in At(rest) /\ rest[i - 1] = Offline(u)
  <2> SUFFICES ASSUME NEW u, NEW i \in At(ch), ch[i] = Offline(u), i > 1
               PROVE  i - 1 \in At(rest) /\ rest[i - 1] = Offline(u)
    OBVIOUS
  <2>1. i \in 2..Len(ch) /\ ch[i] # Eof
    BY <1>1, <1>2 DEF At
  <2>2. i - 1 \in 1..Len(rest)
    BY <1>1, <2>1
  <2>3. rest[i - 1] = ch[(i - 1) + 1] /\ (i - 1) + 1 = i
    BY <1>1, <2>1, <2>2
  <2> QED
    BY <2>2, <2>3 DEF At
\* The table after the step: an entry of s is the one it had, unless the first
\* PDU was the logout, or it is that of the login just read.
<1>5. \A u \in UserIds : routeMap'[u] = s =>
        \/ routeMap[u] = s /\ p # Offline(u)
        \/ p = Online(u)
  BY <1>2, NetAssumption DEF InsertIfAbsent, ch, p
<1>6. p # Online(NoUser)
  BY <1>1 DEF LinkInv, NoZeroLogin, ch
<1> USE <1>1, <1>2, <1>3, <1>4, <1>5, <1>6 DEF LinkInv
<1>7. NoReportYet(s)'
  BY DEF NoReportYet
<1>8. NoZeroLogin(s)'
  <2>1. routeMap'[NoUser] # s
    BY DEF NoZeroLogin, UserIds
  <2>2. ASSUME NEW i \in At(rest) PROVE rest[i] # Online(NoUser)
    BY <2>2 DEF NoZeroLogin, ch
  <2> QED
    BY <2>1, <2>2 DEF NoZeroLogin, rest
<1>9. EntryBacked(s)'
  <2> SUFFICES ASSUME NEW u \in UserIds, gRouteConn[s], routeMap'[u] = s
               PROVE  \/ userMap[s][u] # Nil
                      \/ \E i \in At(rest) : rest[i] = Offline(u)
    BY DEF EntryBacked, rest
  <2>1. \/ userMap[s][u] # Nil
        \/ \E i \in At(ch) : i > 1 /\ ch[i] = Offline(u)
    <3>1. CASE routeMap[u] = s /\ p # Offline(u)
      <4>1. \/ userMap[s][u] # Nil
            \/ \E i \in At(ch) : ch[i] = Offline(u)
        BY <3>1 DEF EntryBacked, ch
      <4>2. \A i \in At(ch) : i = 1 \/ i > 1
        BY DEF At
      <4> QED
        BY <3>1, <4>1, <4>2
    <3>2. CASE p = Online(u)
      <4>1. 1 \in At(ch) /\ ch[1] = Online(u)
        BY <3>2
      <4> QED
        BY <4>1 DEF ReportBacked, ch
    <3> QED
      BY <3>1, <3>2
  <2> QED
    BY <2>1
<1>10. ReportBacked(s)'
  <2> SUFFICES ASSUME NEW u \in UserIds, NEW i \in At(rest), gRouteConn[s],
                      rest[i] = Online(u)
               PROVE  \/ userMap[s][u] # Nil
                      \/ \E j \in At(rest) : i < j /\ rest[j] = Offline(u)
    BY DEF ReportBacked, rest
  <2>1. i + 1 \in At(ch) /\ ch[i + 1] = Online(u)
    OBVIOUS
  <2>2. CASE userMap[s][u] # Nil
    BY <2>2
  <2>3. ASSUME NEW j \in At(ch), i + 1 < j, ch[j] = Offline(u)
        PROVE  \E k \in At(rest) : i < k /\ rest[k] = Offline(u)
    <3>1. j \in Nat /\ i \in Nat /\ j > 1 /\ i < j - 1
      BY <2>3 DEF At
    <3>2. j - 1 \in At(rest) /\ rest[j - 1] = Offline(u)
      BY <1>4, <2>3, <3>1
    <3> QED
      BY <3>1, <3>2
  <2> QED
    BY <2>1, <2>2, <2>3 DEF ReportBacked, ch
<1>11. MsgAfterOffline(s)'
  <2> SUFFICES ASSUME NEW u \in Users, NEW i \in At(rest), NEW j \in At(rest),
                      rest[i].type = "msg", rest[i].to = u, j < i, rest[j] = Online(u)
               PROVE  \E k \in At(rest) : j < k /\ k < i /\ rest[k] = Offline(u)
    BY DEF MsgAfterOffline, rest
  <2>1. /\ i + 1 \in At(ch) /\ j + 1 \in At(ch) /\ j + 1 < i + 1
        /\ ch[i + 1].type = "msg" /\ ch[i + 1].to = u /\ ch[j + 1] = Online(u)
    BY DEF At
  <2>2. PICK k \in At(ch) : j + 1 < k /\ k < i + 1 /\ ch[k] = Offline(u)
    BY <2>1 DEF MsgAfterOffline, ch
  <2>3. /\ k \in Nat /\ i \in Nat /\ j \in Nat
        /\ k > 1 /\ j < k - 1 /\ k - 1 < i
    BY <2>2 DEF At
  <2>4. k - 1 \in At(rest) /\ rest[k - 1] = Offline(u)
    BY <1>4, <2>2, <2>3
  <2> QED
    BY <2>3, <2>4
<1>12. MsgUnrouted(s)'
  <2> SUFFICES ASSUME NEW u \in Users, NEW i \in At(rest),
                      rest[i].type = "msg", rest[i].to = u, routeMap'[u] = s
               PROVE  \E k \in At(rest) : k < i /\ rest[k] = Offline(u)
    BY DEF MsgUnrouted, rest
  <2>1. /\ i + 1 \in At(ch) /\ ch[i + 1].type = "msg" /\ ch[i + 1].to = u
        /\ u \in UserIds /\ i \in Nat
    BY DEF At, UserIds
  <2>2. PICK k \in At(ch) : 1 < k /\ k < i + 1 /\ ch[k] = Offline(u)
    <3>1. CASE routeMap[u] = s /\ p # Offline(u)
      <4>1. PICK k \in At(ch) : k < i + 1 /\ ch[k] = Offline(u)
        BY <2>1, <3>1 DEF MsgUnrouted, ch
      <4>2. k = 1 \/ k > 1
        BY DEF At
      <4> QED
        BY <3>1, <4>1, <4>2
    <3>2. CASE p = Online(u)
      <4>1. 1 \in At(ch) /\ ch[1] = Online(u) /\ 1 < i + 1
        BY <3>2 DEF At
      <4> QED
        BY <2>1, <4>1 DEF MsgAfterOffline, ch
    <3> QED
      BY <2>1, <3>1, <3>2
  <2>3. k \in Nat /\ k - 1 < i
    BY <2>1, <2>2 DEF At
  <2>4. k - 1 \in At(rest) /\ rest[k - 1] = Offline(u)
    BY <1>4, <2>2
  <2> QED
    BY <2>3, <2>4
<1> QED
  BY <1>7, <1>8, <1>9, <1>10, <1>11, <1>12

-----------------------------------------------------------------------------
(* Every step of the system.                                               *)

LEMMA RouteInvInit == Init => RouteInv
<1> SUFFICES ASSUME Init PROVE RouteInv
  OBVIOUS
<1>1. NoDanglingRoute
  BY DEF Init, RouteInit, NoDanglingRoute
<1>2. ASSUME NEW s \in Servers PROVE LinkInv(s)
  <2>1. /\ s2r[s] = <<>> /\ link[s] = "IDLE" /\ ~gRouteConn[s] /\ s # Nil
        /\ \A u \in UserIds : routeMap[u] # s
        /\ NoUser \in UserIds /\ At(s2r[s]) = {}
    BY NetAssumption DEF Init, NetInit, ImInit, RouteInit, UserIds, At
  <2>2. NoReportYet(s) /\ NoZeroLogin(s)
    BY <2>1 DEF NoReportYet, NoZeroLogin
  <2>3. EntryBacked(s) /\ ReportBacked(s)
    BY <2>1 DEF EntryBacked, ReportBacked
  <2>4. MsgAfterOffline(s) /\ MsgUnrouted(s)
    BY <2>1 DEF MsgAfterOffline, MsgUnrouted
  <2> QED
    BY <2>2, <2>3, <2>4 DEF LinkInv
<1> QED
  BY MapInit, <1>1, <1>2 DEF RouteInv

\* The table of the route_server names its own connections only.
LEMMA NoDanglingRouteNext ==
  ASSUME TypeOK, NoDanglingRoute, [Next]_vars
  PROVE  NoDanglingRoute'
<1> USE NetAssumption DEF NoDanglingRoute
<1>0. /\ rlink \in [Servers -> ConnStates]
      /\ routeMap \in [UserIds -> Servers \union {Nil}]
      /\ s2r \in [Servers -> Seq(Packets)]
  BY DEF TypeOK, NetTypeOK, RouteTypeOK
<1>1. CASE UNCHANGED <<rlink, routeMap>>
  BY <1>1
<1>2. ASSUME NEW s \in Servers, RouteAccept(s) PROVE NoDanglingRoute'
  BY <1>0, <1>2 DEF RouteAccept
<1>3. ASSUME NEW s \in Servers, RouteRead(s) PROVE NoDanglingRoute'
  <2> DEFINE p == Head(s2r[s])
  <2>1. p \in Packets /\ rlink' = rlink /\ rlink[s] = "OPEN"
    BY <1>0, <1>3, DrainedShape DEF RouteRead, endpoints
  <2>2. CASE RouteHandleOnline(s, p)
    <3>1. p.user \in UserIds /\ routeMap' = InsertIfAbsent(routeMap, p.user, s)
      BY <2>1, <2>2, PacketShape DEF RouteHandleOnline
    <3> HIDE DEF p
    <3> QED
      BY <1>0, <2>1, <3>1 DEF InsertIfAbsent
  <2>3. CASE RouteHandleOffline(p)
    <3>1. p.user \in UserIds /\ routeMap' = [routeMap EXCEPT ![p.user] = Nil]
      BY <2>1, <2>3, PacketShape DEF RouteHandleOffline
    <3> HIDE DEF p
    <3> QED
      BY <1>0, <2>1, <3>1
  <2>4. CASE RouteHandleMsg(p)
    BY <2>1, <2>4 DEF RouteHandleMsg
  <2> QED
    BY <1>3, <2>2, <2>3, <2>4 DEF RouteRead
<1>4. ASSUME NEW s \in Servers, RouteClose(s) PROVE NoDanglingRoute'
  BY <1>0, <1>4 DEF RouteClose, WithoutServer
<1>5. ASSUME NEW keep, RouteCrash(keep) PROVE NoDanglingRoute'
  BY <1>5 DEF RouteCrash
<1>6. CASE RouteNext
  BY <1>1, <1>2, <1>3, <1>4, <1>5, <1>6 DEF RouteNext, RouteStart, endpoints
<1>7. CASE ImNext /\ UNCHANGED <<routeMap, clientVars>>
  BY <1>1, <1>7 DEF ImNext, ImStart, LinkConfirm, LinkClose, LinkRead, ImCrash, ImAccept,
                    ImRead, ImOnClose, endpoints
<1>8. CASE ClientNext /\ UNCHANGED <<imVars, routeMap>>
  BY <1>1, <1>8 DEF ClientNext, CliConnect, CliConfirm, CliTimer, CliRead, CliClose, CliKill,
                    endpoints
<1> QED
  BY <1>1, <1>6, <1>7, <1>8 DEF Next, vars, endpoints

\* A message handled by im_server s, from wherever it came.
LEMMA MsgEffectKeeps ==
  ASSUME RouteInv, NEW s \in Servers, NEW p \in Packets, MsgEffect(s, p),
         UNCHANGED <<routeMap, link, gRouteConn, userMap>>
  PROVE  \A t \in Servers : LinkInv(t)'
<1> SUFFICES ASSUME NEW t \in Servers PROVE LinkInv(t)'
  OBVIOUS
<1>0. /\ LinkInv(t) /\ s2r \in [Servers -> Seq(Packets)]
      /\ userMap \in [Servers -> [UserIds -> Conns \union {Route, Nil}]]
  BY DEF RouteInv, MapInv, TypeOK, NetTypeOK, ImTypeOK
<1>1. CASE s2r'[t] = s2r[t]
  BY <1>0, <1>1, QuietKeeps DEF Quiet
<1>2. CASE /\ t = s
           /\ userMap[s][p.to] = Route \/ (userMap[s][p.to] = Nil /\ gRouteConn[s])
           /\ s2r' = [s2r EXCEPT ![s] = Append(s2r[s], p)]
  <2>1. p.type = "msg" /\ p.to \in UserIds
    BY DEF MsgEffect
  <2>2. CASE userMap[s][p.to] = Route
    <3>1. p.to = NoUser /\ link[s] # "IDLE"
      BY <2>1, <2>2 DEF RouteInv, MapInv, EntryOfLive
    <3>2. s2r'[s] = Append(s2r[s], p)
      BY <1>0, <1>2
    <3> QED
      BY <1>0, <1>2, <2>1, <3>1, <3>2, MsgKeeps
  <2>3. CASE userMap[s][p.to] = Nil /\ gRouteConn[s]
    <3>1. link[s] # "IDLE"
      BY <2>3 DEF RouteInv, MapInv, RouteConnOpen, Confirmed
    <3>2. s2r'[s] = Append(s2r[s], p)
      BY <1>0, <1>2
    <3> QED
      BY <1>0, <1>2, <2>1, <2>3, <3>1, <3>2, MsgKeeps
  <2> QED
    BY <1>2, <2>2, <2>3
<1> QED
  BY <1>0, <1>1, <1>2 DEF MsgEffect

\* A step of an im_server.
LEMMA LinkInvIm ==
  ASSUME RouteInv, ImNext, UNCHANGED <<routeMap, clientVars>>, NEW t \in Servers
  PROVE  LinkInv(t)'
<1>0. /\ LinkInv(t)
      /\ s2r \in [Servers -> Seq(Packets)] /\ c2s \in [Conns -> Seq(Packets)]
      /\ r2s \in [Servers -> Seq(Packets)]
      /\ link \in [Servers -> ConnStates] /\ gRouteConn \in [Servers -> BOOLEAN]
      /\ mUserId \in [Conns -> UserIds]
      /\ userMap \in [Servers -> [UserIds -> Conns \union {Route, Nil}]]
      /\ \A s \in Servers : gRouteConn[s] <=> link[s] \in {"OPEN", "STUCK"}
  BY DEF RouteInv, MapInv, TypeOK, NetTypeOK, ImTypeOK, RouteConnOpen, Confirmed
<1>q. ASSUME s2r'[t] = s2r[t], link'[t] = link[t], gRouteConn'[t] = gRouteConn[t],
             userMap'[t] = userMap[t]
      PROVE  LinkInv(t)'
  BY <1>0, <1>q, QuietKeeps DEF Quiet
<1>1. ASSUME NEW s \in Servers, ImStart(s) PROVE LinkInv(t)'
  <2>1. CASE t = s
    <3>1. link[s] = "IDLE"
      BY <1>1 DEF ImStart, RouteInv, MapInv, RouteConnOpen
    <3>2. ~gRouteConn'[t] /\ s2r'[t] = s2r[t] /\ link'[t] = "CONNECTING"
      BY <1>0, <1>1, <2>1, <3>1 DEF ImStart, channels
    <3> QED
      BY <1>0, <2>1, <3>1, <3>2, UnreportedKeeps
  <2>2. CASE t # s
    BY <1>0, <1>1, <1>q, <2>2 DEF ImStart, Registered, channels
  <2> QED
    BY <2>1, <2>2
<1>2. ASSUME NEW s \in Servers, LinkConfirm(s) PROVE LinkInv(t)'
  <2>1. CASE t = s
    <3>1. /\ link[t] = "CONNECTING" /\ link'[t] \in {"OPEN", "STUCK"}
          /\ s2r'[t] = s2r[t]
      BY <1>0, <1>2, <2>1 DEF LinkConfirm, channels
    <3> QED
      BY <1>0, <3>1, ConfirmKeeps
  <2>2. CASE t # s
    BY <1>0, <1>2, <1>q, <2>2 DEF LinkConfirm, channels
  <2> QED
    BY <2>1, <2>2
<1>3. ASSUME NEW s \in Servers, LinkClose(s) PROVE LinkInv(t)'
  <2>1. CASE t = s
    <3>1. ~gRouteConn'[t] /\ s2r'[t] = <<>> /\ link'[t] = "FREED"
      BY <1>0, <1>3, <2>1 DEF LinkClose
    <3> QED
      BY <1>0, <3>1, EmptyKeeps
  <2>2. CASE t # s
    BY <1>0, <1>3, <1>q, <2>2 DEF LinkClose, Erased
  <2> QED
    BY <2>1, <2>2
<1>4. ASSUME NEW s \in Servers, LinkRead(s) PROVE LinkInv(t)'
  <2>1. Head(r2s[s]) \in Packets
    BY <1>0, <1>4, DrainedShape DEF LinkRead
  <2>2. MsgEffect(s, Head(r2s[s]))
    <3>1. HandleMsg(s, Head(r2s[s]), TRUE)
      BY <1>4 DEF LinkRead
    <3> QED
      BY <2>1, <3>1, HandleMsgEffect, Zenon
  <2> QED
    BY <1>4, <2>1, <2>2, MsgEffectKeeps DEF LinkRead, endpoints, imVars
<1>5. ASSUME NEW s \in Servers, NEW keep, NEW n \in 0..Len(s2r[s]), ImCrash(s, keep, n)
      PROVE  LinkInv(t)'
  <2>1. CASE t = s
    <3>1. ~gRouteConn'[t] /\ link'[t] = "FREED"
      BY <1>0, <1>5, <2>1 DEF ImCrash
    <3>2. \/ s2r'[t] = s2r[t]
          \/ s2r'[t] = <<>>
          \/ \E m \in {0, n} : s2r'[t] = Hangup(s2r[t], m)
      BY <1>0, <1>5, <2>1 DEF ImCrash
    <3>3. n \in Nat
      BY <1>0
    <3> QED
      BY <1>0, <3>1, <3>2, <3>3, UnreportedKeeps, EmptyKeeps, HangupKeeps
  <2>2. CASE t # s
    BY <1>0, <1>5, <1>q, <2>2 DEF ImCrash
  <2> QED
    BY <2>1, <2>2
<1>6. ASSUME NEW c \in Conns, ImAccept(c) PROVE LinkInv(t)'
  BY <1>6, <1>q DEF ImAccept, channels, imVars
<1>7. ASSUME NEW c \in Conns, ImRead(c) PROVE LinkInv(t)'
  <2> DEFINE p == Head(c2s[c])
             s == ServerOf[c]
  <2>0. p \in Packets /\ s \in Servers /\ link' = link
    BY <1>0, <1>7, DrainedShape, NetAssumption DEF ImRead
  <2>1. CASE HandleOnlineRequest(c, p)
    <3>1. p.user = UserOf[c] /\ UserOf[c] \in Users /\ UserOf[c] \in UserIds
      <4>1. p = c2s[c][1] /\ 1 \in 1..Len(c2s[c])
        BY <1>0, <1>7 DEF ImRead
      <4> QED
        BY <2>1, <4>1, NetAssumption
           DEF HandleOnlineRequest, RouteInv, MapInv, OwnLogin, At, UserIds
    <3>2. /\ userMap' = Registered(s, UserOf[c], c) /\ gRouteConn' = gRouteConn
          /\ Report(s, Online(UserOf[c]))
      BY <2>1, <3>1 DEF HandleOnlineRequest
    <3> HIDE DEF p, s
    <3>3. CASE t # s
      BY <1>0, <1>q, <2>0, <3>2, <3>3 DEF Registered, Report
    <3>4. CASE t = s /\ gRouteConn[s]
      <4>1. s2r'[t] = Append(s2r[t], Online(UserOf[c]))
        BY <1>0, <3>2, <3>4 DEF Report
      <4>2. /\ userMap'[t][UserOf[c]] # Nil
            /\ \A u \in UserIds : userMap[t][u] # Nil => userMap'[t][u] # Nil
        BY <1>0, <2>0, <3>1, <3>2, <3>4, NetAssumption DEF Registered, InsertIfAbsent
      <4>3. link[t] \notin {"IDLE", "CONNECTING"}
        BY <1>0, <3>4
      <4> QED
        BY <1>0, <2>0, <3>1, <3>2, <4>1, <4>2, <4>3, LoginKeeps
    <3>5. CASE t = s /\ ~gRouteConn[s]
      <4>1. s2r'[t] = s2r[t] /\ ~gRouteConn'[t] /\ link'[t] = link[t] /\ routeMap' = routeMap
        BY <2>0, <3>2, <3>5 DEF Report
      <4> QED
        BY <1>0, <4>1, UnreportedKeeps
    <3> QED
      BY <3>3, <3>4, <3>5
  <2>2. CASE HandleMsg(s, p, FALSE) /\ UNCHANGED <<imConn, imVars>>
    <3>1. MsgEffect(s, p)
      BY <2>0, <2>2, HandleMsgEffect, Zenon
    <3>2. UNCHANGED <<routeMap, link, gRouteConn, userMap>>
      BY <2>0, <2>2 DEF imVars
    <3> HIDE DEF p, s
    <3> QED
      BY <2>0, <3>1, <3>2, MsgEffectKeeps
  <2> QED
    BY <1>7, <2>1, <2>2 DEF ImRead
<1>8. ASSUME NEW c \in Conns, ImOnClose(c) PROVE LinkInv(t)'
  <2> DEFINE s == ServerOf[c]
             v == mUserId[c]
  <2>0. /\ s \in Servers /\ v \in UserIds /\ link' = link /\ gRouteConn' = gRouteConn
        /\ Report(s, Offline(v)) /\ userMap' = Erased(s, v)
    BY <1>0, <1>8, NetAssumption DEF ImOnClose
  <2> HIDE DEF s, v
  <2>1. CASE t # s
    BY <1>0, <1>q, <2>0, <2>1 DEF Erased, Report
  <2>2. CASE t = s /\ gRouteConn[s]
    <3>1. s2r'[t] = Append(s2r[t], Offline(v))
      BY <1>0, <2>0, <2>2 DEF Report
    <3>2. \A u \in UserIds \ {v} : userMap'[t][u] = userMap[t][u]
      BY <1>0, <2>0, <2>2 DEF Erased
    <3>3. link[t] \notin {"IDLE", "CONNECTING"}
      BY <1>0, <2>2
    <3> QED
      BY <1>0, <2>0, <3>1, <3>2, <3>3, LogoutKeeps
  <2>3. CASE t = s /\ ~gRouteConn[s]
    <3>1. s2r'[t] = s2r[t] /\ ~gRouteConn'[t] /\ link'[t] = link[t] /\ routeMap' = routeMap
      BY <2>0, <2>3 DEF Report
    <3> QED
      BY <1>0, <3>1, UnreportedKeeps
  <2> QED
    BY <2>1, <2>2, <2>3
<1> QED
  BY <1>1, <1>2, <1>3, <1>4, <1>5, <1>6, <1>7, <1>8 DEF ImNext

\* A step of the route_server.
LEMMA LinkInvRoute ==
  ASSUME RouteInv, RouteNext, UNCHANGED <<imVars, clientVars>>, NEW t \in Servers
  PROVE  LinkInv(t)'
<1>0. /\ LinkInv(t)
      /\ s2r \in [Servers -> Seq(Packets)]
      /\ routeMap \in [UserIds -> Servers \union {Nil}]
  BY DEF RouteInv, MapInv, TypeOK, NetTypeOK, RouteTypeOK
<1>q. ASSUME s2r'[t] = s2r[t], link'[t] = link[t],
             \A u \in UserIds : routeMap'[u] = t => routeMap[u] = t
      PROVE  LinkInv(t)'
  BY <1>0, <1>q, QuietKeeps DEF Quiet, imVars
<1>1. ASSUME NEW s \in Servers, RouteAccept(s) PROVE LinkInv(t)'
  BY <1>1, <1>q DEF RouteAccept, channels
<1>2. CASE RouteStart
  BY <1>2, <1>q DEF RouteStart, channels, endpoints
<1>3. ASSUME NEW s \in Servers, RouteRead(s) PROVE LinkInv(t)'
  <2> DEFINE p == Head(s2r[s])
  <2>1. PICK rest \in Drained(s2r[s]) : s2r' = [s2r EXCEPT ![s] = rest]
    BY <1>3 DEF RouteRead
  <2>2. p \in Packets /\ link' = link /\ link[s] # "CONNECTING" /\ s2r[s] # <<>>
    BY <1>0, <1>3, DrainedShape DEF RouteRead, endpoints
  <2>3. \/ \E v \in UserIds : p = Online(v) /\ routeMap' = InsertIfAbsent(routeMap, v, s)
        \/ \E v \in UserIds : p = Offline(v) /\ routeMap' = [routeMap EXCEPT ![v] = Nil]
        \/ p.type = "msg" /\ routeMap' = routeMap
    <3>1. CASE RouteHandleOnline(s, p)
      BY <2>2, <3>1, PacketShape DEF RouteHandleOnline
    <3>2. CASE RouteHandleOffline(p)
      BY <2>2, <3>2, PacketShape DEF RouteHandleOffline
    <3>3. CASE RouteHandleMsg(p)
      BY <3>3 DEF RouteHandleMsg
    <3> QED
      BY <1>3, <3>1, <3>2, <3>3 DEF RouteRead
  <2>4. CASE t = s
    <3>1. s2r'[t] = rest
      BY <1>0, <2>1, <2>4
    <3>2. gRouteConn' = gRouteConn /\ userMap' = userMap
      BY DEF imVars
    <3> QED
      BY <1>0, <2>1, <2>2, <2>3, <2>4, <3>1, <3>2, ReadKeeps
  <2>5. CASE t # s
    <3>1. \A u \in UserIds : routeMap'[u] = t => routeMap[u] = t
      <4> HIDE DEF p
      <4> QED
        BY <1>0, <2>3, <2>5, NetAssumption DEF InsertIfAbsent
    <3>2. s2r'[t] = s2r[t]
      BY <1>0, <2>1, <2>5
    <3> QED
      BY <1>q, <2>2, <3>1, <3>2
  <2> QED
    BY <2>4, <2>5
<1>4. ASSUME NEW s \in Servers, RouteClose(s) PROVE LinkInv(t)'
  <2>0. Nil \notin Servers
    BY NetAssumption
  <2>1. CASE t = s
    <3>1. s2r'[t] = <<>> /\ \A u \in UserIds : routeMap'[u] # t
      BY <1>0, <1>4, <2>0, <2>1 DEF RouteClose, WithoutServer
    <3> QED
      BY <1>0, <3>1, EmptyKeeps
  <2>2. CASE t # s
    <3>1. \A u \in UserIds : routeMap'[u] = t => routeMap[u] = t
      BY <1>4, <2>0 DEF RouteClose, WithoutServer
    <3>2. s2r'[t] = s2r[t] /\ link' = link
      BY <1>0, <1>4, <2>2 DEF RouteClose
    <3> QED
      BY <1>q, <3>1, <3>2
  <2> QED
    BY <2>1, <2>2
<1>5. ASSUME NEW keep, RouteCrash(keep) PROVE LinkInv(t)'
  <2>1. \A u \in UserIds : routeMap'[u] # t
    BY <1>5, NetAssumption DEF RouteCrash
  <2>2. (s2r'[t] = <<>> \/ s2r'[t] = s2r[t]) /\ link' = link
    BY <1>5 DEF RouteCrash
  <2> QED
    BY <1>0, <1>q, <2>1, <2>2, EmptyKeeps
<1> QED
  BY <1>1, <1>2, <1>3, <1>4, <1>5 DEF RouteNext

LEMMA RouteInvNext ==
  ASSUME RouteInv, [Next]_vars
  PROVE  RouteInv'
<1>1. MapInv' /\ NoDanglingRoute'
  BY MapNext, NoDanglingRouteNext DEF RouteInv, MapInv
<1>2. ASSUME NEW t \in Servers PROVE LinkInv(t)'
  <2>1. CASE UNCHANGED <<s2r, link, imVars, routeMap>>
    BY <2>1, QuietKeeps DEF Quiet, imVars, RouteInv
  <2>2. CASE ClientNext /\ UNCHANGED <<imVars, routeMap>>
    BY <2>1, <2>2 DEF ClientNext, CliConnect, CliConfirm, CliTimer, CliRead, CliClose,
                      CliKill, channels, endpoints
  <2> QED
    BY <2>1, <2>2, LinkInvIm, LinkInvRoute DEF Next, vars, channels, endpoints
<1> QED
  BY <1>1, <1>2 DEF RouteInv

THEOREM RouteInvariant == Spec => []RouteInv
<1>1. RouteInv /\ [Next]_vars => RouteInv'
  BY RouteInvNext
<1> QED
  BY <1>1, RouteInvInit, PTL DEF Spec

-----------------------------------------------------------------------------

\* CRouteConn::Close takes every user of its connection out of
\* g_route_user_map: RouteConn.cpp HandleMsg never finds a deleted CRouteConn.
THEOREM NoDanglingRouteHolds == Spec => []NoDanglingRoute
<1>1. RouteInv => NoDanglingRoute
  BY DEF RouteInv
<1> QED
  BY <1>1, RouteInvariant, PTL

\* The table of the route_server is never wrong for longer than the reports
\* already under way need to arrive.
THEOREM RouteEntryBackedHolds == Spec => []RouteEntryBacked
<1>1. RouteInv => RouteEntryBacked
  <2> SUFFICES ASSUME RouteInv, NEW u \in UserIds, routeMap[u] # Nil, gRouteConn[routeMap[u]]
               PROVE  LET s == routeMap[u] IN
                        \/ userMap[s][u] # Nil
                        \/ \E i \in 1..Len(s2r[s]) : s2r[s][i] = Offline(u)
    BY DEF RouteEntryBacked
  <2>1. routeMap[u] \in Servers
    BY DEF RouteInv, MapInv, TypeOK, RouteTypeOK
  <2>2. EntryBacked(routeMap[u])
    BY <2>1 DEF RouteInv, LinkInv
  <2> QED
    BY <2>2 DEF EntryBacked, At
<1> QED
  BY <1>1, RouteInvariant, PTL

\* A message never goes back to the im_server it came from, so no message goes
\* round between an im_server and the route_server.
THEOREM NoEchoHolds == Spec => []NoEcho
<1>1. RouteInv => NoEcho
  <2> SUFFICES ASSUME RouteInv, NEW s \in Servers, s2r[s] # <<>>, Head(s2r[s]).type = "msg"
               PROVE  routeMap[Head(s2r[s]).to] # s
    BY DEF NoEcho
  <2> DEFINE p == Head(s2r[s])
  <2>1. /\ s2r[s] \in Seq(Packets) /\ LinkInv(s)
    BY DEF RouteInv, MapInv, TypeOK, NetTypeOK
  <2>2. p = s2r[s][1] /\ 1 \in At(s2r[s]) /\ p \in Packets
    BY <2>1 DEF At
  <2>3. p.to \in UserIds
    BY <2>2, PacketShape
  <2>4. \A k \in At(s2r[s]) : ~(k < 1)
    BY DEF At
  <2>5. CASE p.to = NoUser
    BY <2>1, <2>5 DEF LinkInv, NoZeroLogin
  <2>6. CASE p.to \in Users
    BY <2>1, <2>2, <2>4, <2>6 DEF LinkInv, MsgUnrouted
  <2> QED
    BY <2>3, <2>5, <2>6 DEF UserIds
<1> QED
  BY <1>1, RouteInvariant, PTL
=============================================================================
