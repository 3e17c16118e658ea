--------------------------- MODULE ImOrder_proof ---------------------------
(***************************************************************************)
(* Theorems about the way of a message: ImSystem implements Messenger.     *)
(*                                                                         *)
(* The lemmas of the first part say what an operation on a channel does to *)
(* the messages in it, and those of the second that every step takes at    *)
(* most one message from one place to the next.  From there on only places *)
(* and sets of messages matter, no sequences.                              *)
(***************************************************************************)
EXTENDS ImSystem_proof

-----------------------------------------------------------------------------
(* The messages of a channel.                                              *)

LEMMA MsgsAt ==
  ASSUME NEW ch
  PROVE  \A m : m \in MsgsIn(ch) <=> \E i \in At(ch) : ch[i] = m /\ m.type = "msg"
BY DEF MsgsIn, At

LEMMA MessageKinds ==
  ASSUME NEW p \in Packets
  PROVE  /\ p.type = "msg" => p \in Messages
         /\ p \in Messages => /\ p.type = "msg" /\ p.id \in Nat
                              /\ p.from \in Conns /\ p.to \in UserIds
         /\ p # Eof \/ p.type # "msg"
<1>1. p \in Messages => /\ p.type = "msg" /\ p.id \in Nat
                        /\ p.from \in Conns /\ p.to \in UserIds
  BY NetAssumption DEF Messages, Msg
<1> QED
  BY <1>1, PacketShape, PacketKinds

LEMMA MsgsAreMessages ==
  ASSUME NEW ch \in Seq(Packets)
  PROVE  MsgsIn(ch) \subseteq Messages
<1>1. \A i \in At(ch) : ch[i] \in Packets
  BY DEF At
<1> QED
  BY <1>1, MsgsAt, MessageKinds

\* The channel after the step has no message it did not have, and those it has
\* in the same order.
Shrunk(new, old) ==
  /\ MsgsIn(new) \subseteq MsgsIn(old)
  /\ Ordered(old) => Ordered(new)

LEMMA ShrunkSame == \A ch : Shrunk(ch, ch)
BY DEF Shrunk

LEMMA ShrunkNothing ==
  ASSUME NEW ch
  PROVE  Shrunk(<<>>, ch)
<1>1. At(<<>>) = {}
  BY DEF At
<1> QED
  BY <1>1, MsgsAt DEF Shrunk, Ordered

LEMMA ShrunkHangup ==
  ASSUME NEW ch \in Seq(Packets), NEW n \in Nat
  PROVE  Shrunk(Hangup(ch, n), ch)
<1> DEFINE new == Hangup(ch, n)
           k == Len(new)
<1>1. /\ k \in 1..(Len(ch) + 1) /\ new[k] = Eof
      /\ \A i \in 1..(k - 1) : new[i] = ch[i]
  BY HangupShape
<1>2. Len(ch) \in Nat /\ Eof.type # "msg"
  BY PacketKinds
<1> HIDE DEF new
<1>3. At(new) = 1..k
  BY DEF At
<1> HIDE DEF k
<1>4. \A i \in At(new) : new[i].type = "msg" => i \in At(ch) /\ new[i] = ch[i]
  <2> SUFFICES ASSUME NEW i \in 1..k, new[i].type = "msg"
               PROVE  i \in 1..Len(ch) /\ new[i] = ch[i]
    BY <1>3 DEF At
  <2>1. i # k
    BY <1>1, <1>2
  <2>2. i \in 1..(k - 1) /\ i \in 1..Len(ch)
    BY <1>1, <1>2, <2>1
  <2> QED
    BY <1>1, <2>2
<1>5. MsgsIn(new) \subseteq MsgsIn(ch)
  BY <1>4, MsgsAt
<1>6. Ordered(ch) => Ordered(new)
  BY <1>4 DEF Ordered
<1> QED
  BY <1>5, <1>6 DEF Shrunk, new

LEMMA ShrunkDrained ==
  ASSUME NEW ch \in Seq(Packets), ch # <<>>, NEW rest \in Drained(ch)
  PROVE  Shrunk(rest, ch)
<1>1. /\ Len(rest) < Len(ch) /\ rest \in Seq(Packets)
      /\ \A i \in 1..Len(rest) : rest[i] = ch[i + 1]
  BY DrainedShape
<1>2. Len(rest) \in Nat /\ Len(ch) \in Nat
  BY <1>1
<1>3. \A i \in At(rest) : i \in Nat /\ i + 1 \in At(ch) /\ rest[i] = ch[i + 1]
  BY <1>1, <1>2 DEF At
<1>4. MsgsIn(rest) \subseteq MsgsIn(ch)
  BY <1>3, MsgsAt
<1>5. Ordered(ch) => Ordered(rest)
  BY <1>3 DEF Ordered
<1> QED
  BY <1>4, <1>5 DEF Shrunk

\* A report changes nothing.
LEMMA ShrunkReport ==
  ASSUME NEW ch \in Seq(Packets), NEW p \in Packets, p.type # "msg"
  PROVE  Shrunk(Append(ch, p), ch)
<1> DEFINE n == Len(ch)
           new == Append(ch, p)
<1>1. /\ n \in Nat /\ Len(new) = n + 1 /\ new[n + 1] = p
      /\ \A i \in 1..n : new[i] = ch[i]
  BY AppendShape
<1> HIDE DEF n, new
<1>2. \A i \in At(new) : new[i].type = "msg" => i \in At(ch) /\ new[i] = ch[i]
  BY <1>1 DEF At, n
<1>3. MsgsIn(new) \subseteq MsgsIn(ch)
  BY <1>2, MsgsAt
<1>4. Ordered(ch) => Ordered(new)
  BY <1>2 DEF Ordered
<1> QED
  BY <1>3, <1>4 DEF Shrunk, new

\* A message is appended.
LEMMA MsgAppended ==
  ASSUME NEW ch \in Seq(Packets), NEW p \in Messages
  PROVE  /\ MsgsIn(Append(ch, p)) = MsgsIn(ch) \union {p}
         /\ Ordered(ch) /\ Before(MsgsIn(ch), {p}) => Ordered(Append(ch, p))
<1> DEFINE n == Len(ch)
           new == Append(ch, p)
<1>0. p \in Packets /\ p.type = "msg"
  BY PacketKinds, MessageKinds
<1>1. /\ n \in Nat /\ Len(new) = n + 1 /\ new[n + 1] = p
      /\ \A i \in 1..n : new[i] = ch[i]
  BY <1>0, AppendShape
<1> HIDE DEF new
<1>2. /\ At(new) = At(ch) \union {n + 1} /\ n + 1 \notin At(ch)
      /\ new[n + 1] = p /\ \A i \in At(ch) : new[i] = ch[i]
      /\ \A i \in At(ch) : i \in Nat /\ i < n + 1
  BY <1>1 DEF At
<1> HIDE DEF n
<1>3. MsgsIn(new) = MsgsIn(ch) \union {p}
  BY <1>0, <1>2, MsgsAt
<1>4. ASSUME Ordered(ch), Before(MsgsIn(ch), {p})
      PROVE  Ordered(new)
  <2> SUFFICES ASSUME NEW i \in At(new), NEW j \in At(new), i < j,
                      new[i].type = "msg", new[j].type = "msg", new[i].from = new[j].from
               PROVE  new[i].id < new[j].id
    BY DEF Ordered
  <2>1. i \in At(ch)
    BY <1>1, <1>2
  <2>2. CASE j \in At(ch)
    BY <1>2, <1>4, <2>1, <2>2 DEF Ordered
  <2>3. CASE j = n + 1
    <3>1. new[i] \in MsgsIn(ch) /\ new[j] = p
      BY <1>2, <2>1, <2>3, MsgsAt
    <3> QED
      BY <1>4, <3>1 DEF Before
  <2> QED
    BY <1>2, <2>2, <2>3
<1> QED
  BY <1>3, <1>4 DEF new

\* A message is read.
LEMMA MsgRead ==
  ASSUME NEW ch \in Seq(Packets), ch # <<>>, NEW rest \in Drained(ch),
         Head(ch).type = "msg", Ordered(ch)
  PROVE  /\ Head(ch) \in Messages /\ Head(ch) \in MsgsIn(ch)
         /\ MsgsIn(rest) = MsgsIn(ch) \ {Head(ch)}
         /\ Before({Head(ch)}, MsgsIn(rest))
<1> DEFINE p == Head(ch)
<1>1. /\ p = ch[1] /\ p \in Packets /\ Len(rest) < Len(ch)
      /\ \A i \in 1..Len(rest) : rest[i] = ch[i + 1]
      /\ \A i \in 2..Len(ch) : ch[i] # Eof => i - 1 \in 1..Len(rest)
      /\ rest \in Seq(Packets)
  BY DrainedShape
<1>2. Len(rest) \in Nat /\ Len(ch) \in Nat /\ \A i \in At(ch) : ch[i] \in Packets
  BY <1>1 DEF At
<1>3. p \in Messages /\ p.id \in Nat /\ p.type = "msg"
  BY <1>1, MessageKinds
<1> HIDE DEF p
<1>4. 1 \in At(ch)
  BY <1>1, <1>2 DEF At
<1>5. \A i \in At(rest) : i \in Nat /\ i + 1 \in At(ch) /\ 1 < i + 1 /\ rest[i] = ch[i + 1]
  BY <1>1, <1>2 DEF At
<1>6. \A i \in At(ch) : i # 1 /\ ch[i].type = "msg" => i - 1 \in At(rest) /\ rest[i - 1] = ch[i]
  <2> SUFFICES ASSUME NEW i \in At(ch), i # 1, ch[i].type = "msg"
               PROVE  i - 1 \in At(rest) /\ rest[i - 1] = ch[i]
    OBVIOUS
  <2>1. i \in 2..Len(ch)
    BY <1>2 DEF At
  <2>2. ch[i] # Eof
    BY PacketKinds
  <2>3. i - 1 \in 1..Len(rest) /\ (i - 1) + 1 = i
    BY <1>1, <2>1, <2>2
  <2> QED
    BY <1>1, <2>3 DEF At
<1>7. p \in MsgsIn(ch)
  BY <1>1, <1>3, <1>4, MsgsAt
<1>8. ASSUME NEW i \in At(rest), rest[i].type = "msg", rest[i].from = p.from
      PROVE  p.id < rest[i].id
  BY <1>1, <1>3, <1>4, <1>5, <1>8 DEF Ordered
<1>9. Before({p}, MsgsIn(rest))
  BY <1>8, MsgsAt DEF Before
<1>10. p \notin MsgsIn(rest)
  BY <1>3, <1>9 DEF Before
<1>11. MsgsIn(rest) \subseteq MsgsIn(ch)
  BY <1>5, MsgsAt
<1>12. \A m \in MsgsIn(ch) : m = p \/ m \in MsgsIn(rest)
  BY <1>1, <1>6, MsgsAt
<1> QED
  BY <1>3, <1>7, <1>9, <1>10, <1>11, <1>12 DEF p

-----------------------------------------------------------------------------
(* Places, and what a step may do to them.                                 *)

LEMMA PlaceOf ==
  /\ \A c \in Conns : /\ <<"c2s", c>> \in Places /\ <<"s2c", c>> \in Places
                      /\ <<"inbox", c>> \in Places
  /\ \A s \in Servers : <<"s2r", s>> \in Places /\ <<"r2s", s>> \in Places
  /\ \A x \in Places : \/ \E c \in Conns : \/ x = <<"c2s", c>>
                                           \/ x = <<"s2c", c>>
                                           \/ x = <<"inbox", c>>
                       \/ \E s \in Servers : x = <<"s2r", s>> \/ x = <<"r2s", s>>
BY DEF Places

LEMMA ContentOf ==
  /\ \A c : /\ Content(<<"c2s", c>>) = c2s[c] /\ Content(<<"c2s", c>>)' = c2s'[c]
            /\ Content(<<"s2c", c>>) = s2c[c] /\ Content(<<"s2c", c>>)' = s2c'[c]
            /\ Content(<<"inbox", c>>) = inbox[c] /\ Content(<<"inbox", c>>)' = inbox'[c]
  /\ \A s : /\ Content(<<"s2r", s>>) = s2r[s] /\ Content(<<"s2r", s>>)' = s2r'[s]
            /\ Content(<<"r2s", s>>) = r2s[s] /\ Content(<<"r2s", s>>)' = r2s'[s]
BY DEF Content

LEMMA ContentType ==
  ASSUME TypeOK
  PROVE  \A x \in Places : Content(x) \in Seq(Packets)
<1>1. /\ \A c \in Conns : c2s[c] \in Seq(Packets) /\ s2c[c] \in Seq(Packets)
      /\ \A s \in Servers : s2r[s] \in Seq(Packets) /\ r2s[s] \in Seq(Packets)
  BY DEF TypeOK, NetTypeOK
<1>2. \A c \in Conns : inbox[c] \in Seq(Packets)
  <2>1. \A c \in Conns : inbox[c] \in Seq(Messages)
    BY DEF TypeOK, ClientTypeOK
  <2>2. Messages \subseteq Packets
    BY PacketKinds
  <2> QED
    BY <2>1, <2>2
<1> QED
  BY <1>1, <1>2, PlaceOf, ContentOf

Took(old, new, m) ==
  /\ m \in MsgsIn(old) /\ MsgsIn(new) = MsgsIn(old) \ {m}
  /\ Ordered(new) /\ Before({m}, MsgsIn(new))

Gained(old, new, m) ==
  /\ MsgsIn(new) = MsgsIn(old) \union {m}
  /\ Ordered(old) /\ Before(MsgsIn(old), {m}) => Ordered(new)

\* Nothing moves; messages may be lost.
AllShrunk == \A z \in Places : Shrunk(Content(z)', Content(z))

Lost == AllShrunk /\ UNCHANGED <<nextId, inbox>>

Posted(c, to) ==
  LET x == <<"c2s", c>>
      m == Msg(c, to, nextId)
  IN
  /\ nextId <= MaxMsgs /\ nextId' = nextId + 1 /\ UNCHANGED inbox
  /\ Gained(Content(x), Content(x)', m)
  /\ \A z \in Places \ {x} : Content(z)' = Content(z)

\* One step on the way of message m: to a session on the same im_server, to the
\* route_server, from it, to a session, to its user.
Way(x, y, m) ==
  \/ x[1] = "c2s" /\ y[1] = "s2c" /\ ServerOf[x[2]] = ServerOf[y[2]] /\ m.to = UserOf[y[2]]
  \/ x[1] = "c2s" /\ y = <<"s2r", ServerOf[x[2]]>>
  \/ x[1] = "s2r" /\ y[1] = "r2s" /\ x[2] # y[2] /\ m.to # NoUser
  \/ x[1] = "r2s" /\ y[1] = "s2c" /\ ServerOf[y[2]] = x[2] /\ m.to = UserOf[y[2]]
  \/ x[1] = "s2c" /\ y = <<"inbox", x[2]>>

Moved(x, y, m) ==
  /\ x # y /\ m \in Messages /\ Way(x, y, m)
  /\ Took(Content(x), Content(x)', m)
  /\ Gained(Content(y), Content(y)', m)
  /\ \A z \in Places \ {x, y} : Content(z)' = Content(z)
  /\ UNCHANGED nextId
  /\ inbox' = IF y[1] = "inbox" THEN [inbox EXCEPT ![y[2]] = Append(@, m)] ELSE inbox

MsgStep ==
  \/ Lost
  \/ \E c \in Conns, to \in Targets : Posted(c, to)
  \/ \E x \in Places, y \in Places, m \in Messages : Moved(x, y, m)

\* A message read from x and written to y.
LEMMA Transfer ==
  ASSUME TypeOK, OrderInv, NEW x \in Places, NEW y \in Places, x # y,
         Content(x) # <<>>, NEW m, m = Head(Content(x)), m.type = "msg",
         Content(x)' \in Drained(Content(x)),
         Content(y)' = Append(Content(y), m),
         \A z \in Places \ {x, y} : Content(z)' = Content(z),
         Way(x, y, m), UNCHANGED nextId,
         inbox' = IF y[1] = "inbox" THEN [inbox EXCEPT ![y[2]] = Append(@, m)] ELSE inbox
  PROVE  MsgStep
<1>1. Content(x) \in Seq(Packets) /\ Content(y) \in Seq(Packets) /\ Ordered(Content(x))
  BY ContentType DEF OrderInv
<1>2. m \in Messages /\ Took(Content(x), Content(x)', m)
  <2> DEFINE old == Content(x)
             new == Content(x)'
  <2>1. old \in Seq(Packets) /\ old # <<>> /\ new \in Drained(old) /\ Ordered(old)
        /\ m = Head(old)
    BY <1>1
  <2> HIDE DEF old, new
  <2>2. /\ m \in Messages /\ m \in MsgsIn(old) /\ MsgsIn(new) = MsgsIn(old) \ {m}
        /\ Before({m}, MsgsIn(new))
    BY <2>1, MsgRead
  <2>3. Ordered(new)
    BY <2>1, ShrunkDrained DEF Shrunk
  <2> QED
    BY <2>2, <2>3 DEF Took, old, new
<1>3. Gained(Content(y), Content(y)', m)
  BY <1>1, <1>2, MsgAppended DEF Gained
<1>4. Moved(x, y, m)
  BY <1>2, <1>3 DEF Moved
<1> QED
  BY <1>2, <1>4 DEF MsgStep

\* A step that only takes away.
LEMMA Losing ==
  ASSUME UNCHANGED <<nextId, inbox>>,
         \A c \in Conns : Shrunk(c2s'[c], c2s[c]) /\ Shrunk(s2c'[c], s2c[c]),
         \A s \in Servers : Shrunk(s2r'[s], s2r[s]) /\ Shrunk(r2s'[s], r2s[s])
  PROVE  MsgStep
<1>2. \A c \in Conns : Shrunk(inbox'[c], inbox[c])
  BY ShrunkSame
<1>3. AllShrunk
  <2> SUFFICES ASSUME NEW z \in Places
               PROVE  Shrunk(Content(z)', Content(z))
    BY DEF AllShrunk
  <2>1. ASSUME NEW c \in Conns, z = <<"c2s", c>> PROVE Shrunk(Content(z)', Content(z))
    BY <2>1, ContentOf
  <2>2. ASSUME NEW c \in Conns, z = <<"s2c", c>> PROVE Shrunk(Content(z)', Content(z))
    BY <2>2, ContentOf
  <2>3. ASSUME NEW c \in Conns, z = <<"inbox", c>> PROVE Shrunk(Content(z)', Content(z))
    BY <1>2, <2>3, ContentOf
  <2>4. ASSUME NEW s \in Servers, z = <<"s2r", s>> PROVE Shrunk(Content(z)', Content(z))
    BY <2>4, ContentOf
  <2>5. ASSUME NEW s \in Servers, z = <<"r2s", s>> PROVE Shrunk(Content(z)', Content(z))
    BY <2>5, ContentOf
  <2> QED
    BY <2>1, <2>2, <2>3, <2>4, <2>5, PlaceOf
<1> QED
  BY <1>3 DEF MsgStep, Lost

LEMMA ClientMsgStep ==
  ASSUME SystemInv, ClientNext, UNCHANGED <<imVars, routeMap>>
  PROVE  MsgStep
<1>0. /\ TypeOK /\ OrderInv
      /\ c2s \in [Conns -> Seq(Packets)] /\ s2c \in [Conns -> Seq(Packets)]
      /\ inbox \in [Conns -> Seq(Messages)]
      /\ nextId \in 1..(MaxMsgs + 1)
  BY DEF SystemInv, RouteInv, MapInv, TypeOK, NetTypeOK, ClientTypeOK
<1>q. ASSUME UNCHANGED <<nextId, inbox, s2r, r2s>>,
             \A c \in Conns : Shrunk(c2s'[c], c2s[c]) /\ Shrunk(s2c'[c], s2c[c])
      PROVE  MsgStep
  BY <1>q, ShrunkSame, Losing
<1>1. ASSUME NEW c \in Conns, CliConnect(c) PROVE MsgStep
  BY <1>1, <1>q, ShrunkSame DEF CliConnect, channels, clientVars
<1>2. ASSUME NEW c \in Conns, CliConfirm(c) PROVE MsgStep
  <2>1. Shrunk(Append(c2s[c], Online(UserOf[c])), c2s[c])
    <3>1. UserOf[c] \in UserIds
      BY NetAssumption DEF UserIds
    <3>2. Online(UserOf[c]) \in Packets /\ Online(UserOf[c]).type # "msg"
      BY <3>1, PacketKinds
    <3> QED
      BY <1>0, <3>2, ShrunkReport
  <2> QED
    BY <1>0, <1>2, <1>q, <2>1, ShrunkSame DEF CliConfirm, clientVars
<1>3. ASSUME NEW c \in Conns, NEW to \in Targets, CliTimer(c, to) PROVE MsgStep
  <2> DEFINE x == <<"c2s", c>>
             m == Msg(c, to, nextId)
  <2>1. m \in Messages
    <3>1. nextId \in 1..MaxMsgs /\ to \in UserIds
      BY <1>0, <1>3, NetAssumption DEF CliTimer, UserIds
    <3> QED
      BY <3>1, MsgShape
  <2>2. /\ c2s'[c] = Append(c2s[c], m) /\ \A d \in Conns \ {c} : c2s'[d] = c2s[d]
        /\ nextId <= MaxMsgs /\ nextId' = nextId + 1
        /\ UNCHANGED <<s2c, s2r, r2s, inbox>>
    BY <1>0, <1>3 DEF CliTimer
  <2>3. Gained(c2s[c], c2s'[c], m)
    <3>1. c2s[c] \in Seq(Packets) /\ c2s'[c] = Append(c2s[c], m)
      BY <1>0, <2>2
    <3> HIDE DEF m
    <3>2. /\ MsgsIn(Append(c2s[c], m)) = MsgsIn(c2s[c]) \union {m}
          /\ Ordered(c2s[c]) /\ Before(MsgsIn(c2s[c]), {m}) => Ordered(Append(c2s[c], m))
      BY <2>1, <3>1, MsgAppended, Zenon
    <3> QED
      BY <3>1, <3>2, Zenon DEF Gained
  <2>4. Gained(Content(x), Content(x)', m)
    BY <2>3, ContentOf
  <2>5. \A z \in Places \ {x} : Content(z)' = Content(z)
    BY <2>2, PlaceOf, ContentOf
  <2>6. Posted(c, to)
    BY <2>2, <2>4, <2>5 DEF Posted
  <2> QED
    BY <2>6 DEF MsgStep
<1>4. ASSUME NEW c \in Conns, CliRead(c) PROVE MsgStep
  <2> DEFINE x == <<"s2c", c>>
             y == <<"inbox", c>>
             m == Head(s2c[c])
  <2>1. PICK rest \in Drained(s2c[c]) : s2c' = [s2c EXCEPT ![c] = rest]
    BY <1>4 DEF CliRead
  <2>2. /\ s2c'[c] = rest /\ \A d \in Conns \ {c} : s2c'[d] = s2c[d]
        /\ inbox'[c] = Append(inbox[c], m) /\ \A d \in Conns \ {c} : inbox'[d] = inbox[d]
        /\ UNCHANGED <<c2s, s2r, r2s, nextId>> /\ s2c[c] # <<>> /\ m.type = "msg"
        /\ inbox' = [inbox EXCEPT ![c] = Append(@, m)]
    BY <1>0, <1>4, <2>1 DEF CliRead
  <2>3. /\ x \in Places /\ y \in Places /\ x # y /\ Content(x) = s2c[c]
        /\ Content(x)' = rest /\ Content(y)' = Append(Content(y), m)
    BY <2>2, PlaceOf, ContentOf
  <2>4. \A z \in Places \ {x, y} : Content(z)' = Content(z)
    BY <2>2, PlaceOf, ContentOf
  <2>5. Way(x, y, m)
    BY DEF Way
  <2>6. inbox' = IF y[1] = "inbox" THEN [inbox EXCEPT ![y[2]] = Append(@, m)] ELSE inbox
    BY <2>2
  <2> HIDE DEF x, y, m
  <2>7. m = Head(Content(x))
    BY <2>3 DEF m
  <2> QED
    BY <1>0, <2>1, <2>2, <2>3, <2>4, <2>5, <2>6, <2>7, Transfer
<1>5. ASSUME NEW c \in Conns, CliClose(c) PROVE MsgStep
  BY <1>0, <1>5, <1>q, ShrunkSame, ShrunkNothing DEF CliClose, clientVars
<1>6. ASSUME NEW c \in Conns, NEW keep \in 0..Len(c2s[c]), CliKill(c, keep) PROVE MsgStep
  <2>1. keep \in Nat
    BY <1>0
  <2>2. Shrunk(Hangup(c2s[c], keep), c2s[c])
    BY <1>0, <2>1, ShrunkHangup
  <2> QED
    BY <1>0, <1>6, <1>q, <2>2, ShrunkSame, ShrunkNothing DEF CliKill, clientVars
<1> QED
  BY <1>1, <1>2, <1>3, <1>4, <1>5, <1>6 DEF ClientNext

\* The route_server passes a message on.
LEMMA RouteTransfer ==
  ASSUME TypeOK, OrderInv, NEW s \in Servers, NEW t \in Servers, s2r[s] # <<>>,
         NEW rest \in Drained(s2r[s]), s2r' = [s2r EXCEPT ![s] = rest],
         r2s' = [r2s EXCEPT ![t] = Append(@, Head(s2r[s]))],
         Head(s2r[s]).type = "msg", Head(s2r[s]).to # NoUser, t # s,
         UNCHANGED <<c2s, s2c, nextId, inbox>>
  PROVE  MsgStep
<1> DEFINE x == <<"s2r", s>>
           y == <<"r2s", t>>
           m == Head(s2r[s])
<1>1. s2r \in [Servers -> Seq(Packets)] /\ r2s \in [Servers -> Seq(Packets)]
  BY DEF TypeOK, NetTypeOK
<1>2. /\ s2r'[s] = rest /\ \A w \in Servers \ {s} : s2r'[w] = s2r[w]
      /\ r2s'[t] = Append(r2s[t], m) /\ \A w \in Servers \ {t} : r2s'[w] = r2s[w]
  BY <1>1
<1>3. m.type = "msg" /\ Way(x, y, m)
  BY DEF Way
<1>4. /\ x \in Places /\ y \in Places /\ x # y
      /\ Content(x) = s2r[s] /\ Content(x)' = rest
      /\ Content(y) = r2s[t] /\ Content(y)' = r2s'[t]
  <2>1. x \in Places /\ y \in Places /\ x # y
    BY PlaceOf
  <2>2. Content(x) = s2r[s] /\ Content(x)' = rest
    BY <1>2, ContentOf
  <2>3. Content(y) = r2s[t] /\ Content(y)' = r2s'[t]
    BY ContentOf
  <2> QED
    BY <2>1, <2>2, <2>3
<1>5. \A z \in Places \ {x, y} : Content(z)' = Content(z)
  BY <1>2, PlaceOf, ContentOf
<1>6. inbox' = IF y[1] = "inbox" THEN [inbox EXCEPT ![y[2]] = Append(@, m)] ELSE inbox
  OBVIOUS
<1>7. m = Head(Content(x)) /\ Content(x) # <<>> /\ Content(y)' = Append(Content(y), m)
      /\ Content(x)' \in Drained(Content(x)) /\ UNCHANGED nextId
  BY <1>2, <1>4
<1> HIDE DEF x, y, m
<1> QED
  BY <1>3, <1>4, <1>5, <1>6, <1>7, Transfer

LEMMA RouteMsgStep ==
  ASSUME SystemInv, RouteNext, UNCHANGED <<imVars, clientVars>>
  PROVE  MsgStep
<1>0. /\ TypeOK /\ OrderInv /\ RouteInv
      /\ s2r \in [Servers -> Seq(Packets)] /\ r2s \in [Servers -> Seq(Packets)]
      /\ routeMap \in [UserIds -> Servers \union {Nil}]
      /\ UNCHANGED <<nextId, inbox>>
  BY DEF SystemInv, RouteInv, MapInv, TypeOK, NetTypeOK, RouteTypeOK, clientVars
<1>q. ASSUME UNCHANGED <<c2s, s2c>>,
             \A s \in Servers : Shrunk(s2r'[s], s2r[s]) /\ Shrunk(r2s'[s], r2s[s])
      PROVE  MsgStep
  BY <1>0, <1>q, ShrunkSame, Losing
<1>1. ASSUME NEW s \in Servers, RouteAccept(s) PROVE MsgStep
  BY <1>1, <1>q, ShrunkSame DEF RouteAccept, channels
<1>2. CASE RouteStart
  BY <1>2, <1>q, ShrunkSame DEF RouteStart, channels
<1>3. ASSUME NEW s \in Servers, RouteRead(s) PROVE MsgStep
  <2> DEFINE p == Head(s2r[s])
  <2>1. PICK rest \in Drained(s2r[s]) : s2r' = [s2r EXCEPT ![s] = rest]
    BY <1>3 DEF RouteRead
  <2>2. /\ p \in Packets /\ s2r[s] # <<>> /\ p = s2r[s][1]
        /\ s2r'[s] = rest /\ \A t \in Servers \ {s} : s2r'[t] = s2r[t]
        /\ UNCHANGED <<c2s, s2c>>
    BY <1>0, <1>3, <2>1, DrainedShape DEF RouteRead
  <2>3. CASE UNCHANGED r2s
    <3>1. \A t \in Servers : Shrunk(s2r'[t], s2r[t])
      BY <1>0, <2>1, <2>2, ShrunkSame, ShrunkDrained
    <3> QED
      BY <1>q, <2>2, <2>3, <3>1, ShrunkSame
  <2>4. CASE RouteHandleMsg(p) /\ routeMap[p.to] # Nil
    <3>1. p.type = "msg" /\ p.to \in UserIds
      BY <2>2, <2>4, PacketShape DEF RouteHandleMsg
    <3>2. PICK t \in Servers : t = routeMap[p.to]
      BY <1>0, <2>4, <3>1
    <3>3. r2s' = [r2s EXCEPT ![t] = Append(@, p)]
      BY <2>4, <3>2 DEF RouteHandleMsg
    <3>4. t # s /\ p.to # NoUser
      <4>1. \A w \in Servers : LinkInv(w)
        BY <1>0 DEF RouteInv
      <4>2. p.to # NoUser
        BY <3>2, <4>1 DEF LinkInv, NoZeroLogin
      <4>3. p.to \in Users /\ 1 \in At(s2r[s]) /\ \A k \in At(s2r[s]) : ~(k < 1)
        <5>1. s2r[s] \in Seq(Packets) /\ s2r[s] # <<>>
          BY <1>0, <2>2
        <5>2. 1 \in At(s2r[s]) /\ \A k \in At(s2r[s]) : ~(k < 1)
          BY <5>1 DEF At
        <5> QED
          BY <3>1, <4>2, <5>2 DEF UserIds
      <4>4. t # s
        BY <2>2, <3>1, <3>2, <4>1, <4>3 DEF LinkInv, MsgUnrouted
      <4> QED
        BY <4>2, <4>4
    <3> QED
      BY <1>0, <2>1, <2>2, <3>1, <3>3, <3>4, RouteTransfer
  <2> QED
    BY <1>3, <2>3, <2>4 DEF RouteRead, RouteHandleOnline, RouteHandleOffline, RouteHandleMsg
<1>4. ASSUME NEW s \in Servers, RouteClose(s) PROVE MsgStep
  BY <1>0, <1>4, <1>q, ShrunkSame, ShrunkNothing DEF RouteClose
<1>5. ASSUME NEW keep \in [Servers -> 0..MaxMsgs], RouteCrash(keep) PROVE MsgStep
  <2>1. \A s \in Servers : Shrunk(Hangup(r2s[s], keep[s]), r2s[s])
    <3>1. \A s \in Servers : keep[s] \in Nat
      BY NetAssumption
    <3> QED
      BY <1>0, <3>1, ShrunkHangup
  <2>2. \A s \in Servers : s2r'[s] = s2r[s] \/ s2r'[s] = <<>>
    BY <1>5 DEF RouteCrash
  <2>3. \A s \in Servers : \/ r2s'[s] = r2s[s] \/ r2s'[s] = <<>>
                           \/ r2s'[s] = Hangup(r2s[s], keep[s])
    BY <1>5 DEF RouteCrash
  <2>4. UNCHANGED <<c2s, s2c>>
    BY <1>5 DEF RouteCrash
  <2> QED
    BY <1>q, <2>1, <2>2, <2>3, <2>4, ShrunkSame, ShrunkNothing
<1> QED
  BY <1>1, <1>2, <1>3, <1>4, <1>5 DEF RouteNext

\* An im_server passes a message on to a session of its own, ...
LEMMA LocalTransfer ==
  ASSUME TypeOK, OrderInv, NEW c \in Conns, NEW d \in Conns, c2s[c] # <<>>,
         NEW rest \in Drained(c2s[c]), c2s' = [c2s EXCEPT ![c] = rest],
         s2c' = [s2c EXCEPT ![d] = Append(@, Head(c2s[c]))],
         Head(c2s[c]).type = "msg", ServerOf[d] = ServerOf[c],
         Head(c2s[c]).to = UserOf[d],
         UNCHANGED <<s2r, r2s, nextId, inbox>>
  PROVE  MsgStep
<1> DEFINE x == <<"c2s", c>>
           y == <<"s2c", d>>
           m == Head(c2s[c])
<1>1. c2s \in [Conns -> Seq(Packets)] /\ s2c \in [Conns -> Seq(Packets)]
  BY DEF TypeOK, NetTypeOK
<1>2. /\ c2s'[c] = rest /\ \A w \in Conns \ {c} : c2s'[w] = c2s[w]
      /\ s2c'[d] = Append(s2c[d], m) /\ \A w \in Conns \ {d} : s2c'[w] = s2c[w]
  BY <1>1
<1>3. m.type = "msg" /\ Way(x, y, m)
  BY DEF Way
<1>4. /\ x \in Places /\ y \in Places /\ x # y
      /\ Content(x) = c2s[c] /\ Content(x)' = rest
      /\ Content(y) = s2c[d] /\ Content(y)' = s2c'[d]
  <2>1. x \in Places /\ y \in Places /\ x # y
    BY PlaceOf
  <2>2. Content(x) = c2s[c] /\ Content(x)' = rest
    BY <1>2, ContentOf
  <2>3. Content(y) = s2c[d] /\ Content(y)' = s2c'[d]
    BY ContentOf
  <2> QED
    BY <2>1, <2>2, <2>3
<1>5. \A z \in Places \ {x, y} : Content(z)' = Content(z)
  BY <1>2, PlaceOf, ContentOf
<1>6. inbox' = IF y[1] = "inbox" THEN [inbox EXCEPT ![y[2]] = Append(@, m)] ELSE inbox
  OBVIOUS
<1>7. m = Head(Content(x)) /\ Content(x) # <<>> /\ Content(y)' = Append(Content(y), m)
      /\ Content(x)' \in Drained(Content(x)) /\ UNCHANGED nextId
  BY <1>2, <1>4
<1> HIDE DEF x, y, m
<1> QED
  BY <1>3, <1>4, <1>5, <1>6, <1>7, Transfer

\* ... to the route_server, ...
LEMMA UpTransfer ==
  ASSUME TypeOK, OrderInv, NEW c \in Conns, NEW s \in Servers, c2s[c] # <<>>,
         NEW rest \in Drained(c2s[c]), c2s' = [c2s EXCEPT ![c] = rest],
         s2r' = [s2r EXCEPT ![s] = Append(@, Head(c2s[c]))],
         Head(c2s[c]).type = "msg", s = ServerOf[c],
         UNCHANGED <<s2c, r2s, nextId, inbox>>
  PROVE  MsgStep
<1> DEFINE x == <<"c2s", c>>
           y == <<"s2r", s>>
           m == Head(c2s[c])
<1>1. c2s \in [Conns -> Seq(Packets)] /\ s2r \in [Servers -> Seq(Packets)]
  BY DEF TypeOK, NetTypeOK
<1>2. /\ c2s'[c] = rest /\ \A w \in Conns \ {c} : c2s'[w] = c2s[w]
      /\ s2r'[s] = Append(s2r[s], m) /\ \A w \in Servers \ {s} : s2r'[w] = s2r[w]
  BY <1>1
<1>3. m.type = "msg" /\ Way(x, y, m)
  BY DEF Way
<1>4. /\ x \in Places /\ y \in Places /\ x # y
      /\ Content(x) = c2s[c] /\ Content(x)' = rest
      /\ Content(y) = s2r[s] /\ Content(y)' = s2r'[s]
  <2>1. x \in Places /\ y \in Places /\ x # y
    BY PlaceOf
  <2>2. Content(x) = c2s[c] /\ Content(x)' = rest
    BY <1>2, ContentOf
  <2>3. Content(y) = s2r[s] /\ Content(y)' = s2r'[s]
    BY ContentOf
  <2> QED
    BY <2>1, <2>2, <2>3
<1>5. \A z \in Places \ {x, y} : Content(z)' = Content(z)
  BY <1>2, PlaceOf, ContentOf
<1>6. inbox' = IF y[1] = "inbox" THEN [inbox EXCEPT ![y[2]] = Append(@, m)] ELSE inbox
  OBVIOUS
<1>7. m = Head(Content(x)) /\ Content(x) # <<>> /\ Content(y)' = Append(Content(y), m)
      /\ Content(x)' \in Drained(Content(x)) /\ UNCHANGED nextId
  BY <1>2, <1>4
<1> HIDE DEF x, y, m
<1> QED
  BY <1>3, <1>4, <1>5, <1>6, <1>7, Transfer

\* ... or from the route_server to a session.
LEMMA DownTransfer ==
  ASSUME TypeOK, OrderInv, NEW s \in Servers, NEW d \in Conns, r2s[s] # <<>>,
         NEW rest \in Drained(r2s[s]), r2s' = [r2s EXCEPT ![s] = rest],
         s2c' = [s2c EXCEPT ![d] = Append(@, Head(r2s[s]))],
         Head(r2s[s]).type = "msg", ServerOf[d] = s,
         Head(r2s[s]).to = UserOf[d],
         UNCHANGED <<c2s, s2r, nextId, inbox>>
  PROVE  MsgStep
<1> DEFINE x == <<"r2s", s>>
           y == <<"s2c", d>>
           m == Head(r2s[s])
<1>1. r2s \in [Servers -> Seq(Packets)] /\ s2c \in [Conns -> Seq(Packets)]
  BY DEF TypeOK, NetTypeOK
<1>2. /\ r2s'[s] = rest /\ \A w \in Servers \ {s} : r2s'[w] = r2s[w]
      /\ s2c'[d] = Append(s2c[d], m) /\ \A w \in Conns \ {d} : s2c'[w] = s2c[w]
  BY <1>1
<1>3. m.type = "msg" /\ Way(x, y, m)
  BY DEF Way
<1>4. /\ x \in Places /\ y \in Places /\ x # y
      /\ Content(x) = r2s[s] /\ Content(x)' = rest
      /\ Content(y) = s2c[d] /\ Content(y)' = s2c'[d]
  <2>1. x \in Places /\ y \in Places /\ x # y
    BY PlaceOf
  <2>2. Content(x) = r2s[s] /\ Content(x)' = rest
    BY <1>2, ContentOf
  <2>3. Content(y) = s2c[d] /\ Content(y)' = s2c'[d]
    BY ContentOf
  <2> QED
    BY <2>1, <2>2, <2>3
<1>5. \A z \in Places \ {x, y} : Content(z)' = Content(z)
  BY <1>2, PlaceOf, ContentOf
<1>6. inbox' = IF y[1] = "inbox" THEN [inbox EXCEPT ![y[2]] = Append(@, m)] ELSE inbox
  OBVIOUS
<1>7. m = Head(Content(x)) /\ Content(x) # <<>> /\ Content(y)' = Append(Content(y), m)
      /\ Content(x)' \in Drained(Content(x)) /\ UNCHANGED nextId
  BY <1>2, <1>4
<1> HIDE DEF x, y, m
<1> QED
  BY <1>3, <1>4, <1>5, <1>6, <1>7, Transfer

LEMMA ImMsgStep ==
  ASSUME SystemInv, ImNext, UNCHANGED <<routeMap, clientVars>>
  PROVE  MsgStep
<1>0. /\ TypeOK /\ OrderInv /\ EntryOfLive
      /\ c2s \in [Conns -> Seq(Packets)] /\ s2c \in [Conns -> Seq(Packets)]
      /\ s2r \in [Servers -> Seq(Packets)] /\ r2s \in [Servers -> Seq(Packets)]
      /\ userMap \in [Servers -> [UserIds -> Conns \union {Route, Nil}]]
      /\ mUserId \in [Conns -> UserIds]
      /\ UNCHANGED <<nextId, inbox>>
  BY DEF SystemInv, RouteInv, MapInv, TypeOK, NetTypeOK, ImTypeOK, clientVars
<1>q. ASSUME \A c \in Conns : Shrunk(c2s'[c], c2s[c]) /\ Shrunk(s2c'[c], s2c[c]),
             \A s \in Servers : Shrunk(s2r'[s], s2r[s]) /\ Shrunk(r2s'[s], r2s[s])
      PROVE  MsgStep
  BY <1>0, <1>q, Losing
<1>r. ASSUME NEW s \in Servers, NEW p \in Packets, p.type # "msg", Report(s, p)
      PROVE  \A t \in Servers : Shrunk(s2r'[t], s2r[t])
  <2>1. Shrunk(Append(s2r[s], p), s2r[s])
    BY <1>0, <1>r, ShrunkReport
  <2> QED
    BY <1>0, <1>r, <2>1, ShrunkSame DEF Report
<1>1. ASSUME NEW s \in Servers, ImStart(s) \/ LinkConfirm(s) PROVE MsgStep
  BY <1>1, <1>q, ShrunkSame DEF ImStart, LinkConfirm, channels
<1>2. ASSUME NEW s \in Servers, LinkClose(s) PROVE MsgStep
  BY <1>0, <1>2, <1>q, ShrunkSame, ShrunkNothing DEF LinkClose
<1>3. ASSUME NEW s \in Servers, LinkRead(s) PROVE MsgStep
  <2> DEFINE p == Head(r2s[s])
             dst == userMap[s][p.to]
  <2>1. PICK rest \in Drained(r2s[s]) : r2s' = [r2s EXCEPT ![s] = rest]
    BY <1>3 DEF LinkRead
  <2>2. /\ p \in Packets /\ p = r2s[s][1] /\ r2s[s] # <<>> /\ HandleMsg(s, p, TRUE)
        /\ UNCHANGED c2s
    BY <1>0, <1>3, DrainedShape DEF LinkRead
  <2>3. p.type = "msg" /\ p.to \in UserIds
    BY <2>2, PacketShape DEF HandleMsg
  <2>4. p.to # NoUser
    <3>1. 1 \in At(r2s[s])
      <4>1. r2s[s] \in Seq(Packets) /\ r2s[s] # <<>>
        BY <1>0, <2>2
      <4> QED
        BY <4>1 DEF At
    <3>2. p \in MsgsIn(r2s[s])
      BY <2>2, <2>3, <3>1, MsgsAt
    <3>3. <<"r2s", s>> \in Places /\ Content(<<"r2s", s>>) = r2s[s]
      BY PlaceOf, ContentOf
    <3> HIDE DEF p
    <3>4. OnItsWay(<<"r2s", s>>, p)
      BY <1>0, <3>2, <3>3 DEF OrderInv
    <3> QED
      BY <3>4 DEF OnItsWay
  <2>5. CASE dst \in Conns
    <3>1. PICK d \in Conns : d = dst
      BY <2>5
    <3>2. ServerOf[d] = s /\ UserOf[d] = p.to
      BY <1>0, <2>3, <3>1 DEF EntryOfLive
    <3>3. s2c' = [s2c EXCEPT ![d] = Append(@, p)] /\ UNCHANGED s2r
      BY <2>2, <3>1, NetAssumption DEF HandleMsg
    <3> QED
      BY <1>0, <2>1, <2>2, <2>3, <3>2, <3>3, DownTransfer
  <2>6. CASE dst = Nil
    <3>1. UNCHANGED <<s2c, s2r>>
      BY <2>2, <2>6, NetAssumption DEF HandleMsg
    <3>2. Shrunk(rest, r2s[s])
      BY <1>0, <2>2, <2>1, ShrunkDrained
    <3> QED
      BY <1>0, <1>q, <2>1, <2>2, <3>1, <3>2, ShrunkSame
  <2>7. dst # Route
    BY <1>0, <2>3, <2>4 DEF EntryOfLive
  <2> QED
    BY <1>0, <2>3, <2>5, <2>6, <2>7
<1>4. ASSUME NEW s \in Servers, NEW keep \in [Conns -> 0..MaxMsgs], NEW n \in 0..Len(s2r[s]),
             ImCrash(s, keep, n)
      PROVE  MsgStep
  <2>1. /\ \A c \in Conns : keep[c] \in Nat
        /\ n \in Nat
    BY <1>0, NetAssumption
  <2>2. /\ \A c \in Conns : Shrunk(Hangup(s2c[c], keep[c]), s2c[c])
        /\ \A k \in {0, n} : Shrunk(Hangup(s2r[s], k), s2r[s])
    BY <1>0, <2>1, ShrunkHangup
  <2>3. /\ \A c \in Conns : \/ s2c'[c] = s2c[c] \/ s2c'[c] = <<>>
                             \/ s2c'[c] = Hangup(s2c[c], keep[c])
        /\ \A c \in Conns : c2s'[c] = c2s[c] \/ c2s'[c] = <<>>
    BY <1>4 DEF ImCrash
  <2>4. /\ \A t \in Servers \ {s} : s2r'[t] = s2r[t]
        /\ \/ s2r'[s] = s2r[s] \/ s2r'[s] = <<>>
           \/ \E k \in {0, n} : s2r'[s] = Hangup(s2r[s], k)
        /\ \A t \in Servers : r2s'[t] = r2s[t] \/ r2s'[t] = <<>>
    BY <1>0, <1>4 DEF ImCrash
  <2>5. \A c \in Conns : Shrunk(c2s'[c], c2s[c]) /\ Shrunk(s2c'[c], s2c[c])
    BY <2>2, <2>3, ShrunkSame, ShrunkNothing
  <2>6. \A t \in Servers : Shrunk(s2r'[t], s2r[t]) /\ Shrunk(r2s'[t], r2s[t])
    BY <2>2, <2>4, ShrunkSame, ShrunkNothing
  <2> QED
    BY <1>q, <2>5, <2>6
<1>5. ASSUME NEW c \in Conns, ImAccept(c) PROVE MsgStep
  BY <1>5, <1>q, ShrunkSame DEF ImAccept, channels
<1>6. ASSUME NEW c \in Conns, ImRead(c) PROVE MsgStep
  <2> DEFINE p == Head(c2s[c])
             s == ServerOf[c]
             dst == userMap[s][p.to]
  <2>1. PICK rest \in Drained(c2s[c]) : c2s' = [c2s EXCEPT ![c] = rest]
    BY <1>6 DEF ImRead
  <2>2. /\ p \in Packets /\ c2s[c] # <<>> /\ s \in Servers /\ UNCHANGED r2s
    BY <1>0, <1>6, DrainedShape, NetAssumption DEF ImRead
  <2>3. ASSUME UNCHANGED s2c, \A t \in Servers : Shrunk(s2r'[t], s2r[t])
        PROVE  MsgStep
    <3>1. Shrunk(rest, c2s[c])
      BY <1>0, <2>1, <2>2, ShrunkDrained
    <3> QED
      BY <1>0, <1>q, <2>1, <2>2, <2>3, <3>1, ShrunkSame
  <2>4. CASE HandleOnlineRequest(c, p)
    <3>1. p.user \in UserIds /\ Report(s, Online(p.user)) /\ UNCHANGED s2c
      BY <2>2, <2>4, PacketShape DEF HandleOnlineRequest
    <3>2. Online(p.user) \in Packets /\ Online(p.user).type # "msg"
      BY <3>1, PacketKinds
    <3> HIDE DEF p, s
    <3> QED
      BY <1>r, <2>2, <2>3, <3>1, <3>2
  <2>5. CASE HandleMsg(s, p, FALSE)
    <3>1. p.type = "msg" /\ p.to \in UserIds
      BY <2>2, <2>5, PacketShape DEF HandleMsg
    <3>2. CASE dst \in Conns
      <4>1. PICK d \in Conns : d = dst
        BY <3>2
      <4>2. ServerOf[d] = s /\ UserOf[d] = p.to
        BY <1>0, <2>2, <3>1, <4>1 DEF EntryOfLive
      <4>3. s2c' = [s2c EXCEPT ![d] = Append(@, p)] /\ UNCHANGED s2r
        BY <2>5, <4>1, NetAssumption DEF HandleMsg
      <4> QED
        BY <1>0, <2>1, <2>2, <3>1, <4>2, <4>3, LocalTransfer
    <3>3. CASE UNCHANGED <<s2c, s2r>>
      BY <2>3, <3>3, ShrunkSame
    <3>4. CASE s2r' = [s2r EXCEPT ![s] = Append(@, p)] /\ UNCHANGED s2c
      BY <1>0, <2>1, <2>2, <3>1, <3>4, UpTransfer
    <3> QED
      BY <2>5, <3>2, <3>3, <3>4 DEF HandleMsg, Report
  <2> QED
    BY <1>6, <2>4, <2>5 DEF ImRead
<1>7. ASSUME NEW c \in Conns, ImOnClose(c) PROVE MsgStep
  <2>1. /\ ServerOf[c] \in Servers /\ Report(ServerOf[c], Offline(mUserId[c]))
        /\ mUserId[c] \in UserIds /\ UNCHANGED r2s
    BY <1>0, <1>7, NetAssumption DEF ImOnClose
  <2>2. Offline(mUserId[c]) \in Packets /\ Offline(mUserId[c]).type # "msg"
    BY <2>1, PacketKinds
  <2>3. \A t \in Servers : Shrunk(s2r'[t], s2r[t])
    BY <1>r, <2>1, <2>2
  <2>4. \A d \in Conns : Shrunk(c2s'[d], c2s[d]) /\ Shrunk(s2c'[d], s2c[d])
    BY <1>0, <1>7, ShrunkSame, ShrunkNothing DEF ImOnClose
  <2> QED
    BY <1>q, <2>1, <2>3, <2>4, ShrunkSame
<1> QED
  BY <1>1, <1>2, <1>3, <1>4, <1>5, <1>6, <1>7 DEF ImNext

\* Every step of the system takes at most one message one place further.
LEMMA MsgStepNext ==
  ASSUME SystemInv, [Next]_vars
  PROVE  MsgStep
<1>1. CASE UNCHANGED vars
  BY <1>1, ShrunkSame, Losing DEF vars, channels, clientVars
<1> QED
  BY <1>1, ImMsgStep, RouteMsgStep, ClientMsgStep DEF Next

-----------------------------------------------------------------------------
(* The order of messages.                                                  *)

LEMMA PlaceShape ==
  ASSUME NEW x \in Places
  PROVE  /\ \/ x[1] \in {"c2s", "s2c", "inbox"} /\ x[2] \in Conns
            \/ x[1] \in {"s2r", "r2s"} /\ x[2] \in Servers
         /\ x = <<x[1], x[2]>>
BY DEF Places

\* The next place on the way of a message leads nowhere this one does not, and
\* is not reached from elsewhere by a message of the same sender.
LEMMA WayOnward ==
  ASSUME NEW x \in Places, NEW y \in Places, NEW m \in Messages,
         Way(x, y, m), OnItsWay(x, m)
  PROVE  /\ Onward(x, y) /\ ~Onward(y, y) /\ OnItsWay(y, m)
         /\ \A z \in Places : Onward(y, z) => Onward(x, z)
         /\ \A z \in Places, n \in Messages :
              Onward(z, y) /\ z # x /\ OnItsWay(z, n) /\ n.from = m.from => Onward(z, x)
<1>0. x = <<x[1], x[2]>> /\ y = <<y[1], y[2]>>
  BY PlaceShape
<1>1. Onward(x, y) /\ ~Onward(y, y)
  BY DEF Onward, Way
<1>2. OnItsWay(y, m)
  BY DEF OnItsWay, Way
<1>3. ASSUME NEW z \in Places, Onward(y, z) PROVE Onward(x, z)
  BY <1>3 DEF Onward, Way
<1>4. ASSUME NEW z \in Places, NEW n \in Messages,
             Onward(z, y), z # x, OnItsWay(z, n), n.from = m.from
      PROVE  Onward(z, x)
  <2>0. z = <<z[1], z[2]>> /\ (z[1] # x[1] \/ z[2] # x[2])
    BY <1>0, <1>4, PlaceShape
  <2>1. CASE /\ x[1] = "c2s" /\ y[1] = "s2c" /\ ServerOf[x[2]] = ServerOf[y[2]]
             /\ m.to = UserOf[y[2]]
    BY <1>4, <2>0, <2>1 DEF Onward, OnItsWay
  <2>2. CASE x[1] = "c2s" /\ y = <<"s2r", ServerOf[x[2]]>>
    BY <1>4, <2>0, <2>2 DEF Onward, OnItsWay
  <2>3. CASE x[1] = "s2r" /\ y[1] = "r2s"
    BY <1>4, <2>0, <2>3 DEF Onward, OnItsWay
  <2>4. CASE x[1] = "r2s" /\ y[1] = "s2c" /\ ServerOf[y[2]] = x[2]
    BY <1>4, <2>0, <2>4 DEF Onward, OnItsWay
  <2>5. CASE x[1] = "s2c" /\ y = <<"inbox", x[2]>>
    BY <1>4, <2>0, <2>5 DEF Onward, OnItsWay
  <2> QED
    BY <2>1, <2>2, <2>3, <2>4, <2>5 DEF Way
<1> QED
  BY <1>1, <1>2, <1>3, <1>4

LEMMA OrderTypes ==
  ASSUME TypeOK
  PROVE  /\ nextId \in Nat
         /\ \A x \in Places : \A m \in MsgsIn(Content(x)) :
              m \in Messages /\ m.type = "msg" /\ m.id \in Nat /\ m.from \in Conns
<1>1. nextId \in Nat
  BY NetAssumption DEF TypeOK, ClientTypeOK
<1>2. \A x \in Places : MsgsIn(Content(x)) \subseteq Messages
  BY ContentType, MsgsAreMessages
<1>3. \A m \in Messages : m.type = "msg" /\ m.id \in Nat /\ m.from \in Conns
  BY PacketKinds, MessageKinds
<1> QED
  BY <1>1, <1>2, <1>3

LEMMA LostKeeps ==
  ASSUME OrderInv, Lost
  PROVE  OrderInv'
<1>1. \A x \in Places : /\ MsgsIn(Content(x)') \subseteq MsgsIn(Content(x))
                        /\ Ordered(Content(x)) => Ordered(Content(x)')
  BY DEF Lost, AllShrunk, Shrunk
<1>2. \A x, m : OnItsWay(x, m) => OnItsWay(x, m)'
  BY DEF Lost, OnItsWay
<1>3. ASSUME NEW x \in Places
      PROVE  /\ Ordered(Content(x)')
             /\ \A m \in MsgsIn(Content(x)') : OnItsWay(x, m)'
  BY <1>1, <1>2 DEF OrderInv
<1>4. ASSUME NEW x \in Places, NEW y \in Places
      PROVE  /\ x # y => MsgsIn(Content(x)') \intersect MsgsIn(Content(y)') = {}
             /\ Onward(x, y) => Before(MsgsIn(Content(y)'), MsgsIn(Content(x)'))
  BY <1>1 DEF OrderInv, Before
<1> QED
  BY <1>3, <1>4 DEF OrderInv

LEMMA PostedKeeps ==
  ASSUME TypeOK, OrderInv, NEW c \in Conns, NEW to \in Targets, Posted(c, to)
  PROVE  OrderInv'
<1> DEFINE x == <<"c2s", c>>
<1>0. PICK m : m = Msg(c, to, nextId)
  OBVIOUS
<1>1. /\ x \in Places /\ x[1] = "c2s" /\ x[2] = c
      /\ m.id = nextId /\ m.from = c /\ nextId' = nextId + 1
      /\ Gained(Content(x), Content(x)', m)
      /\ \A z \in Places \ {x} : Content(z)' = Content(z)
  BY <1>0, PlaceOf DEF Posted, Msg
<1> HIDE DEF x
<1>2. \A z \in Places : \A n \in MsgsIn(Content(z)) : n.id \in Nat /\ n.id < m.id
  BY <1>1, OrderTypes DEF OrderInv, OnItsWay
<1>3. /\ nextId \in Nat
      /\ MsgsIn(Content(x)') = MsgsIn(Content(x)) \union {m}
      /\ Ordered(Content(x)')
  BY <1>1, <1>2, OrderTypes DEF Gained, OrderInv, Before
<1>4. \A z \in Places \ {x} : MsgsIn(Content(z)') = MsgsIn(Content(z))
  BY <1>1
<1>5. ASSUME NEW z \in Places
      PROVE  /\ Ordered(Content(z)')
             /\ \A n \in MsgsIn(Content(z)') : OnItsWay(z, n)'
  <2>1. \A n \in MsgsIn(Content(z)) : OnItsWay(z, n)'
    <3> SUFFICES ASSUME NEW n \in MsgsIn(Content(z)) PROVE OnItsWay(z, n)'
      OBVIOUS
    <3>1. OnItsWay(z, n) /\ n.id \in Nat
      BY <1>2 DEF OrderInv
    <3> QED
      BY <1>1, <1>3, <3>1 DEF OnItsWay
  <2>2. OnItsWay(x, m)'
    BY <1>1, <1>3 DEF OnItsWay
  <2>3. CASE z = x
    BY <1>3, <2>1, <2>2, <2>3
  <2>4. CASE z # x
    BY <1>1, <1>4, <2>1, <2>4 DEF OrderInv
  <2> QED
    BY <2>3, <2>4
<1>6. ASSUME NEW y \in Places, NEW z \in Places
      PROVE  /\ y # z => MsgsIn(Content(y)') \intersect MsgsIn(Content(z)') = {}
             /\ Onward(y, z) => Before(MsgsIn(Content(z)'), MsgsIn(Content(y)'))
  <2>1. /\ y # z => MsgsIn(Content(y)) \intersect MsgsIn(Content(z)) = {}
        /\ Onward(y, z) => Before(MsgsIn(Content(z)), MsgsIn(Content(y)))
    BY DEF OrderInv
  <2>2. m \notin MsgsIn(Content(y)) /\ m \notin MsgsIn(Content(z))
    BY <1>2
  <2>3. y # z => MsgsIn(Content(y)') \intersect MsgsIn(Content(z)') = {}
    BY <1>3, <1>4, <2>1, <2>2
  <2>4. ASSUME Onward(y, z) PROVE Before(MsgsIn(Content(z)'), MsgsIn(Content(y)'))
    <3>1. z # x
      BY <1>1, <2>4 DEF Onward
    <3>2. MsgsIn(Content(y)') \subseteq MsgsIn(Content(y)) \union {m}
      BY <1>3, <1>4
    <3> QED
      BY <1>2, <1>4, <2>1, <2>4, <3>1, <3>2 DEF Before
  <2> QED
    BY <2>3, <2>4
<1> QED
  BY <1>5, <1>6 DEF OrderInv

LEMMA MovedKeeps ==
  ASSUME TypeOK, OrderInv, NEW x \in Places, NEW y \in Places, NEW m \in Messages,
         Moved(x, y, m)
  PROVE  OrderInv'
<1>1. /\ x # y /\ Way(x, y, m) /\ m \in MsgsIn(Content(x))
      /\ MsgsIn(Content(x)') = MsgsIn(Content(x)) \ {m}
      /\ Ordered(Content(x)') /\ Before({m}, MsgsIn(Content(x)'))
      /\ MsgsIn(Content(y)') = MsgsIn(Content(y)) \union {m}
      /\ Ordered(Content(y)) /\ Before(MsgsIn(Content(y)), {m}) => Ordered(Content(y)')
      /\ \A z \in Places \ {x, y} : Content(z)' = Content(z)
  BY DEF Moved, Took, Gained
<1>2. \A z, n : OnItsWay(z, n) <=> OnItsWay(z, n)'
  BY DEF Moved, OnItsWay
<1>3. OnItsWay(x, m)
  BY <1>1 DEF OrderInv
<1>4. /\ Onward(x, y) /\ ~Onward(y, y) /\ OnItsWay(y, m)
      /\ \A z \in Places : Onward(y, z) => Onward(x, z)
      /\ \A z \in Places, n \in Messages :
           Onward(z, y) /\ z # x /\ OnItsWay(z, n) /\ n.from = m.from => Onward(z, x)
  BY <1>1, <1>3, WayOnward
<1>5. \A z \in Places : z # x => m \notin MsgsIn(Content(z))
  BY <1>1 DEF OrderInv
<1>6. \A z \in Places \ {x, y} : MsgsIn(Content(z)') = MsgsIn(Content(z))
  BY <1>1
<1>7. \A z \in Places : MsgsIn(Content(z)') \subseteq MsgsIn(Content(z)) \union {m}
  BY <1>1, <1>6
<1>8. ASSUME NEW z \in Places
      PROVE  /\ Ordered(Content(z)')
             /\ \A n \in MsgsIn(Content(z)') : OnItsWay(z, n)'
  <2>1. \A n \in MsgsIn(Content(z)) : OnItsWay(z, n)
    BY DEF OrderInv
  <2>2. CASE z = x
    BY <1>1, <1>2, <2>1, <2>2
  <2>3. CASE z = y
    <3>1. Before(MsgsIn(Content(y)), {m}) /\ Ordered(Content(y))
      BY <1>1, <1>4 DEF OrderInv, Before
    <3> QED
      BY <1>1, <1>2, <1>4, <2>1, <2>3, <3>1
  <2>4. CASE z \notin {x, y}
    BY <1>1, <1>2, <1>6, <2>1, <2>4 DEF OrderInv
  <2> QED
    BY <2>2, <2>3, <2>4
<1>9. ASSUME NEW a \in Places, NEW b \in Places
      PROVE  /\ a # b => MsgsIn(Content(a)') \intersect MsgsIn(Content(b)') = {}
             /\ Onward(a, b) => Before(MsgsIn(Content(b)'), MsgsIn(Content(a)'))
  <2>1. /\ a # b => MsgsIn(Content(a)) \intersect MsgsIn(Content(b)) = {}
        /\ Onward(a, b) => Before(MsgsIn(Content(b)), MsgsIn(Content(a)))
    BY DEF OrderInv
  <2>2. a # b => MsgsIn(Content(a)') \intersect MsgsIn(Content(b)') = {}
    <3>1. \A z \in Places : m \in MsgsIn(Content(z)') => z = y
      BY <1>1, <1>5, <1>6
    <3> QED
      BY <1>7, <2>1, <3>1
  <2>3. ASSUME Onward(a, b), NEW n \in MsgsIn(Content(b)'), NEW k \in MsgsIn(Content(a)'),
               n.from = k.from
        PROVE  n.id < k.id
    <3>1. CASE n \in MsgsIn(Content(b)) /\ k \in MsgsIn(Content(a))
      BY <2>1, <2>3, <3>1 DEF Before
    <3>2. CASE n = m /\ b = y /\ k \in MsgsIn(Content(a))
      <4>1. CASE a = x
        BY <1>1, <2>3, <3>2, <4>1 DEF Before
      <4>2. CASE a # x
        <5>1. k \in Messages /\ OnItsWay(a, k)
          BY <3>2, OrderTypes DEF OrderInv
        <5>2. Onward(a, x)
          BY <1>4, <2>3, <3>2, <4>2, <5>1
        <5> QED
          BY <1>1, <2>3, <3>2, <5>2 DEF OrderInv, Before
      <4> QED
        BY <4>1, <4>2
    <3>3. CASE k = m /\ a = y
      <4>1. b # y /\ Onward(x, b)
        BY <1>4, <2>3, <3>3
      <4>2. n \in MsgsIn(Content(b))
        BY <1>1, <1>6, <4>1
      <4> QED
        BY <1>1, <2>3, <3>3, <4>1, <4>2 DEF OrderInv, Before
    <3> QED
      BY <1>1, <1>5, <1>6, <1>7, <3>1, <3>2, <3>3
  <2> QED
    BY <2>2, <2>3 DEF Before
<1> QED
  BY <1>8, <1>9 DEF OrderInv

LEMMA OrderInit == Init => OrderInv
<1> SUFFICES ASSUME Init PROVE OrderInv
  OBVIOUS
<1>1. ASSUME NEW x \in Places PROVE Content(x) = <<>>
  BY PlaceOf, ContentOf DEF Init, NetInit, ClientInit
<1>2. At(<<>>) = {}
  BY DEF At
<1>3. MsgsIn(<<>>) = {}
  BY <1>2, MsgsAt
<1> QED
  BY <1>1, <1>2, <1>3 DEF OrderInv, Ordered, Before

\* The invariant of the whole system: besides what RouteInvariant says of the
\* tables, where a message can be, and that of one sender the messages further
\* on are the older ones.
THEOREM SystemInvariant == Spec => []SystemInv
<1>1. Init => SystemInv
  BY RouteInvInit, OrderInit DEF SystemInv
<1>2. SystemInv /\ [Next]_vars => SystemInv'
  <2> SUFFICES ASSUME SystemInv, [Next]_vars PROVE SystemInv'
    OBVIOUS
  <2>1. TypeOK /\ OrderInv /\ RouteInv'
    BY RouteInvNext DEF SystemInv, RouteInv, MapInv
  <2>2. OrderInv'
    BY <2>1, MsgStepNext, LostKeeps, PostedKeeps, MovedKeeps DEF MsgStep
  <2> QED
    BY <2>1, <2>2 DEF SystemInv
<1> QED
  BY <1>1, <1>2, PTL DEF Spec

-----------------------------------------------------------------------------
(* The refinement.                                                         *)

Channels == {x \in Places : x[1] # "inbox"}

\* InFlight, place by place.
InFlightPlaces ==
  \A m : m \in InFlight <=> \E x \in Channels : m \in MsgsIn(Content(x))

LEMMA InFlightNow == InFlightPlaces
<1> SUFFICES ASSUME NEW m
             PROVE  m \in InFlight <=> \E x \in Channels : m \in MsgsIn(Content(x))
  BY DEF InFlightPlaces
<1> DEFINE A == {MsgsIn(c2s[c]) \union MsgsIn(s2c[c]) : c \in Conns}
           B == {MsgsIn(s2r[s]) \union MsgsIn(r2s[s]) : s \in Servers}
<1>0. InFlight = UNION (A \union B)
  BY DEF InFlight
<1>1. /\ \A c \in Conns : <<"c2s", c>> \in Channels /\ <<"s2c", c>> \in Channels
      /\ \A s \in Servers : <<"s2r", s>> \in Channels /\ <<"r2s", s>> \in Channels
  BY PlaceOf DEF Channels
<1>2. ASSUME m \in InFlight PROVE \E x \in Channels : m \in MsgsIn(Content(x))
  <2>1. PICK S \in A \union B : m \in S
    BY <1>0, <1>2
  <2>2. ASSUME NEW c \in Conns, S = MsgsIn(c2s[c]) \union MsgsIn(s2c[c])
        PROVE  \E x \in Channels : m \in MsgsIn(Content(x))
    <3>1. m \in MsgsIn(Content(<<"c2s", c>>)) \/ m \in MsgsIn(Content(<<"s2c", c>>))
      BY <2>1, <2>2, ContentOf
    <3> QED
      BY <1>1, <3>1
  <2>3. ASSUME NEW s \in Servers, S = MsgsIn(s2r[s]) \union MsgsIn(r2s[s])
        PROVE  \E x \in Channels : m \in MsgsIn(Content(x))
    <3>1. m \in MsgsIn(Content(<<"s2r", s>>)) \/ m \in MsgsIn(Content(<<"r2s", s>>))
      BY <2>1, <2>3, ContentOf
    <3> QED
      BY <1>1, <3>1
  <2> QED
    BY <2>1, <2>2, <2>3
<1>3. ASSUME NEW x \in Channels, m \in MsgsIn(Content(x)) PROVE m \in InFlight
  <2>1. ASSUME NEW c \in Conns, m \in MsgsIn(c2s[c]) \union MsgsIn(s2c[c])
        PROVE  m \in InFlight
    <3>1. MsgsIn(c2s[c]) \union MsgsIn(s2c[c]) \in A
      OBVIOUS
    <3> HIDE DEF A, B
    <3> QED
      BY <1>0, <2>1, <3>1
  <2>2. ASSUME NEW s \in Servers, m \in MsgsIn(s2r[s]) \union MsgsIn(r2s[s])
        PROVE  m \in InFlight
    <3>1. MsgsIn(s2r[s]) \union MsgsIn(r2s[s]) \in B
      OBVIOUS
    <3> HIDE DEF A, B
    <3> QED
      BY <1>0, <2>2, <3>1
  <2>3. \/ \E c \in Conns : x = <<"c2s", c>> \/ x = <<"s2c", c>>
        \/ \E s \in Servers : x = <<"s2r", s>> \/ x = <<"r2s", s>>
    BY PlaceOf DEF Channels
  <2>4. \/ \E c \in Conns : m \in MsgsIn(c2s[c]) \union MsgsIn(s2c[c])
        \/ \E s \in Servers : m \in MsgsIn(s2r[s]) \union MsgsIn(r2s[s])
    BY <1>3, <2>3, ContentOf
  <2> QED
    BY <2>1, <2>2, <2>4
<1> QED
  BY <1>2, <1>3

LEMMA InFlightOf ==
  /\ \A m : m \in InFlight <=> \E x \in Channels : m \in MsgsIn(Content(x))
  /\ \A m : m \in InFlight' <=> \E x \in Channels : m \in MsgsIn(Content(x)')
<1>1. InFlightPlaces'
  BY InFlightNow, PTL
<1> QED
  BY <1>1, InFlightNow DEF InFlightPlaces

\* Losing messages, or passing one on, is a loss or nothing to the users.
LEMMA LoseStep ==
  ASSUME \A x \in Channels : \A m \in MsgsIn(Content(x)') :
           \E y \in Channels : m \in MsgsIn(Content(y)),
         UNCHANGED <<nextId, inbox>>
  PROVE  Promise!Lose
BY InFlightOf DEF Promise!Lose

LEMMA PostStep ==
  ASSUME NEW c \in Conns, NEW to \in Targets, Posted(c, to)
  PROVE  Promise!Post(c, to)
<1> DEFINE x == <<"c2s", c>>
<1>0. PICK m : m = Msg(c, to, nextId)
  OBVIOUS
<1>1. /\ x \in Channels /\ MsgsIn(Content(x)') = MsgsIn(Content(x)) \union {m}
      /\ \A z \in Channels \ {x} : MsgsIn(Content(z)') = MsgsIn(Content(z))
  BY <1>0, PlaceOf DEF Posted, Gained, Channels
<1> HIDE DEF x
<1>2. \A n : n \in InFlight' <=> n \in InFlight \union {m}
  BY <1>1, InFlightOf
<1>3. InFlight' = InFlight \union {m}
  BY <1>2
<1> QED
  BY <1>0, <1>3 DEF Posted, Promise!Post, Msg

\* A message that moves to its reader is the oldest of its sender that can
\* still arrive there.
LEMMA DeliverStep ==
  ASSUME TypeOK, OrderInv, NEW x \in Places, NEW y \in Places, NEW m \in Messages,
         Moved(x, y, m), y[1] = "inbox"
  PROVE  \E d \in Conns : m \in InFlight /\ Promise!Deliver(d, m)
<1>1. PICK d \in Conns : x = <<"s2c", d>> /\ y = <<"inbox", d>>
  BY PlaceShape DEF Moved, Way
<1>2. /\ x \in Channels /\ m \in MsgsIn(Content(x))
      /\ MsgsIn(Content(x)') = MsgsIn(Content(x)) \ {m}
      /\ \A z \in Channels \ {x} : Content(z)' = Content(z)
      /\ inbox' = [inbox EXCEPT ![d] = Append(@, m)] /\ UNCHANGED nextId
  BY <1>1 DEF Moved, Took, Channels
<1>3. m.to = UserOf[d]
  BY <1>1, <1>2 DEF OrderInv, OnItsWay
<1>4. Onward(x, y) /\ Content(y) = inbox[d]
  BY <1>1, ContentOf DEF Onward
<1>5. ASSUME NEW i \in 1..Len(inbox[d]), inbox[d][i].from = m.from
      PROVE  inbox[d][i].id < m.id
  <2>1. inbox[d] \in Seq(Messages)
    BY DEF TypeOK, ClientTypeOK
  <2>2. inbox[d][i] \in Messages
    BY <2>1
  <2>3. inbox[d][i].type = "msg"
    BY <2>2, PacketKinds, MessageKinds
  <2>4. inbox[d][i] \in MsgsIn(Content(y))
    BY <1>4, <2>3, MsgsAt DEF At
  <2> QED
    BY <1>2, <1>4, <1>5, <2>4 DEF OrderInv, Before
<1>6. InFlight' = InFlight \ {m}
  <2>1. \A z \in Channels \ {x} : m \notin MsgsIn(Content(z))
    BY <1>2 DEF OrderInv, Channels
  <2>2. \A n : n \in InFlight' <=> n \in InFlight \ {m}
    BY <1>2, <2>1, InFlightOf
  <2> QED
    BY <2>2
<1>7. m \in InFlight
  BY <1>2, InFlightOf
<1> QED
  BY <1>2, <1>3, <1>5, <1>6, <1>7 DEF Promise!Deliver

LEMMA MessengerStep ==
  ASSUME SystemInv, [Next]_vars
  PROVE  Promise!MsgrNext
<1>0. TypeOK /\ OrderInv
  BY DEF SystemInv, RouteInv, MapInv
<1>1. CASE Lost
  <2>1. /\ \A x \in Channels : MsgsIn(Content(x)') \subseteq MsgsIn(Content(x))
        /\ UNCHANGED <<nextId, inbox>>
    BY <1>1 DEF Lost, AllShrunk, Shrunk, Channels
  <2> QED
    BY <2>1, LoseStep DEF Promise!MsgrNext
<1>2. ASSUME NEW c \in Conns, NEW to \in Targets, Posted(c, to) PROVE Promise!MsgrNext
  BY <1>2, PostStep DEF Promise!MsgrNext
<1>3. ASSUME NEW x \in Places, NEW y \in Places, NEW m \in Messages, Moved(x, y, m)
      PROVE  Promise!MsgrNext
  <2>1. CASE y[1] = "inbox"
    BY <1>0, <1>3, <2>1, DeliverStep DEF Promise!MsgrNext
  <2>2. CASE y[1] # "inbox"
    <3>1. x \in Channels /\ y \in Channels
      BY <1>3, <2>2, PlaceShape DEF Moved, Way, Channels
    <3>2. /\ m \in MsgsIn(Content(x)) /\ MsgsIn(Content(x)') \subseteq MsgsIn(Content(x))
          /\ MsgsIn(Content(y)') = MsgsIn(Content(y)) \union {m}
          /\ \A z \in Channels \ {x, y} : MsgsIn(Content(z)') = MsgsIn(Content(z))
          /\ UNCHANGED <<nextId, inbox>>
      BY <1>3, <2>2 DEF Moved, Took, Gained, Channels
    <3>3. \A z \in Channels : \A n \in MsgsIn(Content(z)') :
            \E w \in Channels : n \in MsgsIn(Content(w))
      BY <3>1, <3>2
    <3> QED
      BY <3>2, <3>3, LoseStep DEF Promise!MsgrNext
  <2> QED
    BY <2>1, <2>2
<1> QED
  BY <1>1, <1>2, <1>3, MsgStepNext DEF MsgStep

LEMMA MessengerInit == Init => Promise!MsgrInit
<1> SUFFICES ASSUME Init PROVE Promise!MsgrInit
  OBVIOUS
<1>1. MsgsIn(<<>>) = {}
  <2>1. At(<<>>) = {}
    BY DEF At
  <2> QED
    BY <2>1, MsgsAt
<1>2. /\ \A c \in Conns : c2s[c] = <<>> /\ s2c[c] = <<>>
      /\ \A s \in Servers : s2r[s] = <<>> /\ r2s[s] = <<>>
      /\ nextId = 1 /\ inbox = [c \in Conns |-> <<>>]
  BY DEF Init, NetInit, ClientInit
<1>3. InFlight = {}
  BY <1>1, <1>2 DEF InFlight
<1> QED
  BY <1>2, <1>3 DEF Promise!MsgrInit

\* Whatever crashes, reconnects and roams, the users see a Messenger: a message
\* is read once at most, by a session of its addressee, and the messages of one
\* sender in the order they were sent, whichever of them went by the
\* route_server.
THEOREM ImplementsMessengerHolds == Spec => ImplementsMessenger
<1>1. SystemInv /\ [Next]_vars => [Promise!MsgrNext]_Promise!msgrVars
  BY MessengerStep
<1> QED
  BY <1>1, MessengerInit, SystemInvariant, PTL DEF Spec, ImplementsMessenger, Promise!MsgrSpec
=============================================================================
