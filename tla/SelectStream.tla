---------------------------- MODULE SelectStream ----------------------------
(***************************************************************************)
(* Sending in the builds with select() (Windows) and kqueue (macOS), where *)
(* events are level-triggered and a socket must ask for them: AddEvent()   *)
(* and RemoveEvent() keep an interest in writing per socket.  Connect()    *)
(* registers it, an accepted socket does not; OnWrite() drops it; Send()   *)
(* asks again when the kernel had no space.  m_busy and m_out_buf are      *)
(* those of CImConn and CRouteConn.  The bytes sent are numbered 1, 2,     *)
(* 3..., and every PDU has the same length; ConnStream has PDUs of         *)
(* different lengths and what epoll makes of the same code.                *)
(***************************************************************************)
EXTENDS Naturals, Sequences

CONSTANTS
  MaxPdus,  \* PDUs sent
  Size,     \* length of a PDU
  Cap,      \* the kernel has space while it holds less
  Partial,  \* send() may take a part; otherwise it takes all or nothing
  Early     \* Send() may be called before the connection is confirmed

ASSUME SelectAssumption ==
  /\ MaxPdus \in Nat /\ Size \in Nat \ {0} /\ Cap \in Nat \ {0}
  /\ Partial \in BOOLEAN /\ Early \in BOOLEAN

VARIABLES
  connected,  \* m_state is SOCKET_STATE_CONNECTED
  interest,   \* the socket is in m_write_set, or has an EVFILT_WRITE
  reported,   \* in the write_set, or the events, of the round in progress
  sent,       \* PDUs given to Send()
  busy,       \* m_busy
  outBuf,     \* m_out_buf
  wire,       \* bytes the kernels hold
  received,   \* history: the bytes the other end has read
  missed      \* history: the event for m_out_buf was dropped and not asked for again

selectVars == <<connected, interest, reported, sent, busy, outBuf, wire, received, missed>>

\* The bytes of PDU k.
Pdu(k) == [i \in 1..Size |-> (k - 1) * Size + i]

\* An accepted socket, or one that connects.
SelectInit ==
  /\ connected \in BOOLEAN
  /\ interest = ~connected
  /\ reported = FALSE
  /\ sent = 0
  /\ busy = FALSE
  /\ outBuf = <<>> /\ wire = <<>> /\ received = <<>>
  /\ missed = FALSE

\* How many of len bytes send() takes; none is EWOULDBLOCK.
Taken(len) ==
  IF Len(wire) >= Cap THEN 0
  ELSE IF Partial /\ len > Cap - Len(wire) THEN Cap - Len(wire)
  ELSE len

\* Mutant: EWOULDBLOCK asks for no event.
Bug_SocketSend_NoEvent(bytes, asked) ==
  LET n == Taken(Len(bytes)) IN
  /\ wire' = wire \o SubSeq(bytes, 1, n)
  /\ outBuf' = SubSeq(bytes, n + 1, Len(bytes))
  /\ busy' = (n < Len(bytes))
  /\ interest' = asked
  /\ missed' = (0 < n /\ n < Len(bytes))

\* CBaseSocket::Send() of bytes to a connected socket, the interest being asked
\* before, and what CImConn makes of its result: the rest is queued.  Only when
\* nothing was taken is an event asked for.
SocketSend(bytes, asked) ==
  LET n == Taken(Len(bytes)) IN
  /\ wire' = wire \o SubSeq(bytes, 1, n)
  /\ outBuf' = SubSeq(bytes, n + 1, Len(bytes))
  /\ busy' = (n < Len(bytes))
  /\ interest' = (asked \/ n = 0)
  /\ missed' = (0 < n /\ n < Len(bytes))

\* Send().  Before the confirm the socket refuses, and all is queued.
Send ==
  /\ sent < MaxPdus
  /\ connected \/ Early
  /\ sent' = sent + 1
  /\ \/ /\ busy
        /\ outBuf' = outBuf \o Pdu(sent + 1)
        /\ UNCHANGED <<busy, wire, interest, missed>>
     \/ /\ ~busy /\ ~connected
        /\ outBuf' = Pdu(sent + 1)
        /\ busy' = TRUE
        /\ UNCHANGED <<wire, interest, missed>>
     \/ /\ ~busy /\ connected
        /\ SocketSend(Pdu(sent + 1), interest)
  /\ UNCHANGED <<connected, reported, received>>

\* A round of StartDispatch() begins: select() or kevent() reports the socket.
Report ==
  /\ interest /\ ~reported
  /\ ~connected \/ Len(wire) < Cap
  /\ reported' = TRUE
  /\ UNCHANGED <<connected, interest, sent, busy, outBuf, wire, received, missed>>

\* Mutant: m_busy stays set when the queue is empty.
Bug_OnWrite_StaysBusy ==
  /\ reported
  /\ reported' = FALSE
  /\ connected' = TRUE
  /\ LET n == Taken(Len(outBuf)) IN
     \/ /\ connected /\ busy
        /\ wire' = wire \o SubSeq(outBuf, 1, n)
        /\ outBuf' = SubSeq(outBuf, n + 1, Len(outBuf))
        /\ interest' = (n = 0)
        /\ missed' = (0 < n /\ n < Len(outBuf))
        /\ UNCHANGED busy
     \/ /\ ~(connected /\ busy)
        /\ interest' = FALSE
        /\ missed' = busy
        /\ UNCHANGED <<busy, outBuf, wire>>
  /\ UNCHANGED <<sent, received>>

\* OnWrite() of the socket, later in the round: callbacks called before it may
\* have sent on the socket, and the space may be gone.  RemoveEvent() first,
\* then NETLIB_MSG_WRITE and OnWrite() of the connection, or NETLIB_MSG_CONFIRM,
\* in which a Send() finds m_busy set if anything was sent before.
OnWrite ==
  /\ reported
  /\ reported' = FALSE
  /\ connected' = TRUE
  /\ \/ /\ connected /\ busy
        /\ SocketSend(outBuf, FALSE)
     \/ /\ ~(connected /\ busy)
        /\ interest' = FALSE
        /\ missed' = busy
        /\ UNCHANGED <<busy, outBuf, wire>>
  /\ UNCHANGED <<sent, received>>

\* The other end reads.
PeerReads ==
  /\ \E n \in 1..Len(wire) :
       /\ received' = received \o SubSeq(wire, 1, n)
       /\ wire' = SubSeq(wire, n + 1, Len(wire))
  /\ UNCHANGED <<connected, interest, reported, sent, busy, outBuf, missed>>

SelectNext == Send \/ Report \/ OnWrite \/ PeerReads

\* The event loops of both ends go on.  Nobody has to call Send().
SelectSpec ==
  /\ SelectInit /\ [][SelectNext]_selectVars
  /\ WF_selectVars(Report) /\ WF_selectVars(OnWrite) /\ WF_selectVars(PeerReads)

-----------------------------------------------------------------------------

\* A queue in m_out_buf has asked for the event that flushes it, except in two
\* cases, and then it never will: it was there at the confirm, which used up the
\* event of Connect(); or send() took a part, after which nobody asks
\* (BaseSocket.cpp:136-145, imconn.cpp:197-202).
FlushAsked == busy => (interest <=> ~missed)

\* The PDU that the other end reads in its i-th Size bytes; 0 if these are not
\* the bytes of one.
Handled(i) ==
  LET b == SubSeq(received, (i - 1) * Size + 1, i * Size) IN
  IF \E k \in 1..sent : b = Pdu(k) THEN CHOOSE k \in 1..sent : b = Pdu(k) ELSE 0

\* The abstract channel: the PDUs arrive whole and in order, and all of them do
\* if no queue is left without its event.
Chan == INSTANCE PduChannel
  WITH sent <- sent, got <- [i \in 1..(Len(received) \div Size) |-> Handled(i)]
ImplementsChan == Chan!ChanSafety /\ (<>[]~missed => Chan!ChanLiveness)

\* EventDispatch.h:3: portable, so that, as with epoll, all PDUs of a connection
\* arrive if none was sent before the confirm and none goes the other way.
AllArrive == Chan!ChanSpec
=============================================================================
