----------------------------- MODULE ConnStream -----------------------------
(***************************************************************************)
(* One direction of a connection at the level of bytes: Send() and         *)
(* OnWrite() with m_busy and m_out_buf at one end, OnRead() with m_in_buf  *)
(* and ReadPdu() at the other, a kernel buffer in between, and the         *)
(* edge-triggered epoll loop that calls them.  CImConn and CRouteConn have *)
(* the same code for all of this.                                          *)
(*                                                                         *)
(* epoll: a wakeup (data arrived, or space after a send that fell short)   *)
(* puts the socket on the ready list.  epoll_wait takes it off, and reports*)
(* what the socket is at that moment: IN, OUT or both.  StartDispatch()    *)
(* then calls OnRead() if IN is set, and only else OnWrite().              *)
(***************************************************************************)
EXTENDS Naturals, Sequences

CONSTANTS
  MaxPdus,    \* PDUs sent
  Size,       \* their lengths
  HeaderLen,  \* IM_PDU_HEADER_LEN
  Cap,        \* capacity of the kernel buffers
  Duplex,     \* the other end sends, too
  Early       \* Send() may be called before the connection is confirmed

ASSUME StreamAssumption ==
  /\ MaxPdus \in Nat /\ HeaderLen \in Nat \ {0} /\ Cap \in Nat \ {0}
  /\ Size \in [1..MaxPdus -> {n \in Nat : n >= HeaderLen}]
  /\ Duplex \in BOOLEAN /\ Early \in BOOLEAN

VARIABLES
  confirmed,  \* m_state of the CBaseSocket is SOCKET_STATE_CONNECTED
  sent,       \* PDUs given to Send()
  busy,       \* m_busy
  outBuf,     \* m_out_buf
  wire,       \* bytes the kernels hold
  noSpace,    \* a send fell short: the kernel will announce space
  ready,      \* the sender's socket is on the ready list
  reverse,    \* data for the sender to read
  rready,     \* the receiver's socket is on the ready list
  inBuf,      \* m_in_buf
  got,        \* history: the PDUs handled
  missed      \* history: the OUT for m_out_buf was reported, OnWrite() not called

vars == <<confirmed, sent, busy, outBuf, wire, noSpace, ready, reverse, rready,
          inBuf, got, missed>>

Least(m, n) == IF m < n THEN m ELSE n

\* PDU k, byte by byte; any one of its first HeaderLen bytes is header.
Bytes(k) == [i \in 1..Size[k] |-> <<k, i>>]

Init ==
  /\ confirmed = FALSE
  /\ sent = 0
  /\ busy = FALSE
  /\ outBuf = <<>> /\ wire = <<>> /\ inBuf = <<>>
  /\ noSpace = FALSE
  /\ ready = TRUE    \* connect() succeeds
  /\ reverse = FALSE
  /\ rready = FALSE
  /\ got = <<>>
  /\ missed = FALSE

\* Types, and m_busy says whether m_out_buf holds anything.
TypeOK ==
  /\ {confirmed, busy, noSpace, ready, reverse, rready, missed} \subseteq BOOLEAN
  /\ sent \in 0..MaxPdus
  /\ \A i \in 1..Len(got) : got[i] \in 1..sent
  /\ Len(wire) <= Cap
  /\ busy <=> outBuf # <<>>

-----------------------------------------------------------------------------

Free == Cap - Len(wire)

\* _IsPduAvailable(): m_in_buf has a header, and the PDU it is of.
FirstPdu == inBuf[1][1]
PduAvailable == Len(inBuf) >= HeaderLen /\ Len(inBuf) >= Size[FirstPdu]

\* send(): the kernel takes n of the bytes, all it has space for.  If these are
\* not all, it announces space when there is some.
KernelTakes(bytes, n) ==
  /\ n = Least(Len(bytes), Free)
  /\ wire' = wire \o SubSeq(bytes, 1, n)
  /\ rready' = (rready \/ n > 0)
  /\ noSpace' = (noSpace \/ n < Len(bytes))

\* Mutant: m_busy is not looked at.
Bug_Send_Bypass ==
  LET bytes == Bytes(sent + 1) IN
  /\ sent < MaxPdus
  /\ confirmed
  /\ sent' = sent + 1
  /\ \E n \in 0..Len(bytes) :
       /\ KernelTakes(bytes, n)
       /\ outBuf' = outBuf \o SubSeq(bytes, n + 1, Len(bytes))
       /\ busy' = (outBuf' # <<>>)
  /\ UNCHANGED <<confirmed, ready, reverse, inBuf, got, missed>>

Send ==
  LET bytes == Bytes(sent + 1) IN
  /\ sent < MaxPdus
  /\ confirmed \/ Early
  /\ sent' = sent + 1
  /\ \/ /\ busy
        /\ outBuf' = outBuf \o bytes
        /\ UNCHANGED <<busy, wire, rready, noSpace>>
     \/ /\ ~busy
        /\ \E n \in 0..Len(bytes) :
             /\ IF confirmed THEN KernelTakes(bytes, n)
                ELSE n = 0 /\ UNCHANGED <<wire, rready, noSpace>>
             /\ outBuf' = outBuf \o SubSeq(bytes, n + 1, Len(bytes))
             /\ busy' = (n < Len(bytes))
  /\ UNCHANGED <<confirmed, ready, reverse, inBuf, got, missed>>

\* Mutants: OnWrite() takes the queue for sent whatever send() returned; it
\* clears m_busy whatever is left; it sends one chunk of the queue at a time.
Bug_OnWrite_AllSent ==
  \/ /\ ~busy
     /\ UNCHANGED <<busy, outBuf, wire, rready, noSpace>>
  \/ /\ busy
     /\ \E n \in 0..Len(outBuf) : KernelTakes(outBuf, n)
     /\ outBuf' = <<>>
     /\ busy' = FALSE
Bug_OnWrite_Cleared ==
  \/ /\ ~busy
     /\ UNCHANGED <<busy, outBuf, wire, rready, noSpace>>
  \/ /\ busy
     /\ \E n \in 0..Len(outBuf) :
          /\ KernelTakes(outBuf, n)
          /\ outBuf' = SubSeq(outBuf, n + 1, Len(outBuf))
     /\ busy' = FALSE
Bug_OnWrite_Chunk ==
  \/ /\ ~busy
     /\ UNCHANGED <<busy, outBuf, wire, rready, noSpace>>
  \/ /\ busy
     /\ KernelTakes(<<Head(outBuf)>>, 1)
     /\ outBuf' = Tail(outBuf)
     /\ busy' = (outBuf' # <<>>)

OnWrite ==
  \/ /\ ~busy
     /\ UNCHANGED <<busy, outBuf, wire, rready, noSpace>>
  \/ /\ busy
     /\ \E n \in 0..Len(outBuf) :
          /\ KernelTakes(outBuf, n)
          /\ outBuf' = SubSeq(outBuf, n + 1, Len(outBuf))
          /\ busy' = (n < Len(outBuf))

\* StartDispatch() at the sender.  OnRead() empties the kernel's buffer; data
\* that comes while it does is read, too, but puts the socket on the list.
SenderRead ==
  /\ ready /\ reverse
  /\ reverse' = FALSE
  /\ ready' \in BOOLEAN
  /\ missed' = (missed \/ (busy /\ Free > 0))
  /\ UNCHANGED <<confirmed, sent, busy, outBuf, wire, noSpace, rready, inBuf, got>>

SenderConfirm ==
  /\ ready /\ ~reverse /\ ~confirmed
  /\ confirmed' = TRUE
  /\ ready' = FALSE
  /\ missed' = busy
  /\ UNCHANGED <<sent, busy, outBuf, wire, noSpace, reverse, rready, inBuf, got>>

SenderWrite ==
  /\ ready /\ ~reverse /\ confirmed
  /\ ready' = FALSE
  /\ \/ Free > 0 /\ OnWrite /\ missed' = FALSE
     \/ Free = 0 /\ UNCHANGED <<busy, outBuf, wire, rready, noSpace, missed>>
  /\ UNCHANGED <<confirmed, sent, reverse, inBuf, got>>

\* The other end answers: never before it has handled a PDU.
ReverseData ==
  /\ Duplex
  /\ got # <<>>
  /\ ~reverse
  /\ reverse' = TRUE
  /\ ready' = TRUE
  /\ UNCHANGED <<confirmed, sent, busy, outBuf, wire, noSpace, rready, inBuf, got, missed>>

\* StartDispatch() and OnRead() at the receiver: the n bytes that have arrived,
\* in as many recv() calls as it takes...
Receive ==
  /\ rready /\ ~PduAvailable
  /\ \E n \in 1..Len(wire) :
       /\ inBuf' = inBuf \o SubSeq(wire, 1, n)
       /\ wire' = SubSeq(wire, n + 1, Len(wire))
       /\ rready' = (n < Len(wire))
  /\ noSpace' = FALSE
  /\ ready' = (ready \/ noSpace)
  /\ UNCHANGED <<confirmed, sent, busy, outBuf, reverse, got, missed>>

\* ... and PDU by PDU, until none is complete.
ReadPdu ==
  /\ PduAvailable
  /\ got' = Append(got, FirstPdu)
  /\ inBuf' = SubSeq(inBuf, Size[FirstPdu] + 1, Len(inBuf))
  /\ UNCHANGED <<confirmed, sent, busy, outBuf, wire, noSpace, ready, reverse, rready, missed>>

Next ==
  \/ Send \/ SenderRead \/ SenderConfirm \/ SenderWrite
  \/ ReverseData \/ Receive \/ ReadPdu

\* The event loops of both ends come back to a ready socket.  Nobody has to
\* call Send().
Fairness == WF_vars(SenderRead \/ SenderConfirm \/ SenderWrite) /\ WF_vars(Receive \/ ReadPdu)

Spec == Init /\ [][Next]_vars
FairSpec == Spec /\ Fairness

-----------------------------------------------------------------------------

\* The byte after the i-th of PDU k.
NextByte(b) == IF b[2] < Size[b[1]] THEN <<b[1], b[2] + 1>> ELSE <<b[1] + 1, 1>>

\* What is in the three buffers, in the order it was sent.
InTransit == inBuf \o wire \o outBuf

\* No byte is lost, repeated or overtaken between Send() and ReadPdu(): the PDUs
\* are handled in the order they were sent, and byte by byte the buffers have
\* the others, from the first not handled to the last that was sent.
StreamIntact ==
  /\ \A i \in 1..Len(got) : got[i] = i
  /\ IF InTransit = <<>> THEN Len(got) = sent
     ELSE /\ InTransit[1] = <<Len(got) + 1, 1>>
          /\ InTransit[Len(InTransit)] = <<sent, Size[sent]>>
          /\ \A i \in 2..Len(InTransit) : InTransit[i] = NextByte(InTransit[i - 1])

\* A queue in m_out_buf has an event to come that flushes it, unless one was
\* reported and OnWrite() not called: it came together with data to read
\* (EventDispatch.cpp:332), or was taken for the confirm.
WakeupPending == busy => noSpace \/ ready \/ missed

\* The abstract channel: the PDUs arrive as they were sent, and all of them do
\* if in the end no report for m_out_buf is left without its OnWrite(), as when
\* there is traffic in one direction only and no send before the confirm.
Chan == INSTANCE PduChannel WITH MaxPdus <- MaxPdus, sent <- sent, got <- got
ImplementsChan == Chan!ChanSafety /\ (<>[]~missed => Chan!ChanLiveness)
=============================================================================
