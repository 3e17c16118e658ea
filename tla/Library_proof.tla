--------------------------- MODULE Library_proof ----------------------------
(***************************************************************************)
(* Theorems about the parts of the library: for any number of clients and  *)
(* descriptors, PDUs, threads and bytes.                                   *)
(***************************************************************************)
EXTENDS AcceptLoop, EventThread, SelectStream, LoadGen, LogFile, LockedRef,
        SimpleBuffer, FiniteSetTheorems, SequenceTheorems, TLAPS

-----------------------------------------------------------------------------
(* Accepting.  The invariant is inductive as it stands.                    *)

\* BaseSocket.cpp:291: a client is left in the backlog only by a loop that ended
\* for want of descriptors.
THEOREM StrandedOnlyStarvedHolds == AcceptSpec => []StrandedOnlyStarved
<1>1. AcceptInit => StrandedOnlyStarved
  BY DEF AcceptInit, StrandedOnlyStarved
<1>2. StrandedOnlyStarved /\ [AcceptNext]_acceptVars => StrandedOnlyStarved'
  <2> SUFFICES ASSUME StrandedOnlyStarved, [AcceptNext]_acceptVars
               PROVE  StrandedOnlyStarved'
    OBVIOUS
  <2> USE DEF StrandedOnlyStarved
  <2>1. CASE AcceptEvent
    BY <2>1 DEF AcceptEvent
  <2>2. CASE AcceptOne
    BY <2>2 DEF AcceptOne
  <2>3. CASE AcceptFails
    BY <2>3 DEF AcceptFails
  <2>4. ASSUME NEW c \in Clients, ClientArrives(c)
        PROVE  StrandedOnlyStarved'
    BY <2>4 DEF ClientArrives
  <2>5. ASSUME NEW c \in Clients, Close(c)
        PROVE  StrandedOnlyStarved'
    BY <2>5 DEF Close
  <2>6. CASE UNCHANGED acceptVars
    BY <2>6 DEF acceptVars
  <2> QED
    BY <2>1, <2>2, <2>3, <2>4, <2>5, <2>6 DEF AcceptNext, Loop
<1> QED
  BY <1>1, <1>2, PTL DEF AcceptSpec

-----------------------------------------------------------------------------
(* Starting and stopping a thread.                                         *)

\* A worker between its test of the flag and its tick has not ticked since the
\* flag was cleared, and only a start is under way with the flag set.
WorkerInv ==
  /\ workerAt \in [Workers -> {"none", "test", "go", "tick", "done"}]
  /\ stopped \in [Workers -> Nat]
  /\ running \in BOOLEAN
  /\ caller = "starting" => running
  /\ ~running => \A w \in Workers : /\ stopped[w] <= 1
                                    /\ workerAt[w] = "go" => stopped[w] = 0
  /\ RunningIsServed

\* util.cpp:50,56: a started thread has a worker, and one that is stopped begins
\* no more than one tick per worker.
THEOREM StartStopKeptHolds == WorkerSpec => []StartStopKept
<1>1. WorkerInit => WorkerInv
  <2> SUFFICES ASSUME WorkerInit
               PROVE  WorkerInv
    OBVIOUS
  <2>1. ~running /\ running \in BOOLEAN /\ caller # "starting"
    BY DEF WorkerInit
  <2>2. /\ workerAt \in [Workers -> {"none", "test", "go", "tick", "done"}]
        /\ stopped \in [Workers -> Nat]
        /\ \A w \in Workers : stopped[w] = 0
    BY DEF WorkerInit
  <2> QED
    BY <2>1, <2>2 DEF WorkerInv, RunningIsServed
<1>2. WorkerInv /\ [WorkerNext]_workerVars => WorkerInv'
  <2> SUFFICES ASSUME WorkerInv, [WorkerNext]_workerVars
               PROVE  WorkerInv'
    OBVIOUS
  <2> USE DEF WorkerInv, RunningIsServed, Alive
  <2>1. CASE StartFlag
    BY <2>1 DEF StartFlag
  <2>2. CASE CreateFails
    BY <2>2 DEF CreateFails
  <2>3. ASSUME NEW w \in Workers, StartCreate(w)
        PROVE  WorkerInv'
    <3>1. w \in Alive'
      BY <2>3 DEF StartCreate
    <3> QED
      BY <2>3, <3>1 DEF StartCreate
  <2>4. CASE Stop
    <3>1. ~running' /\ running' \in BOOLEAN /\ caller' # "starting"
      BY <2>4 DEF Stop
    <3>2. /\ workerAt' \in [Workers -> {"none", "test", "go", "tick", "done"}]
          /\ stopped' \in [Workers -> Nat]
          /\ \A w \in Workers : stopped'[w] = 0
      BY <2>4 DEF Stop
    <3> QED
      BY <3>1, <3>2
  <2>5. ASSUME NEW w \in Workers, Run(w)
        PROVE  WorkerInv'
    <3>1. CASE Test(w)
      BY <3>1 DEF Test
    <3>2. CASE TickBegin(w)
      BY <3>2 DEF TickBegin
    <3>3. CASE TickEnd(w)
      BY <3>3 DEF TickEnd
    <3>4. CASE TestEnd(w)
      BY <3>4 DEF TestEnd
    <3> QED
      BY <2>5, <3>1, <3>2, <3>3, <3>4 DEF Run
  <2>6. CASE UNCHANGED workerVars
    BY <2>6 DEF workerVars
  <2> QED
    BY <2>1, <2>2, <2>3, <2>4, <2>5, <2>6 DEF WorkerNext, StartThread
<1>3. WorkerInv => StartStopKept
  BY DEF WorkerInv, StartStopKept, OneLateTick
<1> QED
  BY <1>1, <1>2, <1>3, PTL DEF WorkerSpec

-----------------------------------------------------------------------------
(* Sending with select() or kqueue.                                        *)

\* Without what else the provers know of sequences.
Cat(x, y) == x \o y
Stream == Seq(Nat)
Upto(n) == [i \in 1..n |-> i]

LEMMA CatStreams ==
  /\ \A x \in Stream, y \in Stream : Cat(x, y) \in Stream
  /\ \A x \in Stream, y \in Stream, z \in Stream : Cat(Cat(x, y), z) = Cat(x, Cat(y, z))
  /\ <<>> \in Stream
  /\ \A x \in Stream : Cat(x, <<>>) = x
<1>1. ASSUME NEW x \in Seq(Nat), NEW y \in Seq(Nat)
      PROVE  x \o y \in Seq(Nat)
  BY ConcatProperties
<1>2. ASSUME NEW x \in Seq(Nat), NEW y \in Seq(Nat), NEW z \in Seq(Nat)
      PROVE  (x \o y) \o z = x \o (y \o z)
  <2>1. PICK S : S = Nat
    OBVIOUS
  <2>2. x \in Seq(S) /\ y \in Seq(S) /\ z \in Seq(S)
    BY <1>2, <2>1
  <2> QED
    BY <2>2, ConcatAssociative
<1>3. <<>> \in Seq(Nat) /\ \A x \in Seq(Nat) : x \o <<>> = x
  BY EmptySeq, ConcatEmptySeq
<1> QED
  BY <1>1, <1>2, <1>3 DEF Cat, Stream

\* Bytes cut off the front.
LEMMA CutAt ==
  ASSUME NEW s \in Stream, NEW n \in 0..Len(s)
  PROVE  /\ SubSeq(s, 1, n) \in Stream /\ SubSeq(s, n + 1, Len(s)) \in Stream
         /\ Len(SubSeq(s, n + 1, Len(s))) = Len(s) - n
         /\ Cat(SubSeq(s, 1, n), SubSeq(s, n + 1, Len(s))) = s
<1> USE DEF Stream
<1>1. Len(s) \in Nat /\ n \in Int /\ n + 1 \in Int /\ Len(s) \in Int /\ \A i \in 1..Len(s) : s[i] \in Nat
  OBVIOUS
<1>2. PICK one \in Int : one = 1
  OBVIOUS
<1>3. SubSeq(s, one, n) \in Seq(Nat)
  <2>1. \A i \in one..n : s[i] \in Nat
    BY <1>1, <1>2
  <2> QED
    BY <1>1, <2>1, SubSeqProperties
<1>4. /\ SubSeq(s, n + 1, Len(s)) \in Seq(Nat)
      /\ Len(SubSeq(s, n + 1, Len(s))) = IF n + 1 <= Len(s) THEN Len(s) - (n + 1) + 1 ELSE 0
  <2>1. \A i \in (n + 1)..Len(s) : s[i] \in Nat
    BY <1>1
  <2> QED
    BY <1>1, <2>1, SubSeqProperties
<1>5. SubSeq(s, one, n) \o SubSeq(s, n + 1, Len(s)) = SubSeq(s, one, Len(s))
  <2>1. one \in 1..Len(s) + 1 /\ n \in one - 1..Len(s) /\ Len(s) \in n..Len(s)
    BY <1>1, <1>2
  <2> QED
    BY <2>1, ConcatAdjacentSubSeq
<1>6. SubSeq(s, 1, Len(s)) = s
  BY SubSeqFull
<1>7. Len(SubSeq(s, n + 1, Len(s))) = Len(s) - n
  BY <1>1, <1>4
<1> QED
  BY <1>2, <1>3, <1>4, <1>5, <1>6, <1>7 DEF Cat

LEMMA TakenPart ==
  ASSUME wire \in Stream, NEW len \in Nat
  PROVE  Taken(len) \in 0..len
BY SelectAssumption DEF Taken, Stream

LEMMA PduShape ==
  ASSUME NEW k \in Nat \ {0}
  PROVE  Pdu(k) \in Stream /\ Len(Pdu(k)) = Size /\ Pdu(k) # <<>>
<1>1. Size \in Nat /\ Size > 0
  BY SelectAssumption
<1>2. \A i \in 1..Size : (k - 1) * Size + i \in Nat
  <2>1. PICK j \in Nat : j = k - 1
    OBVIOUS
  <2>2. j * Size \in Nat
    BY <1>1
  <2> QED
    BY <1>1, <2>1, <2>2
<1>3. Pdu(k) \in Seq(Nat)
  BY <1>1, <1>2 DEF Pdu
<1>4. Len(Pdu(k)) = Size
  BY <1>1 DEF Pdu
<1>5. Pdu(k) # <<>>
  BY <1>1, <1>4
<1> QED
  BY <1>3, <1>4, <1>5 DEF Stream

\* What is queued in order and not read: the bytes of the PDUs sent so far.  A
\* queue has its event to come or has missed it; a socket asks for one while it
\* connects, and then only for a queue.
SelectInv ==
  /\ sent \in Nat
  /\ received \in Stream /\ wire \in Stream /\ outBuf \in Stream
  /\ connected \in BOOLEAN /\ interest \in BOOLEAN /\ reported \in BOOLEAN
  /\ busy \in BOOLEAN /\ missed \in BOOLEAN
  /\ busy <=> outBuf # <<>>
  /\ reported => interest
  /\ ~connected => interest /\ ~missed
  /\ connected /\ ~busy => ~interest
  /\ ~busy => ~missed
  /\ FlushAsked

\* The bytes taken and the rest are those given to send(), and the rest has
\* asked for its event or missed it.
LEMMA SocketSendCuts ==
  ASSUME wire \in Stream, NEW bytes \in Stream, bytes # <<>>, SocketSend(bytes, FALSE)
  PROVE  /\ \E v \in Stream : wire' = Cat(wire, v) /\ Cat(v, outBuf') = bytes
         /\ outBuf' \in Stream /\ wire' \in Stream
         /\ busy' \in BOOLEAN /\ interest' \in BOOLEAN /\ missed' \in BOOLEAN
         /\ busy' <=> outBuf' # <<>>
         /\ busy' => (interest' <=> ~missed')
         /\ ~busy' => ~interest' /\ ~missed'
<1>1. PICK len \in Nat \ {0} : len = Len(bytes)
  BY EmptySeq DEF Stream
<1>2. PICK n \in 0..len : n = Taken(len)
  BY <1>1, TakenPart
<1>3. /\ wire' = wire \o SubSeq(bytes, 1, n)
      /\ outBuf' = SubSeq(bytes, n + 1, Len(bytes))
      /\ busy' = (n < len) /\ interest' = (FALSE \/ n = 0) /\ missed' = (0 < n /\ n < len)
  BY <1>1, <1>2, Zenon DEF SocketSend
<1>4. /\ SubSeq(bytes, 1, n) \in Stream /\ outBuf' \in Stream
      /\ Len(outBuf') = len - n
      /\ Cat(SubSeq(bytes, 1, n), outBuf') = bytes
  BY <1>1, <1>2, <1>3, CutAt
<1>5. wire' = Cat(wire, SubSeq(bytes, 1, n)) /\ wire' \in Stream
  BY <1>3, <1>4, CatStreams DEF Cat
<1>6. outBuf' # <<>> <=> n < len
  <2>1. outBuf' # <<>> <=> Len(outBuf') # 0
    BY <1>4, EmptySeq DEF Stream
  <2> QED
    BY <1>2, <1>4, <2>1
<1>7. /\ n = 0 => n < len
      /\ n < len => (n = 0 <=> ~(0 < n /\ n < len))
      /\ ~(n < len) => n # 0 /\ ~(0 < n /\ n < len)
  OBVIOUS
<1>8. \E v \in Stream : wire' = Cat(wire, v) /\ Cat(v, outBuf') = bytes
  BY <1>4, <1>5
<1>9. (busy' <=> n < len) /\ (interest' <=> n = 0) /\ (missed' <=> 0 < n /\ n < len)
  BY <1>3, Zenon
<1>10. busy' \in BOOLEAN /\ interest' \in BOOLEAN /\ missed' \in BOOLEAN
  BY <1>3
<1> QED
  BY <1>4, <1>5, <1>6, <1>7, <1>8, <1>9, <1>10, Zenon

LEMMA SelectStart == SelectInit => SelectInv
<1> SUFFICES ASSUME SelectInit
             PROVE  SelectInv
  OBVIOUS
<1>1. sent \in Nat /\ received = <<>> /\ wire = <<>> /\ outBuf = <<>>
  BY DEF SelectInit
<1>2. connected \in BOOLEAN /\ interest = ~connected /\ reported = FALSE /\ busy = FALSE /\ missed = FALSE
  BY DEF SelectInit
<1>3. <<>> \in Stream
  BY CatStreams
<1> QED
  BY <1>1, <1>2, <1>3, Zenon DEF SelectInv, FlushAsked

LEMMA SelectStep == SelectInv /\ [SelectNext]_selectVars => SelectInv'
<1> SUFFICES ASSUME SelectInv, [SelectNext]_selectVars
             PROVE  SelectInv'
  OBVIOUS
<1>1. CASE Send
  <2>1. PICK k \in Nat \ {0} : k = sent + 1
    BY DEF SelectInv
  <2>2. sent' \in Nat /\ UNCHANGED <<connected, reported, received>>
    BY <1>1, <2>1 DEF Send
  <2>3. Pdu(k) \in Stream /\ Pdu(k) # <<>>
    BY PduShape
  <2>4. CASE busy
    <3>1. outBuf' = Cat(outBuf, Pdu(k)) /\ UNCHANGED <<busy, wire, interest, missed>>
      BY <1>1, <2>1, <2>4, Zenon DEF Send, Cat
    <3>2. outBuf' \in Stream
      BY <2>3, <3>1, CatStreams DEF SelectInv
    <3>3. outBuf' # <<>>
      BY <2>3, <3>1, ConcatEqualIffEmpty DEF SelectInv, Cat, Stream
    <3> QED
      BY <2>2, <2>4, <3>1, <3>2, <3>3, Zenon DEF SelectInv, FlushAsked
  <2>5. CASE ~busy /\ ~connected
    <3>1. outBuf' = Pdu(k) /\ busy' = TRUE /\ UNCHANGED <<wire, interest, missed>>
      BY <1>1, <2>1, <2>5, Zenon DEF Send
    <3> QED
      BY <2>2, <2>3, <2>5, <3>1, Zenon DEF SelectInv, FlushAsked
  <2>6. CASE ~busy /\ connected
    <3>1. SocketSend(Pdu(k), FALSE)
      <4>1. SocketSend(Pdu(sent + 1), interest) /\ interest = FALSE
        BY <1>1, <2>6, Zenon DEF Send, SelectInv
      <4> QED
        BY <2>1, <4>1
    <3>2. /\ outBuf' \in Stream /\ wire' \in Stream
          /\ busy' \in BOOLEAN /\ interest' \in BOOLEAN /\ missed' \in BOOLEAN
          /\ busy' <=> outBuf' # <<>>
          /\ busy' => (interest' <=> ~missed')
          /\ ~busy' => ~interest' /\ ~missed'
      BY <2>3, <3>1, SocketSendCuts DEF SelectInv
    <3>3. ~reported
      BY <2>6, Zenon DEF SelectInv
    <3> QED
      BY <2>2, <2>6, <3>2, <3>3, Zenon DEF SelectInv, FlushAsked
  <2> QED
    BY <2>4, <2>5, <2>6, Zenon
<1>2. CASE Report
  BY <1>2, Zenon DEF Report, SelectInv, FlushAsked
<1>3. CASE OnWrite
  <2>1. reported' = FALSE /\ connected' = TRUE /\ UNCHANGED <<sent, received>>
    BY <1>3 DEF OnWrite
  <2>2. CASE connected /\ busy
    <3>1. SocketSend(outBuf, FALSE)
      BY <1>3, <2>2, Zenon DEF OnWrite
    <3>2. /\ outBuf' \in Stream /\ wire' \in Stream
          /\ busy' \in BOOLEAN /\ interest' \in BOOLEAN /\ missed' \in BOOLEAN
          /\ busy' <=> outBuf' # <<>>
          /\ busy' => (interest' <=> ~missed')
          /\ ~busy' => ~interest' /\ ~missed'
      <4>1. outBuf \in Stream /\ outBuf # <<>> /\ wire \in Stream
        BY <2>2, Zenon DEF SelectInv
      <4> QED
        BY <3>1, <4>1, SocketSendCuts
    <3> QED
      BY <2>1, <3>2, Zenon DEF SelectInv, FlushAsked
  <2>3. CASE ~(connected /\ busy)
    <3>1. interest' = FALSE /\ missed' = busy /\ UNCHANGED <<busy, outBuf, wire>>
      BY <1>3, <2>3, Zenon DEF OnWrite
    <3> QED
      BY <2>1, <3>1, Zenon DEF SelectInv, FlushAsked
  <2> QED
    BY <2>2, <2>3
<1>4. CASE PeerReads
  <2>1. /\ UNCHANGED <<connected, interest, reported, sent, busy, outBuf, missed>>
        /\ \E n \in 1..Len(wire) : /\ received' = received \o SubSeq(wire, 1, n)
                                   /\ wire' = SubSeq(wire, n + 1, Len(wire))
    BY <1>4, Zenon DEF PeerReads
  <2>2. PICK n \in 1..Len(wire) : /\ received' = Cat(received, SubSeq(wire, 1, n))
                                  /\ wire' = SubSeq(wire, n + 1, Len(wire))
    BY <2>1, Zenon DEF Cat
  <2>3. received' \in Stream /\ wire' \in Stream
    <3>1. n \in 0..Len(wire)
      BY DEF SelectInv, Stream
    <3> QED
      BY <2>2, <3>1, CutAt, CatStreams DEF SelectInv
  <2> QED
    BY <2>1, <2>3, Zenon DEF SelectInv, FlushAsked
<1>5. CASE UNCHANGED selectVars
  BY <1>5, Zenon DEF selectVars, SelectInv, FlushAsked
<1> QED
  BY <1>1, <1>2, <1>3, <1>4, <1>5 DEF SelectNext

\* BaseSocket.cpp:136-145: whatever is sent before the confirm, and whatever a
\* send() takes, a queue in m_out_buf has asked for the event that flushes it,
\* unless its event was dropped, after which it never does.
THEOREM FlushAskedHolds == SelectSpec => []FlushAsked
<1>1. SelectInv => FlushAsked
  BY DEF SelectInv
<1> QED
  BY <1>1, SelectStart, SelectStep, PTL DEF SelectSpec

\* Bytes read, in the kernels and queued are those of the PDUs sent, in order.
BytesInv == Cat(Cat(received, wire), outBuf) = Upto(sent * Size)

LEMMA UptoStream ==
  ASSUME NEW n \in Nat
  PROVE  Upto(n) \in Stream /\ Len(Upto(n)) = n /\ \A i \in 1..n : Upto(n)[i] = i
<1>1. Upto(n) \in Seq(Nat)
  BY DEF Upto
<1> QED
  BY <1>1 DEF Upto, Stream

\* The next PDU behind the bytes of all those before.
LEMMA UptoNext ==
  ASSUME NEW k \in Nat
  PROVE  Cat(Upto(k * Size), Pdu(k + 1)) = Upto((k + 1) * Size)
<1> DEFINE a == Upto(k * Size)
           b == Pdu(k + 1)
           c == Upto((k + 1) * Size)
<1>1. PICK z \in Nat : z = Size
  BY SelectAssumption
<1>2. PICK m \in Nat : m = k * Size
  BY <1>1
<1>3. (k + 1) * Size = m + z
  BY <1>1, <1>2
<1>4. a \in Stream /\ Len(a) = m /\ \A i \in 1..m : a[i] = i
  BY <1>2, UptoStream
<1>5. c \in Stream /\ Len(c) = m + z /\ \A i \in 1..(m + z) : c[i] = i
  BY <1>1, <1>2, <1>3, UptoStream
<1>6. b \in Stream /\ Len(b) = z /\ \A i \in 1..z : b[i] = m + i
  <2>1. b \in Stream /\ Len(b) = z
    BY <1>1, PduShape
  <2>2. ((k + 1) - 1) * Size = m
    BY <1>2
  <2> QED
    BY <1>1, <2>1, <2>2 DEF Pdu
<1> HIDE DEF a, b, c
<1>7. /\ a \o b \in Seq(Nat) /\ Len(a \o b) = m + z
      /\ \A i \in 1..(m + z) : (a \o b)[i] = IF i <= m THEN a[i] ELSE b[i - m]
  BY <1>4, <1>6, ConcatProperties DEF Stream
<1>8. \A i \in 1..(m + z) : (a \o b)[i] = c[i]
  <2> TAKE i \in 1..(m + z)
  <2>1. CASE i <= m
    BY <1>4, <1>5, <1>7, <2>1
  <2>2. CASE ~(i <= m)
    <3>1. i - m \in 1..z /\ m + (i - m) = i
      BY <2>2
    <3>2. b[i - m] = i
      BY <1>6, <3>1
    <3> QED
      BY <1>5, <1>7, <2>2, <3>2
  <2> QED
    BY <2>1, <2>2
<1>9. a \o b = c
  BY <1>5, <1>7, <1>8, SeqEqual DEF Stream
<1> QED
  BY <1>9 DEF Cat, a, b, c

LEMMA BytesStart == SelectInit => BytesInv
<1> SUFFICES ASSUME SelectInit
             PROVE  BytesInv
  OBVIOUS
<1>1. sent = 0 /\ received = <<>> /\ wire = <<>> /\ outBuf = <<>>
  BY DEF SelectInit
<1>2. 0 * Size = 0
  BY SelectAssumption
<1>3. Cat(Cat(<<>>, <<>>), <<>>) = <<>>
  BY CatStreams
<1>4. Upto(0) = <<>>
  BY DEF Upto
<1> QED
  BY <1>1, <1>2, <1>3, <1>4 DEF BytesInv

LEMMA BytesStep == SelectInv /\ BytesInv /\ [SelectNext]_selectVars => BytesInv'
<1> SUFFICES ASSUME SelectInv, BytesInv, [SelectNext]_selectVars
             PROVE  BytesInv'
  OBVIOUS
<1>1. received \in Stream /\ wire \in Stream /\ outBuf \in Stream /\ sent \in Nat
  BY DEF SelectInv
<1>2. Cat(Cat(received, wire), outBuf) = Upto(sent * Size)
  BY DEF BytesInv
<1>3. CASE Send
  <2>1. PICK k \in Nat \ {0} : k = sent + 1
    BY <1>1
  <2>2. sent' = k /\ received' = received
    BY <1>3, <2>1 DEF Send
  <2>3. Pdu(k) \in Stream /\ Pdu(k) # <<>>
    BY PduShape
  <2>4. Upto(k * Size) = Cat(Cat(Cat(received, wire), outBuf), Pdu(k))
    BY <1>1, <1>2, <2>1, UptoNext
  <2>5. CASE busy
    <3>1. outBuf' = Cat(outBuf, Pdu(k)) /\ wire' = wire
      BY <1>3, <2>1, <2>5, Zenon DEF Send, Cat
    <3>2. Cat(Cat(received, wire), Cat(outBuf, Pdu(k))) = Upto(k * Size)
      BY <1>1, <2>3, <2>4, CatStreams
    <3> QED
      BY <2>2, <3>1, <3>2 DEF BytesInv
  <2>6. CASE ~busy
    <3>1. Upto(k * Size) = Cat(Cat(received, wire), Pdu(k))
      <4>1. outBuf = <<>>
        BY <2>6, Zenon DEF SelectInv
      <4> QED
        BY <1>1, <2>4, <4>1, CatStreams
    <3>2. CASE ~connected
      <4>1. outBuf' = Pdu(k) /\ wire' = wire
        BY <1>3, <2>1, <2>6, <3>2, Zenon DEF Send
      <4> QED
        BY <2>2, <3>1, <4>1 DEF BytesInv
    <3>3. CASE connected
      <4>1. SocketSend(Pdu(k), FALSE)
        <5>1. SocketSend(Pdu(sent + 1), interest) /\ interest = FALSE
          BY <1>3, <2>6, <3>3, Zenon DEF Send, SelectInv
        <5> QED
          BY <2>1, <5>1
      <4>2. PICK v \in Stream : wire' = Cat(wire, v) /\ Cat(v, outBuf') = Pdu(k)
        BY <1>1, <2>3, <4>1, SocketSendCuts
      <4>3. outBuf' \in Stream
        BY <1>1, <2>3, <4>1, SocketSendCuts
      <4>4. Cat(Cat(received, Cat(wire, v)), outBuf') = Cat(Cat(received, wire), Pdu(k))
        BY <1>1, <4>2, <4>3, CatStreams
      <4> QED
        BY <2>2, <3>1, <4>2, <4>4 DEF BytesInv
    <3> QED
      BY <3>2, <3>3
  <2> QED
    BY <2>5, <2>6
<1>4. CASE OnWrite
  <2>1. sent' = sent /\ received' = received
    BY <1>4 DEF OnWrite
  <2>2. CASE connected /\ busy
    <3>1. SocketSend(outBuf, FALSE) /\ outBuf # <<>>
      BY <1>4, <2>2, Zenon DEF OnWrite, SelectInv
    <3>2. PICK v \in Stream : wire' = Cat(wire, v) /\ Cat(v, outBuf') = outBuf
      BY <1>1, <3>1, SocketSendCuts
    <3>3. outBuf' \in Stream
      BY <1>1, <3>1, SocketSendCuts
    <3>4. Cat(Cat(received, Cat(wire, v)), outBuf') = Cat(Cat(received, wire), outBuf)
      BY <1>1, <3>2, <3>3, CatStreams
    <3> QED
      BY <1>2, <2>1, <3>2, <3>4 DEF BytesInv
  <2>3. CASE ~(connected /\ busy)
    <3>1. wire' = wire /\ outBuf' = outBuf
      BY <1>4, <2>3, Zenon DEF OnWrite
    <3> QED
      BY <1>2, <2>1, <3>1 DEF BytesInv
  <2> QED
    BY <2>2, <2>3
<1>5. CASE PeerReads
  <2>1. PICK n \in 1..Len(wire) : /\ received' = Cat(received, SubSeq(wire, 1, n))
                                  /\ wire' = SubSeq(wire, n + 1, Len(wire))
    BY <1>5, Zenon DEF PeerReads, Cat
  <2>2. n \in 0..Len(wire)
    BY <1>1 DEF Stream
  <2>3. PICK v \in Stream : v = SubSeq(wire, 1, n)
    BY <1>1, <2>2, CutAt
  <2>4. wire' \in Stream /\ Cat(v, wire') = wire
    BY <1>1, <2>1, <2>2, <2>3, CutAt
  <2>5. Cat(Cat(Cat(received, v), wire'), outBuf) = Cat(Cat(received, wire), outBuf)
    BY <1>1, <2>4, CatStreams
  <2>6. sent' = sent /\ outBuf' = outBuf
    BY <1>5 DEF PeerReads
  <2> QED
    BY <1>2, <2>1, <2>3, <2>5, <2>6 DEF BytesInv
<1>6. CASE Report \/ UNCHANGED selectVars
  <2>1. UNCHANGED <<received, wire, outBuf, sent>>
    BY <1>6 DEF Report, selectVars
  <2> QED
    BY <1>2, <2>1 DEF BytesInv
<1> QED
  BY <1>3, <1>4, <1>5, <1>6 DEF SelectNext

\* As many whole PDUs as there are lengths in the bytes read.
LEMMA WholePdus ==
  ASSUME NEW n \in Nat
  PROVE  /\ n \div Size \in Nat
         /\ Size * (n \div Size) <= n /\ n < Size * (n \div Size) + Size
BY SelectAssumption

LEMMA Times ==
  ASSUME NEW i \in Nat, NEW j \in Nat, Size * i < Size * j + Size
  PROVE  i <= j
<1>1. Size \in Nat /\ Size > 0
  BY SelectAssumption
<1>2. CASE i >= j + 1
  <2>1. PICK k \in Nat : i = (j + 1) + k
    <3>1. i - (j + 1) \in Nat /\ i = (j + 1) + (i - (j + 1))
      BY <1>2
    <3> QED
      BY <3>1
  <2>2. Size * i = Size * j + Size + Size * k /\ Size * k \in Nat /\ Size * j \in Nat
    BY <1>1, <2>1
  <2> QED
    BY <1>1, <2>2
<1> QED
  BY <1>2

\* The bytes read are the first of those sent.
LEMMA ReceivedInOrder ==
  ASSUME SelectInv, BytesInv
  PROVE  /\ Len(received) \in Nat /\ Len(received) <= sent * Size
         /\ \A i \in 1..Len(received) : received[i] = i
<1>1. received \in Stream /\ Cat(wire, outBuf) \in Stream /\ sent \in Nat
  BY CatStreams DEF SelectInv
<1>2. PICK rest \in Stream : rest = Cat(wire, outBuf)
  BY <1>1
<1>3. received \o rest = Upto(sent * Size)
  BY <1>2, CatStreams DEF SelectInv, BytesInv, Cat
<1>4. PICK m \in Nat : m = sent * Size
  BY <1>1, SelectAssumption
<1>5. PICK n \in Nat, l \in Nat : n = Len(received) /\ l = Len(rest)
  BY <1>1, <1>2 DEF Stream
<1>6. /\ Len(received \o rest) = n + l
      /\ \A i \in 1..(n + l) : (received \o rest)[i] = IF i <= n THEN received[i] ELSE rest[i - n]
  BY <1>1, <1>2, <1>5, ConcatProperties DEF Stream
<1>7. Len(Upto(m)) = m /\ \A i \in 1..m : Upto(m)[i] = i
  BY UptoStream
<1>8. m = n + l
  BY <1>3, <1>4, <1>6, <1>7
<1>9. \A i \in 1..n : received[i] = i
  <2> TAKE i \in 1..n
  <2>1. i \in 1..m /\ i \in 1..(n + l) /\ i <= n
    BY <1>8
  <2> QED
    BY <1>3, <1>4, <1>6, <1>7, <2>1
<1> QED
  BY <1>4, <1>5, <1>8, <1>9

\* The i-th Size bytes read are the i-th PDU.
LEMMA HandledInOrder ==
  ASSUME SelectInv, BytesInv, NEW i \in 1..(Len(received) \div Size)
  PROVE  i <= sent /\ Handled(i) = i
<1>1. PICK z \in Nat \ {0} : z = Size
  BY SelectAssumption
<1>2. PICK n \in Nat : /\ n = Len(received) /\ n <= sent * Size
                       /\ \A x \in 1..n : received[x] = x
  BY ReceivedInOrder
<1>3. PICK j \in Nat : i = j + 1
  <2>1. i - 1 \in Nat /\ i = (i - 1) + 1
    BY <1>2, WholePdus
  <2> QED
    BY <2>1
<1>4. PICK low \in Nat : low = j * z
  OBVIOUS
<1>5. (i - 1) * Size = low /\ i * Size = low + z
  BY <1>1, <1>3, <1>4
<1>6. low + z <= n
  <2>1. PICK q \in Nat : q = n \div Size /\ Size * q <= n
    BY <1>2, WholePdus
  <2>2. PICK d \in Nat : q = i + d
    <3>1. q - i \in Nat /\ q = i + (q - i)
      BY <1>2, <2>1
    <3> QED
      BY <3>1
  <2>3. z * q = i * z + z * d /\ z * d \in Nat
    BY <1>3, <2>2
  <2> QED
    BY <1>1, <1>5, <2>1, <2>3
<1>7. sent \in Nat
  BY DEF SelectInv
<1>8. i \in 1..sent
  <2>1. Size * i = low + z /\ sent * Size = Size * sent /\ Size * sent \in Nat
    BY <1>1, <1>3, <1>5, <1>7
  <2>2. Size * i < Size * sent + Size
    BY <1>1, <1>2, <1>6, <2>1
  <2> QED
    BY <1>3, <1>7, <2>2, Times
<1> DEFINE b == SubSeq(received, low + 1, low + z)
<1>9. b = Pdu(i)
  <2>1. /\ b \in Seq(Nat) /\ Len(b) = z
        /\ \A x \in 1..z : b[x] = received[(low + 1) + x - 1]
    <3>1. \A x \in (low + 1)..(low + z) : received[x] \in Nat
      BY <1>2, <1>6
    <3>2. /\ b \in Seq(Nat)
          /\ Len(b) = IF low + 1 <= low + z THEN (low + z) - (low + 1) + 1 ELSE 0
          /\ \A x \in 1..((low + z) - (low + 1) + 1) : b[x] = received[(low + 1) + x - 1]
      BY <3>1, SubSeqProperties
    <3>3. low + 1 <= low + z /\ (low + z) - (low + 1) + 1 = z
      OBVIOUS
    <3> HIDE DEF b
    <3> QED
      BY <3>2, <3>3
  <2> HIDE DEF b
  <2>2. \A x \in 1..z : b[x] = low + x
    <3> TAKE x \in 1..z
    <3>1. (low + 1) + x - 1 = low + x /\ low + x \in 1..n
      BY <1>6
    <3> QED
      BY <1>2, <2>1, <3>1
  <2>3. Pdu(i) \in Seq(Nat) /\ Len(Pdu(i)) = z /\ \A x \in 1..z : Pdu(i)[x] = low + x
    <3>1. Pdu(i) \in Seq(Nat) /\ Len(Pdu(i)) = z
      BY <1>1, <1>3, PduShape DEF Stream
    <3> QED
      BY <1>1, <1>5, <3>1 DEF Pdu
  <2> QED
    BY <2>1, <2>2, <2>3, SeqEqual
<1>10. \A k \in 1..sent : Pdu(k) = Pdu(i) => k = i
  <2> SUFFICES ASSUME NEW k \in 1..sent, Pdu(k) = Pdu(i)
               PROVE  k = i
    OBVIOUS
  <2>1. 1 \in 1..Size
    BY <1>1
  <2>2. Pdu(k)[1] = (k - 1) * Size + 1 /\ Pdu(i)[1] = (i - 1) * Size + 1
    BY <2>1 DEF Pdu
  <2>3. PICK h \in Nat : k = h + 1
    <3>1. k - 1 \in Nat /\ k = (k - 1) + 1
      BY <1>7
    <3> QED
      BY <3>1
  <2>4. (k - 1) * Size = Size * h /\ (i - 1) * Size = Size * j /\ Size * h \in Nat /\ Size * j \in Nat
    BY <1>1, <1>3, <2>3
  <2>5. Size * h = Size * j
    BY <2>2, <2>4
  <2>6. h <= j /\ j <= h
    <3>1. Size * h < Size * j + Size /\ Size * j < Size * h + Size
      BY <1>1, <2>4, <2>5
    <3> QED
      BY <3>1, Times
  <2> QED
    BY <1>3, <2>3, <2>6
<1>11. Handled(i) = IF \E k \in 1..sent : b = Pdu(k) THEN CHOOSE k \in 1..sent : b = Pdu(k) ELSE 0
  BY <1>5 DEF Handled
<1> HIDE DEF b
<1> QED
  BY <1>7, <1>8, <1>9, <1>10, <1>11

\* What the other end has handled.
Handleds == [i \in 1..(Len(received) \div Size) |-> Handled(i)]
Wholes == Len(received) \div Size

LEMMA HandledsInOrder ==
  SelectInv /\ BytesInv => Handleds = Upto(Wholes) /\ Wholes \in 0..sent
<1> SUFFICES ASSUME SelectInv, BytesInv
             PROVE  Handleds = Upto(Wholes) /\ Wholes \in 0..sent
  OBVIOUS
<1>1. Wholes \in Nat /\ sent \in Nat
  BY ReceivedInOrder, WholePdus DEF Wholes, SelectInv
<1>2. \A i \in 1..Wholes : i <= sent /\ Handled(i) = i
  BY HandledInOrder DEF Wholes
<1>3. Wholes <= sent
  <2>1. CASE Wholes = 0
    BY <1>1, <2>1
  <2>2. CASE Wholes # 0
    <3>1. Wholes \in 1..Wholes
      BY <1>1, <2>2
    <3> QED
      BY <1>2, <3>1
  <2> QED
    BY <2>1, <2>2
<1>4. Handleds = Upto(Wholes)
  BY <1>2 DEF Handleds, Upto, Wholes
<1> QED
  BY <1>1, <1>3, <1>4

\* Every step is one of the abstract channel, or none, whatever a send takes and
\* whenever the first comes: what the other end reads are the PDUs that were sent,
\* byte for byte, in order, and none twice.
THEOREM SelectImplementsChannel == SelectSpec => Chan!ChanSafety
<1>1. SelectInit => Chan!ChanInit
  <2> SUFFICES ASSUME SelectInit
               PROVE  Chan!ChanInit
    OBVIOUS
  <2>1. sent = 0 /\ received = <<>>
    BY DEF SelectInit
  <2>2. Len(<<>>) \div Size = 0
    BY SelectAssumption
  <2>3. [i \in 1..(Len(received) \div Size) |-> Handled(i)] = <<>>
    BY <2>1, <2>2
  <2> QED
    BY <2>1, <2>3 DEF Chan!ChanInit
<1>2. (SelectInv /\ BytesInv => Handleds = Upto(Wholes) /\ Wholes \in 0..sent)'
  BY HandledsInOrder, PTL
<1>3. SelectInv /\ BytesInv /\ SelectInv' /\ BytesInv' /\ [SelectNext]_selectVars
        => [Chan!Put \/ Chan!Take]_Chan!chanVars
  <2> SUFFICES ASSUME SelectInv, BytesInv, SelectInv', BytesInv', [SelectNext]_selectVars
               PROVE  [Chan!Put \/ Chan!Take]_Chan!chanVars
    OBVIOUS
  <2>1. Handleds = Upto(Wholes) /\ Wholes \in 0..sent /\ sent \in Nat
    BY HandledsInOrder DEF SelectInv
  <2>2. Handleds' = Upto(Wholes') /\ Wholes' \in 0..sent'
    BY <1>2 DEF Upto
  <2>3. received' = received => Handleds' = Handleds
    BY <2>1, <2>2 DEF Wholes
  <2>4. CASE Send
    <3>1. sent < MaxPdus /\ sent' = sent + 1 /\ received' = received
      BY <2>4, Zenon DEF Send
    <3> QED
      BY <2>3, <3>1 DEF Chan!Put, Handleds
  <2>5. CASE PeerReads
    <3>1. sent' = sent
      BY <2>5 DEF PeerReads
    <3>2. Wholes <= Wholes'
      <4>1. PICK n \in 1..Len(wire) : received' = received \o SubSeq(wire, 1, n)
        BY <2>5, Zenon DEF PeerReads
      <4>2. n \in 0..Len(wire) /\ wire \in Stream /\ received \in Stream
        BY DEF SelectInv, Stream
      <4>3. PICK v \in Seq(Nat) : v = SubSeq(wire, 1, n)
        BY <4>2, CutAt DEF Stream
      <4>4. Len(received') = Len(received) + Len(v) /\ Len(received) \in Nat /\ Len(v) \in Nat
        BY <4>1, <4>2, <4>3, ConcatProperties DEF Stream
      <4>5. PICK l \in Nat, m \in Nat : l = Len(received) /\ m = Len(received') /\ l <= m
        BY <4>4
      <4>6. PICK j \in Nat, k \in Nat : /\ j = Wholes /\ k = Wholes'
                                        /\ Size * j <= l /\ m < Size * k + Size
        BY <4>5, WholePdus DEF Wholes
      <4>7. Size * j < Size * k + Size
        <5>1. Size * j \in Nat /\ Size * k + Size \in Nat
          BY SelectAssumption
        <5> QED
          BY <4>5, <4>6, <5>1
      <4> QED
        BY <4>6, <4>7, Times
    <3>3. CASE Wholes' = Wholes
      BY <2>1, <2>2, <3>1, <3>3 DEF Chan!chanVars, Handleds
    <3>4. CASE Wholes' # Wholes
      <4>1. Len(Handleds) = Wholes
        BY <2>1, UptoStream
      <4>2. Wholes' \in (Len(Handleds) + 1)..sent
        BY <2>1, <2>2, <3>1, <3>2, <3>4, <4>1
      <4>3. Handleds' = [i \in 1..Wholes' |-> i]
        BY <2>2 DEF Upto
      <4> QED
        BY <3>1, <4>2, <4>3 DEF Chan!Take, Handleds
    <3> QED
      BY <3>3, <3>4
  <2>6. CASE Report \/ OnWrite \/ UNCHANGED selectVars
    <3>1. sent' = sent /\ received' = received
      BY <2>6 DEF Report, OnWrite, selectVars
    <3> QED
      BY <2>3, <3>1 DEF Chan!chanVars, Handleds
  <2> QED
    BY <2>4, <2>5, <2>6 DEF SelectNext
<1> QED
  BY <1>1, <1>3, SelectStart, SelectStep, BytesStart, BytesStep, PTL DEF SelectSpec, Chan!ChanSafety

-----------------------------------------------------------------------------
(* The load generator.                                                     *)

\* Connections from next on are not begun, and one that is open has logged in
\* or passes for the one to route_server.
LoadInv ==
  /\ next \in Nat
  /\ DOMAIN state = Users
  /\ \A u \in Users : u >= next => state[u] = "IDLE"
  /\ \A u \in Users \ {0} : state[u] = "OPEN" => u \in online
  /\ routeConn # NoUser => 0 \in Users
  /\ ZeroIsRoute

\* imconn.cpp:247: whatever ids the clients are given, one that sends has sent
\* its online request, the one with the id 0 excepted, and an offline request
\* goes over the connection of that one and of no other.
THEOREM ZeroIsRouteHolds == LoadSpec => []ZeroIsRoute
<1> Users \subseteq Nat /\ SrcMin \in Nat /\ NoUser # 0
  BY LoadAssumption DEF Users
<1>1. LoadInit => LoadInv
  BY DEF LoadInit, LoadInv, ZeroIsRoute
<1>2. LoadInv /\ [LoadNext]_loadVars => LoadInv'
  <2> SUFFICES ASSUME LoadInv, [LoadNext]_loadVars
               PROVE  LoadInv'
    OBVIOUS
  <2>1. CASE Connect
    <3>1. /\ next \in Users /\ next \in Nat /\ next' = next + 1
          /\ DOMAIN state' = Users
          /\ \A u \in Users : state'[u] = IF u = next THEN "CONNECTING" ELSE state[u]
          /\ UNCHANGED <<routeConn, online, offline, from>>
      BY <2>1 DEF Connect, LoadInv, history
    <3>2. state[next] = "IDLE"
      BY <3>1 DEF LoadInv
    <3>3. \A u \in Users : u >= next + 1 => u >= next /\ u # next
      BY <3>1
    <3> QED
      BY <3>1, <3>2, <3>3 DEF LoadInv, ZeroIsRoute
  <2>2. ASSUME NEW u \in Users, Confirm(u)
        PROVE  LoadInv'
    <3>1. ~(u >= next)
      BY <2>2 DEF Confirm, LoadInv
    <3> QED
      BY <2>2, <3>1 DEF Confirm, LoadInv, ZeroIsRoute
  <2>3. ASSUME NEW u \in Users, OnClose(u)
        PROVE  LoadInv'
    <3>1. ~(u >= next)
      BY <2>3 DEF OnClose, LoadInv
    <3> QED
      BY <2>3, <3>1 DEF OnClose, LoadInv, ZeroIsRoute
  <2>4. ASSUME NEW u \in Users, PickOpen(u)
        PROVE  LoadInv'
    BY <2>4 DEF PickOpen, LoadInv, ZeroIsRoute, conns
  <2>5. CASE \/ TimerDue \/ Trap \/ UNCHANGED loadVars
             \/ \E u \in Users : PickIdle(u)
    <3>1. UNCHANGED <<next, state, routeConn, online, offline, from>>
      BY <2>5 DEF TimerDue, Trap, PickIdle, loadVars, conns, history
    <3> QED
      BY <3>1 DEF LoadInv, ZeroIsRoute
  <2> QED
    BY <2>1, <2>2, <2>3, <2>4, <2>5 DEF LoadNext, Pick
<1>3. LoadInv => ZeroIsRoute
  BY DEF LoadInv
<1> QED
  BY <1>1, <1>2, <1>3, PTL DEF LoadSpec

-----------------------------------------------------------------------------
(* Logging.                                                                *)

Parts == Writers \X Nat \X {"head", "text"}

\* A thread that has got past the lock owns that of its process, and one that has
\* written the head of its line wrote last of all threads of the process.
LogInv ==
  /\ line \in [Writers -> Nat]
  /\ DOMAIN pc = Writers
  /\ lock \in [Procs -> Writers \union {Nobody}]
  /\ written \in [Procs -> Seq(Parts)]
  /\ \A t \in Writers : pc[t] \notin {"idle", "lock"} => lock[ProcOf[t]] = t
  /\ \A t \in Writers : pc[t] = "text" =>
       LET w == written[ProcOf[t]]
       IN  Len(w) > 0 /\ w[Len(w)] = <<t, line[t], "head">>
  /\ LinesWhole

\* What a thread that owns the lock appends.
LEMMA PartAppended ==
  ASSUME LogInv, NEW t \in Writers, NEW part \in {"head", "text"}, NEW step,
         WritePart(t, part, step), pc[t] \notin {"idle", "lock"},
         part = "text" => pc[t] = "text", step \notin {"idle", "lock"},
         step = "text" => part = "head"
  PROVE  LogInv'
<1> DEFINE p == ProcOf[t]
           x == <<t, line[t], part>>
           w == written[p]
           v == Append(w, x)
<1>1. /\ p \in Procs /\ x \in Parts /\ w \in Seq(Parts)
      /\ pc' = [pc EXCEPT ![t] = step] /\ written' = [written EXCEPT ![p] = v]
      /\ UNCHANGED <<line, lock>>
  BY LogAssumption DEF LogInv, Parts, WritePart, GoTo
<1>2. /\ v \in Seq(Parts) /\ Len(v) = Len(w) + 1 /\ Len(w) \in Nat
      /\ \A i \in 1..Len(w) : v[i] = w[i]
      /\ v[Len(v)] = x
  BY <1>1
<1> HIDE DEF p, w, v
<1>3. written' \in [Procs -> Seq(Parts)] /\ DOMAIN pc' = Writers
  BY <1>1, <1>2 DEF LogInv
<1>4. \A u \in Writers : pc'[u] \notin {"idle", "lock"} => lock'[ProcOf[u]] = u
  BY <1>1 DEF LogInv
<1>5. ASSUME NEW u \in Writers, pc'[u] = "text"
      PROVE  /\ Len(written'[ProcOf[u]]) > 0
             /\ written'[ProcOf[u]][Len(written'[ProcOf[u]])] = <<u, line'[u], "head">>
  <2>1. CASE u = t
    <3>1. step = "text" /\ part = "head"
      BY <1>1, <1>5, <2>1 DEF LogInv
    <3>2. written'[ProcOf[u]] = v
      BY <1>1, <2>1 DEF LogInv, p
    <3> QED
      BY <1>1, <1>2, <2>1, <3>1, <3>2
  <2>2. CASE u # t
    <3>1. pc[u] = "text" /\ lock[ProcOf[u]] = u /\ lock[p] = t
      BY <1>1, <1>5, <2>2 DEF LogInv, p
    <3>2. written'[ProcOf[u]] = written[ProcOf[u]]
      BY <1>1, <2>2, <3>1, LogAssumption DEF LogInv
    <3> QED
      BY <1>1, <3>1, <3>2 DEF LogInv
  <2> QED
    BY <2>1, <2>2
<1>6. LinesWhole'
  <2> SUFFICES ASSUME NEW q \in Procs, NEW i \in 1..Len(written'[q]),
                      written'[q][i][3] = "text"
               PROVE  /\ i > 1
                      /\ written'[q][i - 1] = <<written'[q][i][1], written'[q][i][2], "head">>
    BY DEF LinesWhole
  <2>1. CASE q # p
    BY <1>1, <2>1 DEF LogInv, LinesWhole
  <2>2. CASE q = p
    <3>1. written'[q] = v
      BY <1>1, <2>2 DEF LogInv
    <3>2. CASE i <= Len(w)
      <4>1. i \in 1..Len(w) /\ w[i][3] = "text"
        BY <1>2, <3>1, <3>2
      <4>2. i > 1 /\ w[i - 1] = <<w[i][1], w[i][2], "head">>
        BY <1>1, <4>1 DEF LogInv, LinesWhole, w
      <4> QED
        BY <1>2, <3>1, <4>1, <4>2
    <3>3. CASE i > Len(w)
      <4>1. i = Len(v) /\ part = "text"
        BY <1>2, <3>1, <3>3
      <4>2. Len(w) > 0 /\ w[Len(w)] = <<t, line[t], "head">>
        BY <4>1 DEF LogInv, w, p
      <4> QED
        BY <1>2, <3>1, <4>1, <4>2
    <3> QED
      BY <1>2, <3>2, <3>3
  <2> QED
    BY <2>1, <2>2
<1> QED
  BY <1>1, <1>3, <1>4, <1>5, <1>6 DEF LogInv

LEMMA LogStart == LogInit => LogInv
<1> SUFFICES ASSUME LogInit
             PROVE  LogInv
  OBVIOUS
<1>1. <<>> \in Seq(Parts) /\ Len(<<>>) = 0
  OBVIOUS
<1> QED
  BY <1>1 DEF LogInit, LogInv, LinesWhole

LEMMA LogNextInv == LogInv /\ [LogNext]_logVars => LogInv'
<1> SUFFICES ASSUME LogInv, [LogNext]_logVars
             PROVE  LogInv'
  OBVIOUS
<1>1. ASSUME NEW t \in Writers, Call(t)
      PROVE  LogInv'
  <2>1. /\ line' \in [Writers -> Nat] /\ DOMAIN pc' = Writers
        /\ UNCHANGED <<lock, written>>
    BY <1>1 DEF Call, GoTo, LogInv
  <2>2. \A u \in Writers : pc'[u] \notin {"idle", "lock"} =>
          pc[u] = pc'[u] /\ line'[u] = line[u]
    BY <1>1 DEF Call, GoTo, LogInv
  <2> QED
    BY <2>1, <2>2 DEF LogInv, LinesWhole
<1>2. ASSUME NEW t \in Writers, TakeLock(t)
      PROVE  LogInv'
  <2>1. \A u \in Writers : pc[u] \notin {"idle", "lock"} => ProcOf[u] # ProcOf[t]
    BY <1>2, LogAssumption DEF TakeLock, LogInv
  <2> QED
    BY <1>2, <2>1, LogAssumption DEF TakeLock, GoTo, LogInv, LinesWhole
<1>3. ASSUME NEW t \in Writers, WriteHead(t) \/ WriteText(t)
      PROVE  LogInv'
  BY <1>3, PartAppended DEF WriteHead, WriteText
<1>4. ASSUME NEW t \in Writers, ReleaseLock(t)
      PROVE  LogInv'
  <2>1. lock[ProcOf[t]] = t /\ ProcOf[t] \in Procs
    BY <1>4, LogAssumption DEF ReleaseLock, LogInv
  <2> QED
    BY <1>4, <2>1, LogAssumption DEF ReleaseLock, GoTo, LogInv, LinesWhole
<1>5. ASSUME NEW t \in Writers,
             AlreadyOpen(t) \/ OpenFile(t) \/ OpenFails(t) \/ Rotate(t)
      PROVE  LogInv'
  <2>1. /\ pc[t] \in {"open", "size"} /\ UNCHANGED <<line, lock, written>>
        /\ \E step \in {"head", "unlock"} : pc' = [pc EXCEPT ![t] = step]
    BY <1>5 DEF AlreadyOpen, OpenFile, OpenFails, Rotate, GoTo
  <2> QED
    BY <2>1 DEF LogInv, LinesWhole
<1>6. CASE UNCHANGED logVars
  BY <1>6 DEF logVars, LogInv, LinesWhole
<1> QED
  BY <1>1, <1>2, <1>3, <1>4, <1>5, <1>6 DEF LogNext, LogStep

\* util.cpp:498: the two parts of a line are together in what a process writes,
\* whatever its threads log at a time.
THEOREM LinesWholeHolds == LogSpec => []LinesWhole
<1>1. LogInv => LinesWhole
  BY DEF LogInv
<1> QED
  BY <1>1, LogStart, LogNextInv, PTL DEF LogSpec

-----------------------------------------------------------------------------
(* Files.                                                                  *)

\* What FlattenSeq() defines for n sequences, and the sequence it comes to.  An
\* induction over n is out of reach: that there is such an f, and that it ends
\* with s, is a part of the invariant instead.
Flat(f, seqs, n) == f = [i \in 1..n |-> IF i = 1 THEN seqs[i] ELSE f[i - 1] \o seqs[i]]

FlatTo(seqs, n, s) ==
  /\ \E f : Flat(f, seqs, n)
  /\ \A f : Flat(f, seqs, n) => (\A i \in 1..n : f[i] \in Seq(Parts)) /\ f[n] = s

LEMMA FlatPoints ==
  ASSUME NEW f, NEW seqs, NEW n
  PROVE  Flat(f, seqs, n) <=>
           /\ f = [i \in 1..n |-> f[i]]
           /\ \A i \in 1..n : f[i] = IF i = 1 THEN seqs[i] ELSE f[i - 1] \o seqs[i]
BY DEF Flat

LEMMA FlatSame ==
  ASSUME NEW a, NEW b, NEW n, \A i \in 1..n : b[i] = a[i], NEW s, FlatTo(a, n, s)
  PROVE  FlatTo(b, n, s)
<1>1. \A f : Flat(f, a, n) <=> Flat(f, b, n)
  BY FlatPoints
<1> QED
  BY <1>1, Zenon DEF FlatTo

LEMMA FlattenIs ==
  ASSUME NEW seqs, NEW n \in Nat \ {0}, Len(seqs) = n, NEW s, FlatTo(seqs, n, s)
  PROVE  FlattenSeq(seqs) = s
<1> DEFINE g == CHOOSE f : Flat(f, seqs, n)
<1>1. Flat(g, seqs, n)
  BY Zenon DEF FlatTo
<1>2. n # 0
  OBVIOUS
<1>3. FlattenSeq(seqs) = g[n]
  BY <1>2, Zenon DEF FlattenSeq, Flat
<1> HIDE DEF g
<1> QED
  BY <1>1, <1>3, Zenon DEF FlatTo

\* An empty file more.
LEMMA FlatGrown ==
  ASSUME NEW n \in Nat \ {0}, NEW a, NEW b, NEW s \in Seq(Parts), FlatTo(a, n, s),
         \A i \in 1..n : b[i] = a[i], b[n + 1] = <<>>
  PROVE  FlatTo(b, n + 1, s)
<1>1. n + 1 # 1 /\ (n + 1) - 1 = n /\ 1 \in 1..n /\ n \in 1..n
  OBVIOUS
<1>2. \A i \in 1..(n + 1) : i \in 1..n \/ i = n + 1
  OBVIOUS
<1>3. \A i \in 1..n : i \in 1..(n + 1) /\ i # n + 1 /\ (i # 1 => i - 1 \in 1..n)
  OBVIOUS
<1>4. s \o <<>> = s
  BY ConcatEmptySeq
<1>5. \E f : Flat(f, b, n + 1)
  <2>1. PICK f : Flat(f, a, n)
    BY Zenon DEF FlatTo
  <2> DEFINE g == [i \in 1..(n + 1) |-> IF i = n + 1 THEN s ELSE f[i]]
  <2>2. f[n] = s /\ \A i \in 1..n : f[i] = IF i = 1 THEN a[i] ELSE f[i - 1] \o a[i]
    BY <2>1, FlatPoints, Zenon DEF FlatTo
  <2>3. g[n + 1] = s /\ \A i \in 1..n : g[i] = f[i]
    BY <1>3
  <2>4. g = [i \in 1..(n + 1) |-> g[i]]
    BY Zenon
  <2> HIDE DEF g
  <2>5. \A i \in 1..n : g[i] = IF i = 1 THEN b[i] ELSE g[i - 1] \o b[i]
    BY <1>3, <2>2, <2>3, Zenon
  <2>6. g[n + 1] = g[n] \o b[n + 1]
    BY <1>1, <1>4, <2>2, <2>3, Zenon
  <2>7. \A i \in 1..(n + 1) : g[i] = IF i = 1 THEN b[i] ELSE g[i - 1] \o b[i]
    BY <1>1, <1>2, <2>5, <2>6, Zenon
  <2> QED
    BY <2>4, <2>7, FlatPoints, Zenon
<1>6. ASSUME NEW g, Flat(g, b, n + 1)
      PROVE  (\A i \in 1..(n + 1) : g[i] \in Seq(Parts)) /\ g[n + 1] = s
  <2> DEFINE f == [i \in 1..n |-> g[i]]
  <2>1. \A i \in 1..(n + 1) : g[i] = IF i = 1 THEN b[i] ELSE g[i - 1] \o b[i]
    BY <1>6, FlatPoints, Zenon
  <2>2. \A i \in 1..n : f[i] = g[i]
    BY Zenon
  <2>3. f = [i \in 1..n |-> f[i]]
    BY Zenon
  <2> HIDE DEF f
  <2>4. \A i \in 1..n : f[i] = IF i = 1 THEN a[i] ELSE f[i - 1] \o a[i]
    BY <1>3, <2>1, <2>2, Zenon
  <2>5. Flat(f, a, n)
    BY <2>3, <2>4, FlatPoints, Zenon
  <2>6. (\A i \in 1..n : g[i] \in Seq(Parts)) /\ g[n] = s
    BY <1>1, <2>2, <2>5, Zenon DEF FlatTo
  <2>7. n + 1 \in 1..(n + 1)
    OBVIOUS
  <2>8. g[n + 1] = g[n] \o b[n + 1]
    BY <1>1, <2>1, <2>7, Zenon
  <2>9. g[n + 1] = s
    BY <1>4, <2>6, <2>8, Zenon
  <2> QED
    BY <1>2, <2>6, <2>9, Zenon
<1> QED
  BY <1>5, <1>6, Zenon DEF FlatTo

\* An entry more in the last file.
LEMMA FlatAppended ==
  ASSUME NEW n \in Nat \ {0}, NEW a, NEW b, NEW s, NEW x \in Parts, FlatTo(a, n, s),
         a[n] \in Seq(Parts), \A i \in 1..n : i # n => b[i] = a[i], b[n] = Append(a[n], x)
  PROVE  FlatTo(b, n, Append(s, x))
<1>1. 1 \in 1..n /\ n \in 1..n /\ \A i \in 1..n : i # 1 => i - 1 \in 1..n /\ i - 1 # n
  OBVIOUS
<1>2. ASSUME NEW y \in Seq(Parts)
      PROVE  y \o Append(a[n], x) = Append(y \o a[n], x)
  <2>1. \A u, v \in Seq(Parts) : u \o Append(v, x) = Append(u \o v, x)
    <3> SUFFICES ASSUME NEW u \in Seq(Parts), NEW v \in Seq(Parts)
                 PROVE  u \o Append(v, x) = Append(u \o v, x)
      OBVIOUS
    <3> QED
      OBVIOUS
  <2> QED
    BY <2>1
<1>3. ASSUME NEW f, NEW g, f = [i \in 1..n |-> f[i]], g = [i \in 1..n |-> g[i]],
             \A i \in 1..n : i # n => g[i] = f[i],
             f[n] = IF n = 1 THEN a[n] ELSE f[n - 1] \o a[n],
             g[n] = IF n = 1 THEN b[n] ELSE g[n - 1] \o b[n]
      PROVE  /\ Flat(f, a, n) <=> Flat(g, b, n)
             /\ n # 1 /\ f[n - 1] \in Seq(Parts) => g[n] = Append(f[n], x)
             /\ n = 1 => g[n] = Append(f[n], x)
  <2>1. \A i \in 1..n : i # n =>
          (f[i] = IF i = 1 THEN a[i] ELSE f[i - 1] \o a[i])
            <=> (g[i] = IF i = 1 THEN b[i] ELSE g[i - 1] \o b[i])
    BY <1>1, <1>3, Zenon
  <2>2. Flat(f, a, n) <=> Flat(g, b, n)
    BY <1>3, <2>1, FlatPoints, Zenon
  <2>3. n # 1 => g[n - 1] = f[n - 1]
    BY <1>1, <1>3, Zenon
  <2> QED
    BY <1>2, <1>3, <2>2, <2>3, Zenon
<1>4. \E g : Flat(g, b, n)
  <2>1. PICK f : Flat(f, a, n)
    BY Zenon DEF FlatTo
  <2> DEFINE l == IF n = 1 THEN b[n] ELSE f[n - 1] \o b[n]
             g == [i \in 1..n |-> IF i = n THEN l ELSE f[i]]
  <2>2. f = [i \in 1..n |-> f[i]] /\ f[n] = IF n = 1 THEN a[n] ELSE f[n - 1] \o a[n]
    BY <1>1, <2>1, FlatPoints, Zenon
  <2> HIDE DEF l
  <2>3. g = [i \in 1..n |-> g[i]] /\ g[n] = l /\ \A i \in 1..n : i # n => g[i] = f[i]
    BY <1>1
  <2> HIDE DEF g
  <2>4. g[n] = IF n = 1 THEN b[n] ELSE g[n - 1] \o b[n]
    BY <1>1, <2>3, Zenon DEF l
  <2> QED
    BY <1>3, <2>1, <2>2, <2>3, <2>4, Zenon
<1>5. ASSUME NEW g, Flat(g, b, n)
      PROVE  (\A i \in 1..n : g[i] \in Seq(Parts)) /\ g[n] = Append(s, x)
  <2> DEFINE l == IF n = 1 THEN a[n] ELSE g[n - 1] \o a[n]
             f == [i \in 1..n |-> IF i = n THEN l ELSE g[i]]
  <2>1. g = [i \in 1..n |-> g[i]] /\ g[n] = IF n = 1 THEN b[n] ELSE g[n - 1] \o b[n]
    BY <1>1, <1>5, FlatPoints, Zenon
  <2> HIDE DEF l
  <2>2. f = [i \in 1..n |-> f[i]] /\ f[n] = l /\ \A i \in 1..n : i # n => f[i] = g[i]
    BY <1>1
  <2> HIDE DEF f
  <2>3. f[n] = IF n = 1 THEN a[n] ELSE f[n - 1] \o a[n]
    BY <1>1, <2>2, Zenon DEF l
  <2>4. /\ Flat(f, a, n)
        /\ n # 1 /\ f[n - 1] \in Seq(Parts) => g[n] = Append(f[n], x)
        /\ n = 1 => g[n] = Append(f[n], x)
    BY <1>3, <1>5, <2>1, <2>2, <2>3, Zenon
  <2>5. (\A i \in 1..n : f[i] \in Seq(Parts)) /\ f[n] = s
    BY <2>4, Zenon DEF FlatTo
  <2>6. g[n] = Append(s, x)
    BY <1>1, <2>4, <2>5, Zenon
  <2>7. s \in Seq(Parts) /\ Append(s, x) \in Seq(Parts)
    BY <1>1, <2>5
  <2> QED
    BY <2>2, <2>5, <2>6, <2>7, Zenon
<1> QED
  BY <1>4, <1>5, Zenon DEF FlatTo

File(p, n) == <<Pid[p] % PidWrap, n>>
Contents(p) == [n \in 1..fileNo[p] |-> Content(File(p, n))]

\* A process writes at the end of its last file, which is there while it is open,
\* and there is none after it.
FilesOf(p) ==
  /\ \A n \in Nat : n > fileNo[p] => File(p, n) \notin DOMAIN files
  /\ opened[p] <=> File(p, fileNo[p]) \in DOMAIN files
  /\ opened[p] => pos[p] = Len(Content(File(p, fileNo[p])))
  /\ \A n \in 1..fileNo[p] : Content(File(p, n)) \in Seq(Parts)
  /\ FlatTo(Contents(p), fileNo[p], written[p])

LogTypes ==
  /\ opened \in [Procs -> BOOLEAN] /\ pos \in [Procs -> Nat]
  /\ fileNo \in [Procs -> Nat \ {0}]

FileInv ==
  /\ LogInv /\ LogTypes
  /\ \A t \in Writers : pc[t] \in {"head", "text", "size"} => opened[ProcOf[t]]
  /\ \A p \in Procs : Namesakes(p) = {p} => FilesOf(p)

LEMMA FlatOne ==
  ASSUME NEW seqs, seqs[1] = <<>>
  PROVE  FlatTo(seqs, 1, <<>>)
<1>1. 1..1 = {1} /\ 1 \in {1}
  OBVIOUS
<1>2. Flat([i \in 1..1 |-> <<>>], seqs, 1)
  BY <1>1, Zenon DEF Flat
<1>3. ASSUME NEW f, Flat(f, seqs, 1)
      PROVE  (\A i \in 1..1 : f[i] \in Seq(Parts)) /\ f[1] = <<>>
  <2>1. f[1] = <<>>
    BY <1>1, <1>3, FlatPoints, Zenon
  <2>2. <<>> \in Seq(Parts)
    OBVIOUS
  <2> QED
    BY <1>1, <2>1, <2>2, Zenon
<1> QED
  BY <1>2, <1>3, Zenon DEF FlatTo

LEMMA AtEnd ==
  ASSUME NEW s \in Seq(Parts), NEW x \in Parts
  PROVE  WrittenAt(s, Len(s), x) = Append(s, x)
<1>1. Len(s) \in Nat /\ Append(s, x) \in Seq(Parts) /\ Len(Append(s, x)) = Len(s) + 1
      /\ \A i \in 1..(Len(s) + 1) : Append(s, x)[i] = IF i = Len(s) + 1 THEN x ELSE s[i]
  OBVIOUS
<1>2. Append(s, x) = [i \in 1..(Len(s) + 1) |-> Append(s, x)[i]]
  <2>1. Append(s, x) \in [1..(Len(s) + 1) -> Parts]
    BY <1>1, LenProperties, Zenon
  <2> QED
    BY <2>1, Zenon
<1>3. ~(Len(s) < Len(s)) /\ \A i \in 1..(Len(s) + 1) : i # Len(s) + 1 => i <= Len(s)
  BY <1>1
<1>4. WrittenAt(s, Len(s), x) =
        [i \in 1..(Len(s) + 1) |-> IF i = Len(s) + 1 THEN x ELSE IF i <= Len(s) THEN s[i] ELSE Hole]
  BY <1>3, Zenon DEF WrittenAt
<1> QED
  BY <1>1, <1>2, <1>3, <1>4, Zenon

\* The files of a process are the same, though those of others change.
LEMMA FilesStay ==
  ASSUME NEW p, FilesOf(p),
         fileNo'[p] = fileNo[p], opened'[p] = opened[p], pos'[p] = pos[p],
         written'[p] = written[p],
         \A n : /\ File(p, n) \in DOMAIN files' <=> File(p, n) \in DOMAIN files
                /\ File(p, n) \in DOMAIN files => files'[File(p, n)] = files[File(p, n)]
  PROVE  FilesOf(p)'
<1>1. \A n : Content(File(p, n))' = Content(File(p, n))
  BY Zenon DEF Content, File
<1>2. Contents(p)' = Contents(p)
  BY <1>1, Zenon DEF Contents, File
<1>3. /\ \A n \in Nat : n > fileNo'[p] => File(p, n) \notin DOMAIN files'
      /\ opened'[p] <=> File(p, fileNo'[p]) \in DOMAIN files'
  BY Zenon DEF FilesOf
<1>4. opened'[p] => pos'[p] = Len(Content(File(p, fileNo[p]))')
  BY <1>1 DEF FilesOf
<1>5. \A n \in 1..fileNo'[p] : Content(File(p, n))' \in Seq(Parts)
  BY <1>1, Zenon DEF FilesOf
<1>6. FlatTo(Contents(p)', fileNo'[p], written'[p])
  BY <1>2, Zenon DEF FilesOf
<1> QED
  BY <1>3, <1>4, <1>5, <1>6, Zenon DEF FilesOf, File

\* Where no process has the same 16 bits, none writes to its files.
LEMMA Elsewhere ==
  ASSUME NEW p \in Procs, Namesakes(p) = {p}, NEW q \in Procs, q # p, NEW n
  PROVE  File(p, n) # Name(q)
<1>1. Pid[q] % PidWrap # Pid[p] % PidWrap
  BY Zenon DEF Namesakes
<1> QED
  BY <1>1 DEF File, Name

LEMMA OpenFileKeeps ==
  ASSUME LogTypes, NEW t \in Writers, OpenFile(t), NEW p \in Procs, Namesakes(p) = {p},
         FilesOf(p)
  PROVE  FilesOf(p)'
<1> DEFINE q == ProcOf[t]
<1>1. q \in Procs /\ ~opened[q]
  BY LogAssumption DEF OpenFile
<1>2. /\ opened' = [opened EXCEPT ![q] = TRUE] /\ pos' = [pos EXCEPT ![q] = 0]
      /\ files' = [n \in DOMAIN files \union {Name(q)} |-> IF n = Name(q) THEN <<>> ELSE files[n]]
      /\ UNCHANGED <<fileNo, written>>
  BY DEF OpenFile
<1> HIDE DEF q
<1>3. CASE q # p
  <2>1. opened'[p] = opened[p] /\ pos'[p] = pos[p]
    BY <1>1, <1>2, <1>3 DEF LogTypes
  <2>2. \A n : /\ File(p, n) \in DOMAIN files' <=> File(p, n) \in DOMAIN files
               /\ File(p, n) \in DOMAIN files => files'[File(p, n)] = files[File(p, n)]
    BY <1>1, <1>2, <1>3, Elsewhere, Zenon
  <2> QED
    BY <1>2, <2>1, <2>2, FilesStay
<1>4. CASE q = p
  <2>1. opened'[p] = TRUE /\ pos'[p] = 0 /\ fileNo'[p] = fileNo[p] /\ written'[p] = written[p]
        /\ fileNo' = fileNo
    BY <1>1, <1>2, <1>4 DEF LogTypes
  <2>2. Name(q) = File(p, fileNo[p]) /\ Name(q) \notin DOMAIN files
    BY <1>1, <1>4, Zenon DEF Name, File, FilesOf
  <2>3. \A n : n # fileNo[p] => File(p, n) # File(p, fileNo[p])
    BY DEF File
  <2>4. \A n : Content(File(p, n))' = Content(File(p, n))
    BY <1>2, <2>2, Zenon DEF Content, File
  <2>5. Contents(p)' = Contents(p)
    BY <2>1, <2>4, Zenon DEF Contents, File
  <2>6. \A n : File(p, n) \in DOMAIN files' <=> n = fileNo[p] \/ File(p, n) \in DOMAIN files
    BY <1>2, <2>2, <2>3, Zenon
  <2>7. \A n \in Nat : n > fileNo[p] => n # fileNo[p]
    BY DEF LogTypes
  <2>8. Content(File(p, fileNo[p])) = <<>> /\ Len(<<>>) = 0
    BY <2>2, Zenon DEF Content
  <2>9. \A n \in Nat : n > fileNo'[p] => File(p, n) \notin DOMAIN files'
    BY <2>1, <2>6, <2>7, Zenon DEF FilesOf
  <2>10. pos'[p] = Len(Content(File(p, fileNo[p]))')
    <3>1. Content(File(p, fileNo[p]))' = <<>>
      BY <2>1, <1>2, <2>2, Zenon DEF Content, File
    <3> QED
      BY <2>1, <3>1
  <2> QED
    BY <2>1, <2>4, <2>5, <2>6, <2>9, <2>10, <2>8, Zenon DEF FilesOf, File
<1> QED
  BY <1>3, <1>4

LEMMA WritePartKeeps ==
  ASSUME LogInv, LogTypes, NEW t \in Writers, NEW part \in {"head", "text"}, NEW step,
         WritePart(t, part, step), opened[ProcOf[t]],
         NEW p \in Procs, Namesakes(p) = {p}, FilesOf(p)
  PROVE  FilesOf(p)'
<1> DEFINE q == ProcOf[t]
           x == <<t, line[t], part>>
<1>1. q \in Procs /\ opened[q] /\ x \in Parts
  BY LogAssumption DEF LogInv, Parts
<1>2. /\ files' = [files EXCEPT ![Name(q)] = WrittenAt(@, pos[q], x)]
      /\ pos' = [pos EXCEPT ![q] = @ + 1]
      /\ written' = [written EXCEPT ![q] = Append(@, x)]
      /\ opened' = opened /\ fileNo' = fileNo
  BY DEF WritePart
<1> HIDE DEF q, x
<1>3. CASE q # p
  <2>1. pos'[p] = pos[p] /\ written'[p] = written[p]
    BY <1>1, <1>2, <1>3 DEF LogTypes, LogInv
  <2>2. \A n : /\ File(p, n) \in DOMAIN files' <=> File(p, n) \in DOMAIN files
               /\ File(p, n) \in DOMAIN files => files'[File(p, n)] = files[File(p, n)]
    BY <1>1, <1>2, <1>3, Elsewhere, Zenon
  <2> QED
    BY <1>2, <2>1, <2>2, FilesStay
<1>4. CASE q = p
  <2> DEFINE last == File(p, fileNo[p])
             s == files[last]
  <2>1. pos'[p] = pos[p] + 1 /\ written'[p] = Append(written[p], x)
    BY <1>1, <1>2, <1>4 DEF LogTypes, LogInv
  <2>2. fileNo[p] \in Nat \ {0} /\ fileNo[p] \in 1..fileNo[p]
    BY DEF LogTypes
  <2>3. Name(q) = last /\ last \in DOMAIN files
    BY <1>1, <1>4, Zenon DEF Name, File, FilesOf
  <2>4. Content(last) = s /\ s \in Seq(Parts) /\ pos[p] = Len(s)
    <3>1. Content(last) = s
      BY <2>3, Zenon DEF Content
    <3> QED
      BY <1>1, <1>4, <2>2, <3>1, Zenon DEF FilesOf
  <2>5. \A n : n # fileNo[p] => File(p, n) # last
    BY DEF File
  <2>6. DOMAIN files' = DOMAIN files /\ files'[last] = Append(s, x)
        /\ \A n : n # fileNo[p] /\ File(p, n) \in DOMAIN files => files'[File(p, n)] = files[File(p, n)]
    <3>1. files' = [files EXCEPT ![last] = WrittenAt(s, Len(s), x)]
      BY <1>2, <1>4, <2>3, <2>4, Zenon
    <3>2. files' = [files EXCEPT ![last] = Append(s, x)]
      BY <1>1, <2>4, <3>1, AtEnd, Zenon
    <3> HIDE DEF last
    <3> QED
      BY <2>3, <2>5, <3>2, Zenon
  <2>7. \A n : n # fileNo[p] => Content(File(p, n))' = Content(File(p, n))
    BY <2>6, Zenon DEF Content, File
  <2>8. Content(File(p, fileNo[p]))' = Append(s, x)
    <3>1. Content(File(p, fileNo[p]))' =
            IF File(p, fileNo'[p]) \in DOMAIN files' THEN files'[File(p, fileNo'[p])] ELSE <<>>
      BY Zenon DEF Content, File
    <3> QED
      BY <1>2, <2>3, <2>6, <3>1, Zenon
  <2>9. Append(s, x) \in Seq(Parts) /\ Len(Append(s, x)) = Len(s) + 1
    BY <1>1, <2>4
  <2>10. \A n \in 1..fileNo[p] : Content(File(p, n))' \in Seq(Parts)
    <3> SUFFICES ASSUME NEW n \in 1..fileNo[p]
                 PROVE  Content(File(p, n))' \in Seq(Parts)
      OBVIOUS
    <3>1. CASE n = fileNo[p]
      <4>1. Content(File(p, n))' = Append(s, x)
        BY <1>2, <2>3, <2>6, <3>1, Zenon DEF Content, File
      <4> QED
        BY <2>9, <4>1, Zenon
    <3>2. CASE n # fileNo[p]
      BY <2>7, <3>2, Zenon DEF FilesOf
    <3> QED
      BY <3>1, <3>2, Zenon
  <2>11. FlatTo(Contents(p)', fileNo[p], Append(written[p], x))
    <3> DEFINE a == Contents(p)
    <3>1. PICK b : b = Contents(p)'
      OBVIOUS
    <3>2. a[fileNo[p]] = s
      BY <2>2, <2>4, Zenon DEF Contents
    <3>3. b[fileNo[p]] = Append(s, x)
      <4>1. b = [n \in 1..fileNo'[p] |-> Content(File(p, n))']
        BY <3>1, Zenon DEF Contents, File
      <4>2. Content(File(p, fileNo[p]))' = b[fileNo[p]]
        BY <1>2, <2>2, <4>1, Zenon DEF Content, File
      <4> QED
        BY <2>8, <4>2, Zenon
    <3>4. \A n \in 1..fileNo[p] : n # fileNo[p] => b[n] = a[n]
      <4>1. b = [n \in 1..fileNo'[p] |-> Content(File(p, n))']
        BY <3>1, Zenon DEF Contents, File
      <4> QED
        BY <1>2, <2>7, <4>1, Zenon DEF Contents
    <3>5. FlatTo(a, fileNo[p], written[p])
      BY Zenon DEF FilesOf
    <3> HIDE DEF a
    <3>6. FlatTo(b, fileNo[p], Append(written[p], x))
      BY <1>1, <2>2, <2>4, <3>2, <3>3, <3>4, <3>5, FlatAppended
    <3> QED
      BY <3>1, <3>6, Zenon
  <2>12. pos'[p] = Len(Content(File(p, fileNo[p]))')
    BY <2>1, <2>4, <2>8, <2>9
  <2>13. \A n \in Nat : n > fileNo'[p] => File(p, n) \notin DOMAIN files'
    BY <1>2, <2>6, Zenon DEF FilesOf
  <2>14. opened'[p] <=> File(p, fileNo'[p]) \in DOMAIN files'
    BY <1>2, <2>6, Zenon DEF FilesOf
  <2> QED
    BY <1>2, <2>1, <2>10, <2>11, <2>12, <2>13, <2>14, Zenon DEF FilesOf, File
<1> QED
  BY <1>3, <1>4

LEMMA RotateKeeps ==
  ASSUME LogInv, LogTypes, NEW t \in Writers, Rotate(t), opened[ProcOf[t]],
         NEW p \in Procs, Namesakes(p) = {p}, FilesOf(p)
  PROVE  FilesOf(p)'
<1> DEFINE q == ProcOf[t]
<1>1. q \in Procs /\ opened[q] /\ MaxSize \in Nat /\ pos[q] \in Nat
  BY LogAssumption DEF LogTypes
<1>2. /\ opened' = [opened EXCEPT ![q] = pos[q] <= MaxSize]
      /\ fileNo' = IF pos[q] > MaxSize THEN [fileNo EXCEPT ![q] = @ + 1] ELSE fileNo
      /\ files' = files /\ pos' = pos /\ written' = written
  BY DEF Rotate
<1> HIDE DEF q
<1>3. CASE q # p \/ pos[q] <= MaxSize
  <2>1. opened'[p] = opened[p] /\ fileNo'[p] = fileNo[p]
    <3>1. CASE q # p
      BY <1>1, <1>2, <3>1 DEF LogTypes
    <3>2. CASE q = p /\ pos[q] <= MaxSize
      <4>1. opened'[p] = (pos[q] <= MaxSize) /\ opened[p] \in BOOLEAN
        BY <1>1, <1>2, <3>2, Zenon DEF LogTypes
      <4>2. ~(pos[q] > MaxSize)
        BY <1>1, <3>2
      <4> QED
        BY <1>1, <1>2, <3>2, <4>1, <4>2, Zenon
    <3> QED
      BY <1>3, <3>1, <3>2
  <2> QED
    BY <1>2, <2>1, FilesStay
<1>4. CASE q = p /\ pos[q] > MaxSize
  <2> DEFINE n == fileNo[p]
  <2>1. ~opened'[p] /\ fileNo'[p] = n + 1 /\ n \in Nat \ {0}
    <3>1. opened'[p] = (pos[q] <= MaxSize)
      BY <1>1, <1>2, <1>4, Zenon DEF LogTypes
    <3>2. ~(pos[q] <= MaxSize)
      BY <1>1, <1>4
    <3>3. fileNo'[p] = n + 1 /\ n \in Nat \ {0}
      BY <1>1, <1>2, <1>4 DEF LogTypes
    <3> QED
      BY <3>1, <3>2, <3>3, Zenon
  <2>2. n + 1 \in Nat /\ n + 1 > n /\ \A i \in Nat : i > n + 1 => i > n
    BY <2>1
  <2>3. \A i : Content(File(p, i))' = Content(File(p, i))
    BY <1>2, Zenon DEF Content, File
  <2>4. File(p, n + 1) \notin DOMAIN files
    BY <2>2, Zenon DEF FilesOf
  <2>5. Content(File(p, n + 1)) = <<>> /\ <<>> \in Seq(Parts)
    BY <2>4 DEF Content
  <2>6. /\ \A i \in Nat : i > fileNo'[p] => File(p, i) \notin DOMAIN files'
        /\ opened'[p] <=> File(p, fileNo'[p]) \in DOMAIN files'
    BY <1>2, <2>1, <2>2, <2>4, Zenon DEF FilesOf
  <2>7. \A i \in 1..(n + 1) : i \in 1..n \/ i = n + 1
    BY <2>1
  <2>8. \A i \in 1..fileNo'[p] : Content(File(p, i))' \in Seq(Parts)
    BY <2>1, <2>3, <2>5, <2>7, Zenon DEF FilesOf
  <2>9. FlatTo(Contents(p)', n + 1, written[p])
    <3> DEFINE a == Contents(p)
    <3>1. PICK b : b = Contents(p)'
      OBVIOUS
    <3>2. b = [i \in 1..fileNo'[p] |-> Content(File(p, i))']
      BY <3>1, Zenon DEF Contents, File
    <3>3. \A i \in 1..n : i \in 1..(n + 1)
      BY <2>1
    <3>4. \A i \in 1..n : b[i] = a[i]
      BY <2>1, <2>3, <3>2, <3>3, Zenon DEF Contents
    <3>5. n + 1 \in 1..(n + 1)
      BY <2>1
    <3>6. b[n + 1] = <<>>
      BY <2>1, <2>3, <2>5, <3>2, <3>5, Zenon
    <3>7. FlatTo(a, n, written[p]) /\ written[p] \in Seq(Parts)
      BY Zenon DEF FilesOf, LogInv
    <3> HIDE DEF a, n
    <3>8. FlatTo(b, n + 1, written[p])
      BY <2>1, <3>4, <3>6, <3>7, FlatGrown
    <3> QED
      BY <3>1, <3>8, Zenon
  <2> QED
    BY <1>2, <2>1, <2>6, <2>8, <2>9, Zenon DEF FilesOf, File
<1> QED
  BY <1>1, <1>3, <1>4

LEMMA FileStart == LogInit => FileInv
<1> SUFFICES ASSUME LogInit
             PROVE  FileInv
  OBVIOUS
<1>1. LogInv
  BY LogStart
<1>2. LogTypes
  BY DEF LogInit, LogTypes
<1>3. \A t \in Writers : pc[t] \in {"head", "text", "size"} => opened[ProcOf[t]]
  BY DEF LogInit
<1>4. ASSUME NEW p \in Procs
      PROVE  FilesOf(p)
  <2>1. fileNo[p] = 1 /\ ~opened[p] /\ written[p] = <<>> /\ DOMAIN files = {}
    BY DEF LogInit
  <2>2. \A n : Content(File(p, n)) = <<>>
    BY <2>1, Zenon DEF Content
  <2>3. <<>> \in Seq(Parts) /\ 1 \in 1..1
    OBVIOUS
  <2>4. FlatTo(Contents(p), 1, <<>>)
    <3>1. Contents(p)[1] = <<>>
      BY <2>1, <2>2, <2>3, Zenon DEF Contents
    <3> QED
      BY <3>1, FlatOne
  <2>5. \A n : File(p, n) \notin DOMAIN files
    BY <2>1
  <2> QED
    BY <2>1, <2>2, <2>3, <2>4, <2>5, Zenon DEF FilesOf
<1> QED
  BY <1>1, <1>2, <1>3, <1>4 DEF FileInv

LEMMA FileNext == FileInv /\ [LogNext]_logVars => FileInv'
<1> SUFFICES ASSUME FileInv, [LogNext]_logVars
             PROVE  FileInv'
  OBVIOUS
<1>1. LogInv /\ LogInv' /\ LogTypes
  BY LogNextInv DEF FileInv
<1>2. ASSUME UNCHANGED <<fileNo, opened, pos, files, written>>
      PROVE  \A p \in Procs : Namesakes(p) = {p} => FilesOf(p)'
  BY <1>2, FilesStay DEF FileInv
<1>3. ASSUME NEW t \in Writers, NEW step, pc' = [pc EXCEPT ![t] = step],
             step \in {"head", "text", "size"} => opened'[ProcOf[t]],
             \A p \in Procs : opened[p] => opened'[p]
      PROVE  \A u \in Writers : pc'[u] \in {"head", "text", "size"} => opened'[ProcOf[u]]
  <2> SUFFICES ASSUME NEW u \in Writers, pc'[u] \in {"head", "text", "size"}
               PROVE  opened'[ProcOf[u]]
    OBVIOUS
  <2>1. CASE u = t
    BY <1>1, <1>3, <2>1 DEF LogInv
  <2>2. CASE u # t
    BY <1>3, <2>2, LogAssumption DEF FileInv
  <2> QED
    BY <2>1, <2>2
<1>4. ASSUME NEW t \in Writers,
             Call(t) \/ TakeLock(t) \/ AlreadyOpen(t) \/ OpenFails(t) \/ ReleaseLock(t)
      PROVE  FileInv'
  <2>1. UNCHANGED <<fileNo, opened, pos, files, written>>
    BY <1>4 DEF Call, TakeLock, AlreadyOpen, OpenFails, ReleaseLock
  <2>2. \E step : pc' = [pc EXCEPT ![t] = step]
                  /\ (step \in {"head", "text", "size"} => opened[ProcOf[t]])
    BY <1>4 DEF Call, TakeLock, AlreadyOpen, OpenFails, ReleaseLock, GoTo
  <2>3. \A u \in Writers : pc'[u] \in {"head", "text", "size"} => opened'[ProcOf[u]]
    BY <1>3, <2>1, <2>2, Zenon
  <2> QED
    BY <1>1, <1>2, <2>1, <2>3 DEF FileInv, LogTypes, Namesakes
<1>5. ASSUME NEW t \in Writers, OpenFile(t)
      PROVE  FileInv'
  <2>1. ProcOf[t] \in Procs
    BY LogAssumption
  <2>2. /\ opened' = [opened EXCEPT ![ProcOf[t]] = TRUE] /\ pos' = [pos EXCEPT ![ProcOf[t]] = 0]
        /\ fileNo' = fileNo /\ pc' = [pc EXCEPT ![t] = "head"]
    BY <1>5 DEF OpenFile, GoTo
  <2>3. LogTypes'
    BY <1>1, <2>1, <2>2 DEF LogTypes
  <2>4. opened'[ProcOf[t]] /\ \A p \in Procs : opened[p] => opened'[p]
    BY <1>1, <2>1, <2>2 DEF LogTypes
  <2>5. \A u \in Writers : pc'[u] \in {"head", "text", "size"} => opened'[ProcOf[u]]
    BY <1>3, <2>2, <2>4, Zenon
  <2>6. \A p \in Procs : Namesakes(p) = {p} => FilesOf(p)'
    BY <1>1, <1>5, OpenFileKeeps DEF FileInv
  <2> QED
    BY <1>1, <2>3, <2>5, <2>6 DEF FileInv, Namesakes
<1>6. ASSUME NEW t \in Writers, NEW part \in {"head", "text"}, NEW step,
             WritePart(t, part, step), pc[t] \in {"head", "text"}
      PROVE  FileInv'
  <2>1. ProcOf[t] \in Procs /\ opened[ProcOf[t]]
    BY <1>6, LogAssumption DEF FileInv
  <2>2. /\ opened' = opened /\ pos' = [pos EXCEPT ![ProcOf[t]] = @ + 1]
        /\ fileNo' = fileNo /\ pc' = [pc EXCEPT ![t] = step]
    BY <1>6 DEF WritePart, GoTo
  <2>3. LogTypes'
    BY <1>1, <2>1, <2>2 DEF LogTypes
  <2>4. \A u \in Writers : pc'[u] \in {"head", "text", "size"} => opened'[ProcOf[u]]
    BY <1>3, <2>1, <2>2, Zenon
  <2>5. \A p \in Procs : Namesakes(p) = {p} => FilesOf(p)'
    BY <1>1, <1>6, <2>1, WritePartKeeps DEF FileInv
  <2> QED
    BY <1>1, <2>3, <2>4, <2>5 DEF FileInv, Namesakes
<1>7. ASSUME NEW t \in Writers, Rotate(t)
      PROVE  FileInv'
  <2>1. ProcOf[t] \in Procs /\ opened[ProcOf[t]] /\ pc[t] = "size"
    BY <1>7, LogAssumption DEF FileInv, Rotate
  <2>2. /\ opened' = [opened EXCEPT ![ProcOf[t]] = pos[ProcOf[t]] <= MaxSize]
        /\ fileNo' = IF pos[ProcOf[t]] > MaxSize THEN [fileNo EXCEPT ![ProcOf[t]] = @ + 1] ELSE fileNo
        /\ pos' = pos /\ pc' = [pc EXCEPT ![t] = "unlock"]
    BY <1>7 DEF Rotate, GoTo
  <2>3. (pos[ProcOf[t]] <= MaxSize) \in BOOLEAN
    <3>1. \A m, n \in Nat : (m <= n) \in BOOLEAN
      OBVIOUS
    <3> QED
      BY <1>1, <2>1, <3>1, LogAssumption, Zenon DEF LogTypes
  <2>4. opened' \in [Procs -> BOOLEAN]
    BY <1>1, <2>1, <2>2, <2>3, Zenon DEF LogTypes
  <2>5. fileNo' \in [Procs -> Nat \ {0}] /\ pos' \in [Procs -> Nat]
    BY <1>1, <2>1, <2>2 DEF LogTypes
  <2>6. ASSUME NEW u \in Writers, pc'[u] \in {"head", "text", "size"}
        PROVE  opened'[ProcOf[u]]
    <3>1. u # t /\ pc[u] = pc'[u]
      BY <1>1, <2>6, <2>2 DEF LogInv
    <3>2. ProcOf[u] # ProcOf[t] /\ ProcOf[u] \in Procs /\ opened[ProcOf[u]]
      BY <1>1, <2>1, <2>6, <3>1, LogAssumption DEF LogInv, FileInv
    <3> QED
      BY <1>1, <2>1, <2>2, <3>2, Zenon DEF LogTypes
  <2>7. \A p \in Procs : Namesakes(p) = {p} => FilesOf(p)'
    BY <1>1, <1>7, <2>1, RotateKeeps DEF FileInv
  <2> QED
    BY <1>1, <2>4, <2>5, <2>6, <2>7 DEF FileInv, LogTypes, Namesakes
<1>8. CASE UNCHANGED logVars
  <2>1. /\ UNCHANGED <<fileNo, opened, pos, files, written>> /\ pc' = pc
    BY <1>8 DEF logVars
  <2> QED
    BY <1>1, <1>2, <2>1 DEF FileInv, LogTypes, Namesakes
<1>9. ASSUME NEW t \in Writers, WriteHead(t) \/ WriteText(t)
      PROVE  FileInv'
  BY <1>6, <1>9 DEF WriteHead, WriteText
<1> QED
  BY <1>4, <1>5, <1>7, <1>8, <1>9, Zenon DEF LogNext, LogStep

\* util.cpp:498,511,529: the two parts of a line are together in what a process
\* writes, and all it wrote is in its files, in order and over any number of
\* rotations, unless another process has the same 16 bits of process id.
THEOREM LogKeptHolds == LogSpec => []LogKept
<1>1. FileInv => LogKept
  <2> SUFFICES ASSUME FileInv
               PROVE  LogKept
    OBVIOUS
  <2>1. LinesWhole
    BY DEF FileInv, LogInv
  <2>2. ASSUME NEW p \in Procs, Namesakes(p) = {p}
        PROVE  FlattenSeq([n \in 1..fileNo[p] |-> Content(<<Pid[p] % PidWrap, n>>)]) = written[p]
    <3>1. fileNo[p] \in Nat \ {0} /\ FlatTo(Contents(p), fileNo[p], written[p])
      BY <2>2 DEF FileInv, LogTypes, FilesOf
    <3>2. Len(Contents(p)) = fileNo[p]
      BY <3>1 DEF Contents
    <3>3. FlattenSeq(Contents(p)) = written[p]
      BY <3>1, <3>2, FlattenIs
    <3> QED
      BY <3>3, Zenon DEF Contents, File
  <2> QED
    BY <2>1, <2>2 DEF LogKept, FilesKept
<1> QED
  BY <1>1, FileStart, FileNext, PTL DEF LogSpec

-----------------------------------------------------------------------------
(* Reference counts under a lock.                                          *)

Numbers == 0..(MaxHolds + 1)

\* The references of threads of which those in E have one in a call, and t has
\* h[t] besides.
RefsOf(E, h) ==
  {r \in Threads \X Numbers : IF r[2] = 0 THEN r[1] \in E ELSE r[2] <= h[r[1]]}

LEMMA RefsFinite ==
  ASSUME NEW E, NEW h
  PROVE  IsFiniteSet(RefsOf(E, h)) /\ Cardinality(RefsOf(E, h)) \in Nat
<1>1. IsFiniteSet(Numbers)
  <2>1. 0 \in Int /\ MaxHolds + 1 \in Int
    BY LockedRefAssumption
  <2> QED
    BY <2>1, FS_Interval DEF Numbers
<1>2. IsFiniteSet(Threads \X Numbers)
  BY <1>1, FS_Product, LockedRefAssumption
<1>3. RefsOf(E, h) \subseteq Threads \X Numbers
  BY DEF RefsOf
<1> QED
  BY <1>2, <1>3, FS_Subset, FS_CardinalityType

\* A thread's call takes up one reference more.
LEMMA RefInCall ==
  ASSUME NEW E, NEW h, NEW t \in Threads, t \notin E
  PROVE  Cardinality(RefsOf(E \union {t}, h)) = Cardinality(RefsOf(E, h)) + 1
<1> DEFINE x == <<t, 0>>
<1>1. 0 \in Numbers
  BY LockedRefAssumption DEF Numbers
<1>2. x \notin RefsOf(E, h)
  BY DEF RefsOf
<1>3. RefsOf(E \union {t}, h) = RefsOf(E, h) \union {x}
  <2>1. \A r \in Threads \X Numbers : r = x <=> r[1] = t /\ r[2] = 0
    OBVIOUS
  <2>2. x \in Threads \X Numbers
    BY <1>1
  <2> HIDE DEF x
  <2> QED
    BY <2>1, <2>2 DEF RefsOf
<1> HIDE DEF x
<1> QED
  BY <1>2, <1>3, RefsFinite, FS_AddElement

\* A thread holds one reference more.
LEMMA RefHeld ==
  ASSUME NEW E, NEW h \in [Threads -> Numbers], NEW t \in Threads, h[t] <= MaxHolds,
         NEW g \in [Threads -> Numbers], g[t] = h[t] + 1, \A v \in Threads \ {t} : g[v] = h[v]
  PROVE  Cardinality(RefsOf(E, g)) = Cardinality(RefsOf(E, h)) + 1
<1> DEFINE x == <<t, h[t] + 1>>
<1>1. h[t] \in Int /\ h[t] >= 0 /\ h[t] + 1 \in Numbers
  BY LockedRefAssumption DEF Numbers
<1>2. x \notin RefsOf(E, h)
  BY <1>1 DEF RefsOf
<1>3. RefsOf(E, g) = RefsOf(E, h) \union {x}
  <2>1. \A r \in Threads \X Numbers : r = x <=> r[1] = t /\ r[2] = h[t] + 1
    OBVIOUS
  <2>2. x \in Threads \X Numbers
    BY <1>1
  <2>3. ASSUME NEW r \in Threads \X Numbers
        PROVE  r \in RefsOf(E, g) <=> r \in RefsOf(E, h) \/ r = x
    <3>1. r[1] \in Threads /\ r[2] \in Int /\ r[2] >= 0 /\ h[r[1]] \in Int
      BY DEF Numbers
    <3>2. g[r[1]] = IF r[1] = t THEN h[t] + 1 ELSE h[r[1]]
      BY <3>1
    <3>3. r[1] = t => (r[2] <= h[t] + 1 <=> r[2] <= h[t] \/ r[2] = h[t] + 1)
      BY <1>1, <3>1
    <3> HIDE DEF x
    <3> QED
      BY <1>1, <2>1, <3>1, <3>2, <3>3 DEF RefsOf
  <2> HIDE DEF x
  <2>4. \A r : r \in RefsOf(E, g) \/ r \in RefsOf(E, h) => r \in Threads \X Numbers
    BY DEF RefsOf
  <2> QED
    BY <2>2, <2>3, <2>4
<1> HIDE DEF x
<1> QED
  BY <1>2, <1>3, RefsFinite, FS_AddElement

\* A reference goes into the call of its thread, or from there to the thread.
LEMMA RefTaken ==
  ASSUME NEW E, NEW F, NEW h \in [Threads -> Numbers], NEW g \in [Threads -> Numbers],
         NEW t \in Threads, t \notin E, F = E \union {t},
         h[t] = g[t] + 1, \A v \in Threads \ {t} : h[v] = g[v]
  PROVE  Cardinality(RefsOf(F, g)) = Cardinality(RefsOf(E, h))
<1>1. Cardinality(RefsOf(F, g)) = Cardinality(RefsOf(E, g)) + 1
  BY RefInCall
<1>2. h[t] = g[t] + 1 /\ h[t] <= MaxHolds + 1 /\ g[t] \in Int /\ MaxHolds \in Int
  BY LockedRefAssumption DEF Numbers
<1>3. g[t] <= MaxHolds
  BY <1>2
<1>4. Cardinality(RefsOf(E, h)) = Cardinality(RefsOf(E, g)) + 1
  BY <1>3, RefHeld
<1> QED
  BY <1>1, <1>4

\* A reference is handed over.
LEMMA RefGiven ==
  ASSUME NEW E, NEW h \in [Threads -> Numbers], NEW g \in [Threads -> Numbers],
         NEW t \in Threads, NEW u \in Threads \ {t}, h[t] > 0, h[u] <= MaxHolds,
         g[t] = h[t] - 1, g[u] = h[u] + 1, \A v \in Threads \ {t, u} : g[v] = h[v]
  PROVE  Cardinality(RefsOf(E, g)) = Cardinality(RefsOf(E, h))
<1> DEFINE f == [h EXCEPT ![t] = h[t] - 1]
<1>1. /\ MaxHolds \in Int /\ h[t] \in Int /\ h[t] - 1 \in Numbers
      /\ h[t] - 1 <= MaxHolds /\ h[t] - 1 + 1 = h[t]
  BY LockedRefAssumption DEF Numbers
<1>2. f \in [Threads -> Numbers] /\ f[t] = h[t] - 1 /\ f[u] = h[u]
  BY <1>1
<1>3. h[t] = f[t] + 1 /\ \A v \in Threads \ {t} : h[v] = f[v]
  BY <1>1, <1>2
<1>4. u \in Threads /\ g[u] = f[u] + 1 /\ \A v \in Threads \ {u} : g[v] = f[v]
  BY <1>2
<1>5. f[t] <= MaxHolds /\ f[u] <= MaxHolds
  BY <1>1, <1>2
<1> HIDE DEF f
<1>6. Cardinality(RefsOf(E, h)) = Cardinality(RefsOf(E, f)) + 1
  <2>1. f \in [Threads -> Numbers] /\ f[t] <= MaxHolds
    BY <1>2, <1>5
  <2>2. h[t] = f[t] + 1
    BY <1>3
  <2>3. \A v \in Threads \ {t} : h[v] = f[v]
    BY <1>3
  <2> QED
    BY <2>1, <2>2, <2>3, RefHeld
<1>7. Cardinality(RefsOf(E, g)) = Cardinality(RefsOf(E, f)) + 1
  BY <1>2, <1>4, <1>5, RefHeld
<1> QED
  BY <1>6, <1>7

-----------------------------------------------------------------------------

Operations == [call : {"none", "add", "release"}, obj : Objects \union {Nil},
               step : {"idle", "lock", "load", "store", "test", "unlock"}, val : Int]

RefTypes ==
  /\ refCount \in [Objects -> Int] /\ deleted \subseteq Objects
  /\ owner \in [Locks -> Threads \union {Nil}]
  /\ holds \in [Threads -> [Objects -> Numbers]]
  /\ op \in [Threads -> Operations]

\* A call has the lock from Lock() to Unlock(), so what it has read of the count
\* is so still; and one that adds a reference is made with another held.
CallInv(t) ==
  /\ At(t, "idle") => op[t].obj = Nil
  /\ ~At(t, "idle") => op[t].obj \in Objects /\ op[t].call \in {"add", "release"}
  /\ op[t].call = "add" /\ ~At(t, "idle") =>
       ~At(t, "test") /\ holds[t][op[t].obj] \in 1..MaxHolds
  /\ op[t].step \in {"load", "store", "test", "unlock"} => owner[LockAt(t)] = t
  /\ At(t, "store") => op[t].val = refCount[op[t].obj]

RefInv == RefTypes /\ (\A t \in Threads : CallInv(t)) /\ RefsCounted

HoldsAt(o) == [t \in Threads |-> holds[t][o]]

LEMMA AsRefsOf ==
  ASSUME NEW o \in Objects
  PROVE  /\ References(o) = RefsOf(Extra(o), HoldsAt(o))
         /\ References(o)' = RefsOf(Extra(o)', HoldsAt(o)')
         /\ RefTypes => HoldsAt(o) \in [Threads -> Numbers]
         /\ RefTypes' => HoldsAt(o)' \in [Threads -> Numbers]
<1>1. References(o) = RefsOf(Extra(o), HoldsAt(o))
  BY DEF References, RefsOf, HoldsAt, Numbers
<1>2. References(o)' = RefsOf(Extra(o)', HoldsAt(o)')
  BY DEF References, RefsOf, HoldsAt, Numbers
<1> QED
  BY <1>1, <1>2 DEF RefTypes, HoldsAt

\* In whose calls a reference is, after a step of one thread.
LEMMA ExtraNext ==
  ASSUME NEW t \in Threads, NEW o \in Objects, \A u \in Threads \ {t} : op'[u] = op[u]
  PROVE  /\ (t \in Extra(o)' <=> t \in Extra(o)) => Extra(o)' = Extra(o)
         /\ t \in Extra(o)' => Extra(o)' = Extra(o) \union {t}
         /\ t \in Extra(o) => Extra(o) = Extra(o)' \union {t}
<1>1. \A u \in Threads \ {t} : u \in Extra(o)' <=> u \in Extra(o)
  BY DEF Extra, At
<1>2. Extra(o) \subseteq Threads /\ Extra(o)' \subseteq Threads
  BY DEF Extra
<1> QED
  BY <1>1, <1>2

\* A step of a thread that leaves the others' calls and all references alone.
\* Its own call may go on.
Quiet(t) ==
  /\ \A u \in Threads \ {t} : op'[u] = op[u]
  /\ holds' = holds /\ refCount' = refCount /\ deleted' = deleted
  /\ \A o \in Objects : t \in Extra(o)' <=> t \in Extra(o)

LEMMA QuietCounts ==
  ASSUME NEW t \in Threads, Quiet(t), RefsCounted, op'[t].obj \in {op[t].obj, Nil} \union (Objects \ deleted),
         deleted \subseteq Objects
  PROVE  RefsCounted'
<1>1. \A o \in Objects : Extra(o)' = Extra(o)
  BY ExtraNext DEF Quiet
<1>2. \A o \in Objects : References(o)' = References(o)
  BY <1>1 DEF References, Quiet
<1>3. CountsHolders'
  BY <1>2 DEF CountsHolders, RefsCounted, Quiet
<1>4. NobodyLeft'
  <2> SUFFICES ASSUME NEW o \in deleted, NEW u \in Threads, o \in Objects
               PROVE  holds[u][o] = 0 /\ op'[u].obj # o
    BY DEF NobodyLeft, Quiet
  <2> QED
    BY LockedRefAssumption DEF RefsCounted, NobodyLeft, Quiet
<1> QED
  BY <1>3, <1>4 DEF RefsCounted

\* A step of one thread and the calls of the others: it changes the counts of
\* objects that it has the lock of.
LEMMA OthersKeep ==
  ASSUME NEW t \in Threads, RefTypes, \A u \in Threads : CallInv(u),
         \A u \in Threads \ {t} : op'[u] = op[u] /\ holds'[u] = holds[u],
         \A l \in Locks : owner[l] \in Threads \ {t} => owner'[l] = owner[l],
         \A o \in Objects : owner[LockOf[o]] # t => refCount'[o] = refCount[o]
  PROVE  \A u \in Threads \ {t} : CallInv(u)'
<1> SUFFICES ASSUME NEW u \in Threads \ {t}
             PROVE  CallInv(u)'
  OBVIOUS
<1>1. CallInv(u) /\ op'[u] = op[u] /\ holds'[u] = holds[u]
  OBVIOUS
<1>2. op[u].obj \in Objects => LockAt(u) \in Locks /\ LockAt(u) = LockOf[op[u].obj]
  BY LockedRefAssumption DEF LockAt
<1>3. op[u].step \in {"load", "store", "test", "unlock"} =>
        owner'[LockAt(u)] = u /\ refCount'[op[u].obj] = refCount[op[u].obj]
  BY <1>1, <1>2 DEF CallInv, At
<1> QED
  BY <1>1, <1>3 DEF CallInv, At, LockAt

-----------------------------------------------------------------------------
(* The actions.                                                            *)

LEMMA RefInitial == RefInit => RefInv
<1> SUFFICES ASSUME RefInit
             PROVE  RefInv
  OBVIOUS
<1>1. PICK t \in Threads : holds = [u \in Threads |-> [o \in Objects |-> IF u = t THEN 1 ELSE 0]]
  BY DEF RefInit
<1>2. MaxHolds \in Nat /\ MaxHolds >= 1 /\ 0 \in Numbers /\ 1 \in Numbers
  BY LockedRefAssumption DEF Numbers
<1>3. Idle \in Operations
  BY DEF Idle, Operations
<1>4. RefTypes
  <2>1. holds \in [Threads -> [Objects -> Numbers]]
    BY <1>1, <1>2
  <2> QED
    BY <1>3, <2>1 DEF RefInit, RefTypes
<1>5. \A u \in Threads : CallInv(u)
  BY LockedRefAssumption DEF RefInit, CallInv, Idle, At
<1>6. ASSUME NEW o \in Objects
      PROVE  Cardinality(References(o)) = 1
  <2> DEFINE z == [u \in Threads |-> 0]
  <2>1. Extra(o) = {}
    BY LockedRefAssumption DEF RefInit, Extra, Idle, At
  <2>2. z \in [Threads -> Numbers] /\ HoldsAt(o) \in [Threads -> Numbers]
    BY <1>2, <1>4, AsRefsOf
  <2>3. /\ HoldsAt(o)[t] = z[t] + 1 /\ z[t] <= MaxHolds
        /\ \A v \in Threads \ {t} : HoldsAt(o)[v] = z[v]
    BY <1>1, <1>2 DEF HoldsAt
  <2>4. RefsOf({}, z) = {}
    BY DEF RefsOf, Numbers
  <2> HIDE DEF z
  <2>5. Cardinality(RefsOf({}, HoldsAt(o))) = Cardinality(RefsOf({}, z)) + 1
    BY <2>2, <2>3, RefHeld
  <2>6. Cardinality({}) = 0
    BY FS_EmptySet
  <2> QED
    BY <2>1, <2>4, <2>5, <2>6, AsRefsOf
<1>7. RefsCounted
  BY <1>6 DEF RefInit, RefsCounted, CountsHolders, NobodyLeft
<1> QED
  BY <1>4, <1>5, <1>7 DEF RefInv

LEMMA GiveKeeps ==
  ASSUME RefInv, NEW t \in Threads, NEW u \in Threads, NEW o \in Objects, Give(t, u, o)
  PROVE  RefInv'
<1> USE DEF RefInv
<1>1. /\ At(t, "idle") /\ t # u /\ holds[t][o] > 0 /\ holds[u][o] < MaxHolds
      /\ holds' = [holds EXCEPT ![t][o] = @ - 1, ![u][o] = @ + 1]
      /\ refCount' = refCount /\ deleted' = deleted /\ owner' = owner /\ op' = op
  BY DEF Give
<1>2. /\ MaxHolds \in Nat
      /\ \A v \in Threads, x \in Objects : holds[v][x] \in Int /\ 0 <= holds[v][x] /\ holds[v][x] <= MaxHolds + 1
  BY LockedRefAssumption DEF RefTypes, Numbers
<1>3. /\ holds[t][o] - 1 \in Numbers /\ holds[u][o] + 1 \in Numbers
      /\ holds[u][o] + 1 \in 1..MaxHolds
  BY <1>1, <1>2 DEF Numbers
<1>4. /\ holds' \in [Threads -> [Objects -> Numbers]]
      /\ \A v \in Threads, x \in Objects :
           holds'[v][x] = IF x = o /\ v = t THEN holds[t][o] - 1
                          ELSE IF x = o /\ v = u THEN holds[u][o] + 1 ELSE holds[v][x]
  BY <1>1, <1>3 DEF RefTypes
<1>5. RefTypes'
  BY <1>1, <1>4 DEF RefTypes
<1>6. \A v \in Threads : CallInv(v)'
  BY <1>1, <1>3, <1>4 DEF CallInv, At, LockAt
<1>7. \A x \in Objects : Extra(x)' = Extra(x)
  BY <1>1 DEF Extra, At
<1>8. ASSUME NEW x \in Objects
      PROVE  Cardinality(References(x)') = Cardinality(References(x))
  <2> DEFINE h == HoldsAt(x)
             g == HoldsAt(x)'
  <2>1. CASE x # o
    <3>1. References(x)' = References(x)
      BY <1>4, <1>7, <2>1 DEF References
    <3> QED
      BY <3>1
  <2>2. CASE x = o
    <3>1. h \in [Threads -> Numbers] /\ g \in [Threads -> Numbers]
      BY <1>5, AsRefsOf
    <3>2. \A v \in Threads : h[v] = holds[v][o] /\ g[v] = holds'[v][o]
      BY <2>2 DEF HoldsAt
    <3>3. References(x) = RefsOf(Extra(x), h) /\ References(x)' = RefsOf(Extra(x), g)
      BY <1>7, AsRefsOf
    <3> HIDE DEF h, g
    <3>4. h[t] > 0 /\ h[u] <= MaxHolds /\ u \in Threads \ {t}
      BY <1>1, <1>2, <3>2
    <3>5. g[t] = h[t] - 1 /\ g[u] = h[u] + 1 /\ \A v \in Threads \ {t, u} : g[v] = h[v]
      <4>1. /\ holds'[t][o] = holds[t][o] - 1 /\ holds'[u][o] = holds[u][o] + 1
            /\ \A v \in Threads \ {t, u} : holds'[v][o] = holds[v][o]
        BY <1>1, <1>4
      <4> QED
        BY <3>2, <4>1
    <3>6. Cardinality(RefsOf(Extra(x), g)) = Cardinality(RefsOf(Extra(x), h))
      BY <3>1, <3>4, <3>5, RefGiven
    <3> QED
      BY <3>3, <3>6
  <2> QED
    BY <2>1, <2>2
<1>9. CountsHolders'
  BY <1>1, <1>8 DEF RefsCounted, CountsHolders
<1>10. o \notin deleted
  BY <1>1 DEF RefsCounted, NobodyLeft
<1>11. NobodyLeft'
  <2> SUFFICES ASSUME NEW x \in deleted, NEW v \in Threads
               PROVE  holds'[v][x] = 0 /\ op[v].obj # x
    BY <1>1 DEF NobodyLeft
  <2>1. x \in Objects /\ x # o /\ holds[v][x] = 0 /\ op[v].obj # x
    BY <1>10 DEF RefTypes, RefsCounted, NobodyLeft
  <2> QED
    BY <1>4, <2>1
<1> QED
  BY <1>5, <1>6, <1>9, <1>11 DEF RefsCounted

\* What a call that begins or goes on does with the record of its thread.
LEMMA OpNext ==
  ASSUME RefTypes, NEW t \in Threads, NEW step, NEW val,
         \/ op' = [op EXCEPT ![t].step = step] /\ val = op[t].val
         \/ op' = [op EXCEPT ![t].val = val, ![t].step = step],
         step \in {"idle", "lock", "load", "store", "test", "unlock"}, val \in Int
  PROVE  /\ op' \in [Threads -> Operations]
         /\ \A u \in Threads \ {t} : op'[u] = op[u]
         /\ op'[t].call = op[t].call /\ op'[t].obj = op[t].obj
         /\ op'[t].step = step /\ op'[t].val = val
<1> DEFINE r == [op[t] EXCEPT !.val = val, !.step = step]
           q == [op[t] EXCEPT !.step = step]
<1>1. op[t] \in Operations
  BY DEF RefTypes
<1>2. /\ r \in Operations
      /\ r.call = op[t].call /\ r.obj = op[t].obj /\ r.step = step /\ r.val = val
  BY <1>1 DEF Operations
<1>3. /\ q \in Operations
      /\ q.call = op[t].call /\ q.obj = op[t].obj /\ q.step = step /\ q.val = op[t].val
  BY <1>1 DEF Operations
<1>4. op' = [op EXCEPT ![t] = r] \/ (op' = [op EXCEPT ![t] = q] /\ val = op[t].val)
  BY DEF RefTypes
<1> HIDE DEF r, q
<1> QED
  BY <1>2, <1>3, <1>4 DEF RefTypes

LEMMA OpBegins ==
  ASSUME RefTypes, NEW t \in Threads, NEW o \in Objects, NEW f \in {"add", "release"},
         op' = [op EXCEPT ![t] = [Idle EXCEPT !.call = f, !.obj = o, !.step = "lock"]]
  PROVE  /\ op' \in [Threads -> Operations]
         /\ \A u \in Threads \ {t} : op'[u] = op[u]
         /\ op'[t].call = f /\ op'[t].obj = o /\ op'[t].step = "lock"
<1> DEFINE r == [Idle EXCEPT !.call = f, !.obj = o, !.step = "lock"]
<1>1. r \in Operations /\ r.call = f /\ r.obj = o /\ r.step = "lock"
  <2>1. ASSUME NEW zero \in Int, NEW idle,
               idle = [call |-> "none", obj |-> Nil, step |-> "idle", val |-> zero],
               NEW q, q = [idle EXCEPT !.call = f, !.obj = o, !.step = "lock"]
        PROVE  q \in Operations /\ q.call = f /\ q.obj = o /\ q.step = "lock"
    BY <2>1 DEF Operations
  <2>2. Idle = [call |-> "none", obj |-> Nil, step |-> "idle", val |-> 0] /\ 0 \in Int
    BY DEF Idle
  <2> QED
    BY <2>1, <2>2
<1> HIDE DEF r
<1>2. op' = [op EXCEPT ![t] = r]
  BY DEF r
<1> QED
  BY <1>1, <1>2 DEF RefTypes

LEMMA OpEnds ==
  ASSUME RefTypes, NEW t \in Threads, op' = [op EXCEPT ![t] = Idle]
  PROVE  /\ op' \in [Threads -> Operations]
         /\ \A u \in Threads \ {t} : op'[u] = op[u]
         /\ op'[t].call = "none" /\ op'[t].obj = Nil /\ op'[t].step = "idle"
<1> DEFINE r == Idle
<1>1. r \in Operations /\ r.call = "none" /\ r.obj = Nil /\ r.step = "idle"
  BY DEF Idle, Operations
<1> HIDE DEF r
<1>2. op' = [op EXCEPT ![t] = r]
  BY DEF r
<1> QED
  BY <1>1, <1>2 DEF RefTypes

LEMMA AddRefKeeps ==
  ASSUME RefInv, NEW t \in Threads, NEW o \in Objects, AddRef(t, o)
  PROVE  RefInv'
<1> USE DEF RefInv
<1>1. /\ At(t, "idle") /\ holds[t][o] \in 1..(MaxHolds - 1)
      /\ refCount' = refCount /\ deleted' = deleted /\ owner' = owner /\ holds' = holds
  BY DEF AddRef
<1>2. /\ op' \in [Threads -> Operations]
      /\ \A u \in Threads \ {t} : op'[u] = op[u]
      /\ op'[t].call = "add" /\ op'[t].obj = o /\ op'[t].step = "lock"
  BY OpBegins DEF AddRef
<1>3. RefTypes'
  BY <1>1, <1>2 DEF RefTypes
<1>4. holds[t][o] \in 1..MaxHolds
  BY <1>1, LockedRefAssumption
<1>5. CallInv(t)'
  BY <1>1, <1>2, <1>4 DEF CallInv, At
<1>6. \A u \in Threads \ {t} : CallInv(u)'
  BY <1>1, <1>2, OthersKeep
<1>7. op[t].obj = Nil
  BY <1>1 DEF CallInv
<1>8. Quiet(t)
  <2>1. \A x \in Objects : t \notin Extra(x) /\ t \notin Extra(x)'
    BY <1>2, <1>7, LockedRefAssumption DEF Extra, At
  <2> QED
    BY <1>1, <1>2, <2>1 DEF Quiet
<1>9. o \notin deleted
  BY <1>1, <1>4 DEF RefsCounted, NobodyLeft
<1>10. RefsCounted'
  BY <1>2, <1>8, <1>9, QuietCounts DEF RefTypes
<1> QED
  BY <1>3, <1>5, <1>6, <1>10

LEMMA ReleaseRefKeeps ==
  ASSUME RefInv, NEW t \in Threads, NEW o \in Objects, ReleaseRef(t, o)
  PROVE  RefInv'
<1> USE DEF RefInv
<1>1. /\ At(t, "idle") /\ holds[t][o] > 0
      /\ holds' = [holds EXCEPT ![t][o] = @ - 1]
      /\ refCount' = refCount /\ deleted' = deleted /\ owner' = owner
  BY DEF ReleaseRef
<1>2. /\ op' \in [Threads -> Operations]
      /\ \A u \in Threads \ {t} : op'[u] = op[u]
      /\ op'[t].call = "release" /\ op'[t].obj = o /\ op'[t].step = "lock"
  BY OpBegins DEF ReleaseRef
<1>3. MaxHolds \in Nat /\ holds[t][o] \in Int /\ holds[t][o] <= MaxHolds + 1
  BY LockedRefAssumption DEF RefTypes, Numbers
<1>4. holds[t][o] - 1 \in Numbers
  BY <1>1, <1>3 DEF Numbers
<1>5. /\ holds' \in [Threads -> [Objects -> Numbers]]
      /\ \A v \in Threads, x \in Objects :
           holds'[v][x] = IF x = o /\ v = t THEN holds[t][o] - 1 ELSE holds[v][x]
      /\ \A u \in Threads \ {t} : holds'[u] = holds[u]
  BY <1>1, <1>4 DEF RefTypes
<1>6. RefTypes'
  BY <1>1, <1>2, <1>5 DEF RefTypes
<1>7. CallInv(t)'
  BY <1>2 DEF CallInv, At
<1>8. \A u \in Threads \ {t} : CallInv(u)'
  BY <1>1, <1>2, <1>5, OthersKeep
<1>9. op[t].obj = Nil /\ Nil \notin Objects
  BY <1>1, LockedRefAssumption DEF CallInv
<1>10. /\ \A x \in Objects : t \notin Extra(x)
       /\ \A x \in Objects \ {o} : t \notin Extra(x)'
       /\ t \in Extra(o)'
  BY <1>2, <1>9 DEF Extra, At
<1>11. ASSUME NEW x \in Objects
       PROVE  Cardinality(References(x)') = Cardinality(References(x))
  <2>1. CASE x # o
    <3>1. Extra(x)' = Extra(x)
      BY <1>2, <1>10, <2>1, ExtraNext
    <3>2. References(x)' = References(x)
      BY <1>5, <2>1, <3>1 DEF References
    <3> QED
      BY <3>2
  <2>2. CASE x = o
    <3> DEFINE h == HoldsAt(o)
               g == HoldsAt(o)'
               E == Extra(o)
               F == Extra(o)'
    <3>1. h \in [Threads -> Numbers] /\ g \in [Threads -> Numbers]
      BY <1>6, AsRefsOf
    <3>2. References(x) = RefsOf(E, h) /\ References(x)' = RefsOf(F, g)
      BY <2>2, AsRefsOf
    <3>3. F = E \union {t} /\ t \notin E
      BY <1>2, <1>10, ExtraNext
    <3>4. \A v \in Threads : h[v] = holds[v][o] /\ g[v] = holds'[v][o]
      BY DEF HoldsAt
    <3> HIDE DEF h, g, E, F
    <3>5. h[t] = g[t] + 1 /\ \A v \in Threads \ {t} : h[v] = g[v]
      <4>1. holds'[t][o] = holds[t][o] - 1 /\ \A v \in Threads \ {t} : holds'[v][o] = holds[v][o]
        BY <1>5
      <4>2. holds[t][o] = holds[t][o] - 1 + 1
        BY <1>3
      <4> QED
        BY <3>4, <4>1, <4>2
    <3>6. Cardinality(RefsOf(F, g)) = Cardinality(RefsOf(E, h))
      BY <3>1, <3>3, <3>5, RefTaken
    <3> QED
      BY <3>2, <3>6
  <2> QED
    BY <2>1, <2>2
<1>12. CountsHolders'
  BY <1>1, <1>11 DEF RefsCounted, CountsHolders
<1>13. o \notin deleted
  BY <1>1 DEF RefsCounted, NobodyLeft
<1>14. NobodyLeft'
  BY <1>1, <1>2, <1>5, <1>13 DEF RefTypes, RefsCounted, NobodyLeft
<1> QED
  BY <1>6, <1>7, <1>8, <1>12, <1>14 DEF RefsCounted

\* Lock() and the load: the call goes on with the references it had.
LEMMA LockKeeps ==
  ASSUME RefInv, NEW t \in Threads, Lock(t) \/ Load(t) \/ TestKeep(t)
  PROVE  RefInv'
<1> USE DEF RefInv
<1> DEFINE step == IF At(t, "lock") THEN "load" ELSE IF At(t, "load") THEN "store" ELSE "unlock"
           val == IF At(t, "load") THEN refCount[op[t].obj] ELSE op[t].val
<1>1. /\ holds' = holds /\ refCount' = refCount /\ deleted' = deleted
      /\ At(t, "lock") \/ At(t, "load") \/ At(t, "test")
  BY DEF Lock, Load, TestKeep
<1>2. op[t].obj \in Objects /\ op[t].call \in {"add", "release"} /\ LockAt(t) \in Locks
  BY <1>1, LockedRefAssumption DEF CallInv, At, LockAt
<1>3. val \in Int
  BY <1>2 DEF RefTypes, Operations
<1>4. \/ op' = [op EXCEPT ![t].step = step] /\ val = op[t].val
      \/ op' = [op EXCEPT ![t].val = val, ![t].step = step]
  BY DEF Lock, Load, TestKeep, Goto, At
<1>5. step \in {"idle", "lock", "load", "store", "test", "unlock"}
  OBVIOUS
<1>6. /\ op' \in [Threads -> Operations]
      /\ \A u \in Threads \ {t} : op'[u] = op[u]
      /\ op'[t].call = op[t].call /\ op'[t].obj = op[t].obj
      /\ op'[t].step = step /\ op'[t].val = val
  <2> HIDE DEF step, val
  <2>1. RefTypes
    OBVIOUS
  <2> HIDE DEF RefInv
  <2> QED
    BY <1>3, <1>4, <1>5, <2>1, OpNext
<1>7. /\ owner' \in [Locks -> Threads \union {Nil}]
      /\ owner'[LockAt(t)] = t
      /\ \A l \in Locks : owner[l] \in Threads \ {t} => owner'[l] = owner[l]
  BY <1>1, <1>2, LockedRefAssumption DEF Lock, Load, TestKeep, RefTypes, CallInv, At
<1>8. RefTypes'
  BY <1>1, <1>6, <1>7 DEF RefTypes
<1>9. CallInv(t)'
  BY <1>1, <1>2, <1>6, <1>7 DEF CallInv, At, LockAt
<1>10. \A u \in Threads \ {t} : CallInv(u)'
  BY <1>1, <1>6, <1>7, OthersKeep
<1>11. Quiet(t)
  BY <1>1, <1>2, <1>6 DEF Quiet, Extra, At, CallInv
<1>12. RefsCounted'
  BY <1>6, <1>11, QuietCounts DEF RefTypes
<1> QED
  BY <1>8, <1>9, <1>10, <1>12

\* The store makes the count that of the references, for no other thread has
\* changed it since the load.
LEMMA StoreKeeps ==
  ASSUME RefInv, NEW t \in Threads, NEW o, o = op[t].obj, Store(t)
  PROVE  RefInv'
<1> USE DEF RefInv
<1> DEFINE add == op[t].call = "add"
           step == IF add THEN "unlock" ELSE "test"
           count == IF add THEN refCount[o] + 1 ELSE refCount[o] - 1
<1>1. /\ At(t, "store") /\ owner' = owner /\ holds' = holds /\ deleted' = deleted
      /\ op' = [op EXCEPT ![t].step = step]
  BY DEF Store, Goto
<1>2. /\ o \in Objects /\ op[t].call \in {"add", "release"}
      /\ op[t].val = refCount[o] /\ refCount[o] \in Int /\ owner[LockOf[o]] = t
  BY <1>1 DEF CallInv, At, RefTypes, LockAt
<1>3. refCount' = [refCount EXCEPT ![o] = count]
  BY <1>2 DEF Store
<1>4. /\ count \in Int /\ refCount' \in [Objects -> Int] /\ refCount'[o] = count
      /\ \A x \in Objects \ {o} : refCount'[x] = refCount[x]
  BY <1>2, <1>3 DEF RefTypes
<1>5. step \in {"idle", "lock", "load", "store", "test", "unlock"} /\ op[t].val \in Int
  BY <1>2
<1>6. /\ op' \in [Threads -> Operations]
      /\ \A u \in Threads \ {t} : op'[u] = op[u]
      /\ op'[t].call = op[t].call /\ op'[t].obj = o
      /\ op'[t].step = step
  <2> HIDE DEF step
  <2>1. PICK val : val = op[t].val
    OBVIOUS
  <2>2. op' = [op EXCEPT ![t].step = step] /\ val = op[t].val
    BY <1>1, <2>1
  <2>3. val \in Int
    BY <1>5, <2>1
  <2> QED
    BY <1>5, <2>2, <2>3, OpNext
<1> HIDE DEF count
<1>7. RefTypes'
  BY <1>1, <1>4, <1>6 DEF RefTypes
<1>8. CallInv(t)'
  BY <1>1, <1>2, <1>6 DEF CallInv, At, LockAt
<1>9. \A x \in Objects : owner[LockOf[x]] # t => refCount'[x] = refCount[x]
  BY <1>2, <1>4
<1>10. \A u \in Threads \ {t} : CallInv(u)'
  BY <1>1, <1>6, <1>9, OthersKeep
<1>11. \A x \in Objects \ {o} : References(x)' = References(x)
  <2> SUFFICES ASSUME NEW x \in Objects \ {o}
               PROVE  References(x)' = References(x)
    OBVIOUS
  <2>1. t \notin Extra(x) /\ t \notin Extra(x)'
    BY <1>6 DEF Extra
  <2>2. Extra(x)' = Extra(x)
    BY <1>6, <2>1, ExtraNext
  <2> QED
    BY <1>1, <2>2 DEF References
<1>12. Cardinality(References(o)') = IF add THEN Cardinality(References(o)) + 1
                                     ELSE Cardinality(References(o)) - 1
  <2> DEFINE h == HoldsAt(o)
             E == Extra(o)
             F == Extra(o)'
  <2>1. References(o) = RefsOf(E, h)
    BY <1>2, AsRefsOf
  <2>2. HoldsAt(o)' = h
    BY <1>1 DEF HoldsAt
  <2>3. References(o)' = RefsOf(F, h)
    BY <1>2, <2>2, AsRefsOf
  <2>4. Cardinality(RefsOf(E, h)) \in Nat /\ Cardinality(RefsOf(F, h)) \in Nat
    BY RefsFinite
  <2>5. t \in E <=> ~add
    BY <1>1, <1>2 DEF Extra, At
  <2>6. t \in F <=> add
    BY <1>6 DEF Extra, At
  <2>7. CASE add
    <3>1. t \notin E /\ F = E \union {t}
      BY <1>2, <1>6, <2>5, <2>6, <2>7, ExtraNext
    <3> HIDE DEF h, E, F
    <3>2. Cardinality(RefsOf(F, h)) = Cardinality(RefsOf(E, h)) + 1
      BY <3>1, RefInCall
    <3> QED
      BY <2>1, <2>3, <2>7, <3>2
  <2>8. CASE ~add
    <3>1. t \notin F /\ E = F \union {t}
      BY <1>2, <1>6, <2>5, <2>6, <2>8, ExtraNext
    <3> HIDE DEF h, E, F
    <3>2. Cardinality(RefsOf(E, h)) = Cardinality(RefsOf(F, h)) + 1
      BY <3>1, RefInCall
    <3>3. Cardinality(RefsOf(F, h)) = Cardinality(RefsOf(E, h)) - 1
      BY <2>4, <3>2
    <3> QED
      BY <2>1, <2>3, <2>8, <3>3
  <2> QED
    BY <2>7, <2>8
<1>13. CountsHolders'
  <2> SUFFICES ASSUME NEW x \in Objects \ deleted
               PROVE  refCount'[x] = Cardinality(References(x)')
    BY <1>1 DEF CountsHolders
  <2>1. refCount[x] = Cardinality(References(x))
    BY DEF RefsCounted, CountsHolders
  <2>2. CASE x = o
    BY <1>4, <1>12, <2>1, <2>2 DEF count
  <2>3. CASE x # o
    <3>1. References(x)' = References(x)
      BY <1>11, <2>3
    <3> QED
      BY <1>4, <2>1, <2>3, <3>1
  <2> QED
    BY <2>2, <2>3
<1>14. NobodyLeft'
  BY <1>1, <1>6 DEF RefsCounted, NobodyLeft
<1> QED
  BY <1>7, <1>8, <1>10, <1>13, <1>14 DEF RefsCounted

\* The object that ReleaseRef() deletes has no references, so nobody else is in a
\* call for it: one that adds has another, one that releases has yet to take from
\* the count, and one between the store and its return has the lock.
LEMMA TestDeleteKeeps ==
  ASSUME RefInv, NEW t \in Threads, NEW o, o = op[t].obj, TestDelete(t)
  PROVE  RefInv'
<1> USE DEF RefInv
<1>1. /\ At(t, "test") /\ owner' = owner /\ holds' = holds /\ refCount' = refCount
      /\ deleted' = deleted \union {o} /\ op' = [op EXCEPT ![t] = Idle]
      /\ refCount[o] = 0
  BY DEF TestDelete
<1>2. /\ op' \in [Threads -> Operations]
      /\ \A u \in Threads \ {t} : op'[u] = op[u]
      /\ op'[t].call = "none" /\ op'[t].obj = Nil /\ op'[t].step = "idle"
  BY <1>1, OpEnds
<1>3. o \in Objects /\ op[t].call = "release" /\ owner[LockOf[o]] = t
  BY <1>1 DEF CallInv, At, LockAt
<1>4. RefTypes'
  BY <1>1, <1>2, <1>3 DEF RefTypes
<1>5. CallInv(t)'
  BY <1>2 DEF CallInv, At
<1>6. \A u \in Threads \ {t} : CallInv(u)'
  BY <1>1, <1>2, OthersKeep
<1>7. Nil \notin Objects
  BY LockedRefAssumption
<1>8. t \notin Extra(o) /\ \A x \in Objects : (t \in Extra(x)' <=> t \in Extra(x))
  BY <1>1, <1>2, <1>3, <1>7 DEF Extra, At
<1>9. \A x \in Objects : References(x)' = References(x)
  <2>1. \A x \in Objects : Extra(x)' = Extra(x)
    BY <1>2, <1>8, ExtraNext
  <2> QED
    BY <1>1, <2>1 DEF References
<1>10. CountsHolders'
  BY <1>1, <1>9 DEF RefsCounted, CountsHolders
<1>11. o \notin deleted
  BY <1>3 DEF RefsCounted, NobodyLeft
<1>12. References(o) = {}
  <2>1. Cardinality(References(o)) = 0
    BY <1>1, <1>3, <1>11 DEF RefsCounted, CountsHolders
  <2>2. IsFiniteSet(References(o))
    BY <1>3, AsRefsOf, RefsFinite
  <2> QED
    BY <2>1, <2>2, FS_EmptySet
<1>13. ASSUME NEW u \in Threads
       PROVE  holds[u][o] = 0 /\ u \notin Extra(o)
  <2>1. holds[u][o] \in Numbers /\ 1 \in 0..(MaxHolds + 1) /\ 0 \in 0..(MaxHolds + 1)
    BY <1>3, LockedRefAssumption DEF RefTypes
  <2>2. <<u, 1>> \notin References(o) /\ <<u, 0>> \notin References(o)
    BY <1>12
  <2> QED
    BY <2>1, <2>2 DEF References, Numbers
<1>14. ASSUME NEW u \in Threads, op'[u].obj = o
       PROVE  FALSE
  <2>1. u # t /\ op[u].obj = o
    BY <1>2, <1>3, <1>7, <1>14
  <2>2. ~At(u, "idle") /\ op[u].call \in {"add", "release"}
    BY <1>3, <1>7, <2>1 DEF CallInv
  <2>3. op[u].call # "add"
    <3>1. op[u].call = "add" => holds[u][o] \in 1..MaxHolds
      BY <2>1, <2>2 DEF CallInv
    <3>2. 0 \notin 1..MaxHolds
      BY LockedRefAssumption
    <3> QED
      BY <1>13, <3>1, <3>2
  <2>4. op[u].step \notin {"lock", "load", "store"}
    BY <1>13, <2>1, <2>2, <2>3 DEF Extra
  <2>5. op[u].step \in {"test", "unlock"}
    BY <2>2, <2>4 DEF RefTypes, Operations, At
  <2>6. owner[LockOf[o]] = u
    BY <2>1, <2>5 DEF CallInv, LockAt
  <2> QED
    BY <1>3, <2>1, <2>6
<1>15. NobodyLeft'
  <2> SUFFICES ASSUME NEW x \in deleted \union {o}, NEW u \in Threads
               PROVE  holds[u][x] = 0 /\ op'[u].obj # x
    BY <1>1 DEF NobodyLeft
  <2>1. CASE x = o
    BY <1>13, <1>14, <2>1
  <2>2. CASE x \in deleted
    BY <1>2, <1>7, <2>2 DEF RefsCounted, NobodyLeft, RefTypes
  <2> QED
    BY <2>1, <2>2
<1> QED
  BY <1>4, <1>5, <1>6, <1>10, <1>15 DEF RefsCounted

\* A call returns: the reference that AddRef() added is held.
LEMMA UnlockKeeps ==
  ASSUME RefInv, NEW t \in Threads, NEW o, o = op[t].obj, Unlock(t)
  PROVE  RefInv'
<1> USE DEF RefInv
<1> DEFINE add == op[t].call = "add"
<1>1. /\ At(t, "unlock") /\ refCount' = refCount /\ deleted' = deleted
      /\ owner' = owner \/ owner' = [owner EXCEPT ![LockAt(t)] = Nil]
      /\ holds' = IF add THEN [holds EXCEPT ![t][o] = @ + 1] ELSE holds
      /\ op' = [op EXCEPT ![t] = Idle]
  BY DEF Unlock
<1>2. /\ op' \in [Threads -> Operations]
      /\ \A u \in Threads \ {t} : op'[u] = op[u]
      /\ op'[t].call = "none" /\ op'[t].obj = Nil /\ op'[t].step = "idle"
  BY <1>1, OpEnds
<1>3. o \in Objects /\ owner[LockAt(t)] = t /\ (add => holds[t][o] \in 1..MaxHolds)
  BY <1>1 DEF CallInv, At
<1>4. /\ owner' \in [Locks -> Threads \union {Nil}]
      /\ \A l \in Locks : owner[l] \in Threads \ {t} => owner'[l] = owner[l]
  BY <1>1, <1>3 DEF RefTypes
<1>5. MaxHolds \in Nat /\ (add => holds[t][o] \in Int /\ holds[t][o] + 1 \in Numbers /\ holds[t][o] <= MaxHolds)
  BY <1>3, LockedRefAssumption DEF Numbers
<1>6. /\ holds' \in [Threads -> [Objects -> Numbers]]
      /\ \A u \in Threads \ {t} : holds'[u] = holds[u]
      /\ \A u \in Threads, x \in Objects :
           holds'[u][x] = IF add /\ u = t /\ x = o THEN holds[t][o] + 1 ELSE holds[u][x]
  BY <1>1, <1>3, <1>5 DEF RefTypes
<1>7. RefTypes'
  BY <1>1, <1>2, <1>4, <1>6 DEF RefTypes
<1>8. CallInv(t)'
  BY <1>2 DEF CallInv, At
<1>9. \A u \in Threads \ {t} : CallInv(u)'
  BY <1>1, <1>2, <1>4, <1>6, OthersKeep
<1>10. Nil \notin Objects
  BY LockedRefAssumption
<1>11. /\ \A x \in Objects : t \notin Extra(x)'
       /\ \A x \in Objects : t \in Extra(x) <=> add /\ x = o
  BY <1>1, <1>2, <1>10 DEF Extra, At
<1>12. ASSUME NEW x \in Objects
       PROVE  Cardinality(References(x)') = Cardinality(References(x))
  <2>1. CASE ~(add /\ x = o)
    <3>1. Extra(x)' = Extra(x)
      BY <1>2, <1>11, <2>1, ExtraNext
    <3>2. References(x)' = References(x)
      BY <1>6, <2>1, <3>1 DEF References
    <3> QED
      BY <3>2
  <2>2. CASE add /\ x = o
    <3> DEFINE h == HoldsAt(x)
               g == HoldsAt(x)'
               E == Extra(x)
               F == Extra(x)'
    <3>1. h \in [Threads -> Numbers] /\ g \in [Threads -> Numbers]
      BY <1>7, AsRefsOf
    <3>2. References(x) = RefsOf(E, h) /\ References(x)' = RefsOf(F, g)
      BY AsRefsOf
    <3>3. E = F \union {t} /\ t \notin F
      BY <1>2, <1>11, <2>2, ExtraNext
    <3>4. \A v \in Threads : h[v] = holds[v][x] /\ g[v] = holds'[v][x]
      BY DEF HoldsAt
    <3> HIDE DEF h, g, E, F
    <3>5. g[t] = h[t] + 1 /\ \A v \in Threads \ {t} : g[v] = h[v]
      BY <1>6, <2>2, <3>4
    <3>6. Cardinality(RefsOf(E, h)) = Cardinality(RefsOf(F, g))
      BY <3>1, <3>3, <3>5, RefTaken
    <3> QED
      BY <3>2, <3>6
  <2> QED
    BY <2>1, <2>2
<1>13. CountsHolders'
  BY <1>1, <1>12 DEF RefsCounted, CountsHolders
<1>14. o \notin deleted
  BY <1>3 DEF RefsCounted, NobodyLeft
<1>15. NobodyLeft'
  BY <1>1, <1>2, <1>6, <1>10, <1>14 DEF RefTypes, RefsCounted, NobodyLeft
<1> QED
  BY <1>7, <1>8, <1>9, <1>13, <1>15 DEF RefsCounted

\* util.cpp:115,132,141: under a lock the count of an object is that of the
\* references there are, whatever threads add, release and hand over, and it is
\* deleted when there is none and nobody is in a call for it.
THEOREM RefsCountedHolds == RefSpec => []RefsCounted
<1>1. RefInv /\ [RefNext]_refVars => RefInv'
  <2> SUFFICES ASSUME RefInv, [RefNext]_refVars
               PROVE  RefInv'
    OBVIOUS
  <2>1. ASSUME NEW t \in Threads, Lock(t) \/ RefStep(t)
        PROVE  RefInv'
    BY <2>1, LockKeeps, StoreKeeps, TestDeleteKeeps, UnlockKeeps DEF RefStep
  <2>2. CASE UNCHANGED refVars
    <3>1. \A o : References(o)' = References(o)
      BY <2>2 DEF refVars, References, Extra, At
    <3>2. RefsCounted'
      BY <2>2, <3>1 DEF refVars, RefInv, RefsCounted, CountsHolders, NobodyLeft
    <3> QED
      BY <2>2, <3>2 DEF refVars, RefInv, RefTypes, CallInv, At, LockAt
  <2> QED
    BY <2>1, <2>2, AddRefKeeps, ReleaseRefKeeps, GiveKeeps DEF RefNext
<1> QED
  BY <1>1, RefInitial, PTL DEF RefSpec, RefInv

-----------------------------------------------------------------------------
(* CSimpleBuffer, for sizes of any width and buffers up to the size from    *)
(* which the sums overflow: the sums do not wrap.                          *)

LEMMA ModBelow ==
  ASSUME NEW w \in Nat \ {0}, NEW n \in 0..(w - 1)
  PROVE  n % w = n
OBVIOUS

LEMMA ModAbove ==
  ASSUME NEW w \in Nat \ {0}, NEW n \in 0..(w - 1)
  PROVE  (w + n) % w = n
OBVIOUS

\* What Extend() allocates is room enough, and less than the type holds.
LEMMA GrownFits ==
  ASSUME offset \in Nat, NEW len \in Nat, offset + len <= Limit
  PROVE  /\ Grown(len) \in (offset + len)..(Limit + Limit \div 4)
         /\ (offset + len) % Wrap = offset + len
<1> DEFINE n == offset + len
<1>1. n \in Nat /\ n <= Limit
  OBVIOUS
<1>2. n % Wrap = n
  BY <1>1, BufferAssumption, ModBelow
<1>3. n \div 4 \in Nat /\ n \div 4 <= Limit \div 4
  BY <1>1, BufferAssumption
<1>4. (n + (n \div 4)) % Wrap = n + (n \div 4)
  BY <1>1, <1>3, BufferAssumption, ModBelow
<1>5. Grown(len) = n + (n \div 4)
  BY <1>2, <1>4 DEF Grown
<1> QED
  BY <1>1, <1>2, <1>3, <1>5, BufferAssumption

-----------------------------------------------------------------------------
(* The invariant: the content is in the allocation, and both are of a size *)
(* from which nothing overflows.                                           *)

BytesHeld == Nat \union {Garbage}

BufferInv ==
  /\ alloc \in 0..(Wrap - 1)
  /\ offset \in Nat /\ offset <= alloc /\ offset <= Limit
  /\ put \in 0..MaxPut
  /\ mem \in [0..(alloc - 1) -> BytesHeld]
  /\ outside = FALSE

\* What Queue!queue is.
Held == [i \in 1..offset |-> mem[i - 1]]

LEMMA ContentShape ==
  ASSUME NEW a \in Nat, NEW m \in [0..(a - 1) -> BytesHeld], NEW k \in 0..a,
         NEW h, h = [i \in 1..k |-> m[i - 1]]
  PROVE  h \in Seq(BytesHeld) /\ Len(h) = k
OBVIOUS

\* Writing and receiving: len bytes of room are made, n of them are filled.
LEMMA Appends ==
  ASSUME BufferInv, NEW len \in Nat, NEW n \in 0..len, NEW size \in Nat,
         offset + len <= Limit, offset + len <= size, alloc <= size, size < Wrap,
         put + n <= MaxPut,
         alloc' = size,
         mem' = Filled(Resized(size), n),
         outside' = (outside \/ offset + len > size),
         offset' = (offset + n) % Wrap,
         put' = put + n
  PROVE  BufferInv' /\ Queue!Enqueue
<1> USE DEF BufferInv
<1>1. offset' = offset + n
  <2>1. offset + n \in 0..(Wrap - 1)
    BY BufferAssumption
  <2> QED
    BY <2>1, BufferAssumption, ModBelow
<1>2. Resized(size) \in [0..(size - 1) -> BytesHeld]
  BY DEF Resized, BytesHeld
<1>3. mem' = [i \in 0..(size - 1) |->
                IF i \in offset..(offset + n - 1) THEN put + i - offset + 1
                ELSE IF i < alloc THEN mem[i] ELSE Garbage]
  BY <1>2 DEF Filled, Resized
<1>4. mem' \in [0..(size - 1) -> BytesHeld]
  BY <1>3 DEF BytesHeld
<1>5. outside' = FALSE
  <2>1. ~(offset + len > size)
    BY BufferAssumption
  <2> QED
    BY <2>1, Zenon
<1>6. BufferInv'
  BY <1>1, <1>4, <1>5, BufferAssumption
<1>7. Held' = Held \o [i \in 1..n |-> put + i]
  <2> DEFINE new == [i \in 1..n |-> put + i]
  <2>1. Held \in Seq(BytesHeld) /\ Len(Held) = offset
    BY ContentShape DEF Held
  <2>2. /\ new \in Seq(BytesHeld) /\ Len(new) = n
        /\ \A i \in 1..n : new[i] = put + i
    BY DEF BytesHeld
  <2> HIDE DEF new
  <2>3. Held' \in Seq(BytesHeld) /\ Len(Held') = offset + n
    <3>1. offset' \in 0..size
      BY <1>1
    <3>2. Held' = [i \in 1..offset' |-> mem'[i - 1]]
      BY Zenon DEF Held
    <3>3. Held' \in Seq(BytesHeld) /\ Len(Held') = offset'
      <4> DEFINE k == offset'
                 m == mem'
                 h == Held'
      <4>1. /\ size \in Nat /\ k \in 0..size /\ m \in [0..(size - 1) -> BytesHeld]
            /\ h = [i \in 1..k |-> m[i - 1]]
        BY <3>1, <3>2, <1>4, Zenon
      <4> HIDE DEF k, m, h
      <4>2. h \in Seq(BytesHeld) /\ Len(h) = k
        BY <4>1, ContentShape
      <4> QED
        BY <4>2 DEF k, h
    <3> QED
      BY <3>3, <1>1, Zenon
  <2>4. /\ Held \o new \in Seq(BytesHeld)
        /\ Len(Held \o new) = offset + n
        /\ \A i \in 1..(offset + n) :
             (Held \o new)[i] = IF i <= offset THEN Held[i] ELSE new[i - offset]
    BY <2>1, <2>2, ConcatProperties
  <2>5. ASSUME NEW i \in 1..(offset + n)
        PROVE  Held'[i] = (Held \o new)[i]
    <3>1. Held'[i] = mem'[i - 1] /\ i - 1 \in 0..(size - 1)
      BY <1>1 DEF Held
    <3>2. CASE i <= offset
      <4>1. i - 1 \notin offset..(offset + n - 1) /\ i - 1 < alloc
        BY <3>2
      <4>2. mem'[i - 1] = mem[i - 1]
        BY <4>1, <3>1, <1>3
      <4>3. (Held \o new)[i] = Held[i]
        BY <3>2, <2>4
      <4>4. Held[i] = mem[i - 1]
        BY <3>2 DEF Held
      <4>5. Held'[i] = Held[i]
        BY <3>1, <4>2, <4>4, Zenon
      <4> QED
        BY <4>3, <4>5, Zenon
    <3>3. CASE i > offset
      <4>1. i - 1 \in offset..(offset + n - 1) /\ i - offset \in 1..n
        BY <3>3
      <4>2. mem'[i - 1] = put + i - offset
        BY <4>1, <3>1, <1>3
      <4>3. (Held \o new)[i] = put + (i - offset)
        BY <3>3, <4>1, <2>2, <2>4
      <4> QED
        BY <3>1, <4>2, <4>3
    <3>4. i <= offset \/ i > offset
      OBVIOUS
    <3> QED
      BY <3>2, <3>3, <3>4, Zenon
  <2>6. Held' = Held \o new
    BY <2>3, <2>4, <2>5, SeqEqual
  <2> QED
    BY <2>6 DEF new
<1>8. n \in 0..(MaxPut - put)
  BY BufferAssumption
<1> QED
  BY <1>6, <1>7, <1>8 DEF Queue!Enqueue, Held

\* Taking out: the rest moves to the front.
LEMMA Removes ==
  ASSUME BufferInv, NEW len \in Nat, Read(len)
  PROVE  BufferInv' /\ Queue!Dequeue
<1> USE DEF BufferInv
<1> DEFINE n == IF len > offset THEN offset ELSE len
<1>1. n \in 0..offset
  OBVIOUS
<1>2. /\ offset' = offset - n
      /\ mem' = [i \in DOMAIN mem |-> IF i + n < offset THEN mem[i + n] ELSE Garbage]
      /\ outside' = (outside \/ offset > alloc)
      /\ alloc' = alloc /\ put' = put
  BY DEF Read
<1> HIDE DEF n
<1>3. mem' \in [0..(alloc - 1) -> BytesHeld]
  <2>1. ASSUME NEW i \in 0..(alloc - 1), i + n < offset
        PROVE  mem[i + n] \in BytesHeld
    BY <2>1, <1>1
  <2> QED
    BY <2>1, <1>2 DEF BytesHeld
<1>4. outside' = FALSE
  <2>1. ~(offset > alloc)
    BY BufferAssumption
  <2> QED
    BY <2>1, <1>2, Zenon
<1>5. BufferInv'
  BY <1>1, <1>2, <1>3, <1>4, BufferAssumption
<1>6. /\ Held \in Seq(BytesHeld) /\ Len(Held) = offset
      /\ \A j \in 1..offset : Held[j] = mem[j - 1]
  BY ContentShape DEF Held
<1>7. Held' = SubSeq(Held, n + 1, Len(Held))
  <2>1. SubSeq(Held, n + 1, Len(Held)) = [i \in 1..(offset - n) |-> Held[i + n]]
    BY <1>1, <1>6
  <2>2. ASSUME NEW i \in 1..(offset - n)
        PROVE  mem'[i - 1] = Held[i + n]
    <3>1. i - 1 \in 0..(alloc - 1) /\ i - 1 + n < offset /\ i + n \in 1..offset
      BY <1>1
    <3>2. mem'[i - 1] = mem[i - 1 + n]
      BY <3>1, <1>2
    <3>3. Held[i + n] = mem[(i + n) - 1]
      BY <3>1, <1>6, Zenon
    <3>4. (i + n) - 1 = i - 1 + n
      BY <1>1
    <3> QED
      BY <3>2, <3>3, <3>4, Zenon
  <2>3. Held' = [i \in 1..(offset - n) |-> mem'[i - 1]]
    BY <1>2 DEF Held
  <2> QED
    BY <2>1, <2>2, <2>3
<1> QED
  BY <1>1, <1>2, <1>5, <1>6, <1>7 DEF Queue!Dequeue, Held

\* Every step keeps the invariant and is a step of the queue, or none.
LEMMA BufferStep ==
  ASSUME BufferInv, [BufferNext]_bufferVars
  PROVE  BufferInv' /\ [Queue!Enqueue \/ Queue!Dequeue]_(Queue!queueVars)
<1> USE DEF BufferInv
<1>1. ASSUME NEW len \in 0..MaxPut, Write(len)
      PROVE  BufferInv' /\ Queue!Enqueue
  <2> DEFINE size == IF (offset + len) % Wrap > alloc THEN Grown(len) ELSE alloc
  <2>1. len \in Nat /\ offset + len <= Limit /\ put + len <= MaxPut
    BY <1>1, BufferAssumption DEF Write
  <2>2. /\ Grown(len) \in (offset + len)..(Limit + Limit \div 4)
        /\ (offset + len) % Wrap = offset + len
    BY <2>1, GrownFits
  <2>3. /\ size \in Nat /\ size < Wrap
        /\ offset + len <= size /\ alloc <= size
    BY <2>1, <2>2, BufferAssumption
  <2>4. /\ alloc' = size
        /\ mem' = Filled(Resized(size), len)
        /\ outside' = (outside \/ offset + len > size)
        /\ offset' = (offset + len) % Wrap
        /\ put' = put + len
    BY <1>1 DEF Write
  <2> HIDE DEF size, BufferInv
  <2> QED
    BY <2>1, <2>3, <2>4, Appends
<1>2. ASSUME NEW n \in 0..ReadSize, Receive(n)
      PROVE  BufferInv' /\ Queue!Enqueue
  <2> DEFINE size == IF (Wrap + alloc - offset) % Wrap < ReadSize
                     THEN Grown(ReadSize) ELSE alloc
  <2>1. ReadSize \in Nat /\ offset + ReadSize <= Limit /\ put + n <= MaxPut
    BY <1>2, BufferAssumption DEF Receive
  <2>2. Grown(ReadSize) \in (offset + ReadSize)..(Limit + Limit \div 4)
    BY <2>1, GrownFits
  <2>3. (Wrap + alloc - offset) % Wrap = alloc - offset
    <3>1. alloc - offset \in 0..(Wrap - 1)
      BY BufferAssumption
    <3>2. Wrap + alloc - offset = Wrap + (alloc - offset)
      BY BufferAssumption
    <3> QED
      BY <3>1, <3>2, ModAbove, BufferAssumption
  <2>4. /\ size \in Nat /\ size < Wrap
        /\ offset + ReadSize <= size /\ alloc <= size
    BY <2>1, <2>2, <2>3, BufferAssumption
  <2>5. /\ alloc' = size
        /\ mem' = Filled(Resized(size), n)
        /\ outside' = (outside \/ offset + ReadSize > size)
        /\ offset' = (offset + n) % Wrap
        /\ put' = put + n
    BY <1>2 DEF Receive
  <2> HIDE DEF size, BufferInv
  <2> QED
    BY <2>1, <2>4, <2>5, Appends
<1>3. ASSUME NEW len \in 0..MaxPut, Read(len)
      PROVE  BufferInv' /\ Queue!Dequeue
  <2>1. len \in Nat
    BY BufferAssumption
  <2> HIDE DEF BufferInv
  <2> QED
    BY <1>3, <2>1, Removes
<1>4. CASE UNCHANGED bufferVars
  <2>1. BufferInv'
    BY <1>4 DEF bufferVars, BytesHeld
  <2>2. UNCHANGED Queue!queueVars
    BY <1>4 DEF bufferVars, Queue!queueVars
  <2> QED
    BY <2>1, <2>2
<1> QED
  BY <1>1, <1>2, <1>3, <1>4 DEF BufferNext

LEMMA BufferStart ==
  ASSUME BufferInit
  PROVE  BufferInv /\ Queue!QueueInit
<1>1. BufferInv
  BY BufferAssumption DEF BufferInit, BufferInv
<1>2. Queue!QueueInit
  BY DEF BufferInit, Queue!QueueInit
<1> QED
  BY <1>1, <1>2

-----------------------------------------------------------------------------

\* util.cpp:176: no access leaves the allocation, up to the size from which the
\* sums overflow.
THEOREM InBoundsHolds == BufferSpec => []InBounds
<1>1. BufferInv => InBounds
  BY DEF BufferInv, InBounds
<1> QED
  BY <1>1, BufferStart, BufferStep, PTL DEF BufferSpec

\* CSimpleBuffer is a queue: growing, moving and cutting lose and change no byte.
THEOREM ImplementsQueueHolds == BufferSpec => ImplementsQueue
<1> QED
  BY BufferStart, BufferStep, PTL DEF BufferSpec, ImplementsQueue, Queue!QueueSpec
=============================================================================
