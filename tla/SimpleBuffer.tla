---------------------------- MODULE SimpleBuffer ----------------------------
(***************************************************************************)
(* CSimpleBuffer, as m_out_buf and m_in_buf use it: Write() appends,       *)
(* Read(NULL, len) drops from the front, and OnRead() makes room with      *)
(* Extend(), receives behind the content and calls IncWriteOffset().       *)
(* Sizes and offsets are uint32_t.                                         *)
(***************************************************************************)
EXTENDS Naturals, Sequences

CONSTANTS
  Wrap,      \* 2^32
  ReadSize,  \* READ_BUF_SIZE
  Limit,     \* no more bytes than this are in a buffer, free room included
  MaxPut,    \* bound on the bytes put in
  Garbage    \* what memory behind the content holds, which nobody reads

\* Below four fifths of the type the size grown by a quarter fits it.
ASSUME BufferAssumption ==
  /\ Wrap \in Nat \ {0} /\ ReadSize \in Nat \ {0} /\ MaxPut \in Nat
  /\ Limit \in Nat /\ Limit + (Limit \div 4) < Wrap
  /\ Garbage \notin Nat

VARIABLES
  mem,     \* m_buffer: the bytes allocated, from 0
  alloc,   \* m_alloc_size
  offset,  \* m_write_offset
  put,     \* how many bytes were put in so far
  outside  \* history: an access was outside the allocation

bufferVars == <<mem, alloc, offset, put, outside>>

BufferInit ==
  /\ mem = [i \in {} |-> Garbage]
  /\ alloc = 0 /\ offset = 0 /\ put = 0
  /\ outside = FALSE

\* The size Extend(len) allocates.
Grown(len) ==
  LET n == (offset + len) % Wrap IN (n + (n \div 4)) % Wrap

\* realloc(): what fits stays.
Resized(size) ==
  [i \in 0..(size - 1) |-> IF i < alloc THEN mem[i] ELSE Garbage]

\* n new bytes at the end of the content of memory m, as far as m reaches.
Filled(m, n) ==
  [i \in DOMAIN m |-> IF i \in offset..(offset + n - 1) THEN put + i - offset + 1 ELSE m[i]]

\* Mutant: the test forgets what the buffer holds.
Bug_Write_Fits(len) ==
  LET size == IF len > alloc THEN Grown(len) ELSE alloc IN
  /\ offset + len <= Limit
  /\ put + len <= MaxPut
  /\ alloc' = size
  /\ mem' = Filled(Resized(size), len)
  /\ outside' = (outside \/ offset + len > size)
  /\ offset' = (offset + len) % Wrap
  /\ put' = put + len

\* Write(buf, len).
Write(len) ==
  LET size == IF (offset + len) % Wrap > alloc THEN Grown(len) ELSE alloc IN
  /\ offset + len <= Limit
  /\ put + len <= MaxPut
  /\ alloc' = size
  /\ mem' = Filled(Resized(size), len)
  /\ outside' = (outside \/ offset + len > size)
  /\ offset' = (offset + len) % Wrap
  /\ put' = put + len

\* One turn of the loop in OnRead(), in which recv() puts n bytes into the room
\* of ReadSize it is given; 0 ends the loop.
Receive(n) ==
  LET size == IF (Wrap + alloc - offset) % Wrap < ReadSize THEN Grown(ReadSize) ELSE alloc IN
  /\ offset + ReadSize <= Limit
  /\ put + n <= MaxPut
  /\ alloc' = size
  /\ mem' = Filled(Resized(size), n)
  /\ outside' = (outside \/ offset + ReadSize > size)
  /\ offset' = (offset + n) % Wrap
  /\ put' = put + n

\* Mutant: the content is cut, not moved.
Bug_Read_Cut(len) ==
  LET n == IF len > offset THEN offset ELSE len IN
  /\ offset' = offset - n
  /\ mem' = [i \in DOMAIN mem |-> IF i + n < offset THEN mem[i] ELSE Garbage]
  /\ outside' = (outside \/ offset > alloc)
  /\ UNCHANGED <<alloc, put>>

\* Read(NULL, len): memmove() of the rest to the front.
Read(len) ==
  LET n == IF len > offset THEN offset ELSE len IN
  /\ offset' = offset - n
  /\ mem' = [i \in DOMAIN mem |-> IF i + n < offset THEN mem[i + n] ELSE Garbage]
  /\ outside' = (outside \/ offset > alloc)
  /\ UNCHANGED <<alloc, put>>

BufferNext ==
  \/ \E len \in 0..MaxPut : Write(len) \/ Read(len)
  \/ \E n \in 0..ReadSize : Receive(n)

BufferSpec == BufferInit /\ [][BufferNext]_bufferVars

-----------------------------------------------------------------------------

\* No write, receive or move leaves the allocation, however the buffer grew
\* and was emptied, up to the size from which the sums overflow.
InBounds == ~outside /\ offset <= alloc

\* The buffer is a queue: what is read out is what was put in, in order, and
\* growing or moving changes none of it.
Queue == INSTANCE ByteQueue
  WITH queue <- [i \in 1..offset |-> mem[i - 1]], put <- put
ImplementsQueue == Queue!QueueSpec
=============================================================================
