----------------------------- MODULE ByteStream -----------------------------
(***************************************************************************)
(* CByteStream: integers in network byte order, strings and data with a    *)
(* length in front, written to a CSimpleBuffer or to a buffer of fixed     *)
(* length, and read from the latter.  A byte has Base values; the operators*)
(* of each width are one operator with the number of bytes as a parameter. *)
(***************************************************************************)
EXTENDS Integers, Sequences

CONSTANT Base  \* 256

ASSUME BaseAssumption == Base \in Nat /\ Base > 1 /\ Base % 2 = 0

Byte == 0..(Base - 1)

\* A stream: of a fixed buffer, or (simple) at the end of a CSimpleBuffer.
OnBuffer(buf) == [buf |-> buf, pos |-> 0, len |-> Len(buf), simple |-> FALSE]
OnSimple(buf, pos) == [buf |-> buf, pos |-> pos, len |-> 0, simple |-> TRUE]

\* What a shift by k bytes divides by.
Power[k \in 0..4] == IF k = 0 THEN 1 ELSE Base * Power[k - 1]

\* WriteInt16 to WriteUint32; a negative v is its two's complement, for the
\* shift is arithmetic.
ToBytes(v, n) == [i \in 1..n |-> (v \div Power[n - i]) % Base]

\* ReadUint16 and ReadUint32.
FromBytes(b) ==
  LET value[i \in 0..Len(b)] == IF i = 0 THEN 0 ELSE value[i - 1] * Base + b[i]
  IN  value[Len(b)]

\* ReadInt16 and ReadInt32.
FromBytesSigned(b) ==
  LET v == FromBytes(b) IN IF b[1] >= Base \div 2 THEN v - Power[Len(b)] ELSE v

\* _WriteByte(): in a fixed buffer all of it, or nothing and no word of it.
WriteByte(st, b) ==
  LET n == Len(b) IN
  IF ~st.simple /\ st.pos + n > st.len THEN st
  ELSE [st EXCEPT !.buf = IF st.simple THEN @ \o b
                          ELSE SubSeq(@, 1, st.pos) \o b \o SubSeq(@, st.pos + n + 1, Len(@)),
                  !.pos = @ + n]

\* _ReadByte(): the n bytes next in a fixed buffer and the stream behind them,
\* or nothing and the stream where it was.
ReadByte(st, n) ==
  IF st.pos + n > st.len THEN [val |-> <<>>, st |-> st]
  ELSE [val |-> SubSeq(st.buf, st.pos + 1, st.pos + n), st |-> [st EXCEPT !.pos = @ + n]]

\* operator << and operator >>, unsigned.
Put(st, v, n) == WriteByte(st, ToBytes(v, n))
Get(st, n) == LET r == ReadByte(st, n) IN [val |-> FromBytes(r.val), st |-> r.st]

-----------------------------------------------------------------------------

\* Mutant: the 0 at the end is not counted.
Bug_StringSize_NoZero(chars) == Len(chars) % Base

\* WriteString() and WriteStdString() of the characters chars: the size, which
\* counts the 0 at the end, is a byte.
StringSize(chars) == ((Len(chars) % Base) + 1) % Base
WriteString(st, chars) ==
  LET size == StringSize(chars) IN
  WriteByte(Put(st, size, 1), SubSeq(Append(chars, 0), 1, size))

\* ReadString(): the bytes up to and with the 0.
ReadString(st) ==
  LET size == Get(st, 1) IN ReadByte(size.st, size.val)

\* ReadStdString(): a pointer into the buffer, not tested against its end.
ReadStdString(st) ==
  LET size == Get(st, 1) IN
  [val |-> SubSeq(size.st.buf, size.st.pos + 1, size.st.pos + size.val),
   st |-> [size.st EXCEPT !.pos = @ + size.val]]

\* WriteData() and ReadData(), with a length of n bytes.
WriteData(st, data, n) == WriteByte(Put(st, Len(data), n), data)
ReadData(st, n) == LET len == Get(st, n) IN ReadByte(len.st, len.val)
=============================================================================
