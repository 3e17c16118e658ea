------------------------------ MODULE PduCodec ------------------------------
(***************************************************************************)
(* The PDUs of impdu.cpp as bytes: the constructors that encode, ReadPdu() *)
(* and the constructors that decode, and the loop of OnRead() that takes   *)
(* PDUs from what has arrived of a stream of them.                         *)
(***************************************************************************)
EXTENDS ByteStream, FiniteSets

CONSTANTS
  Ids,      \* user ids, in four bytes
  Kinds,    \* message types, in one byte
  Data,     \* message data
  MaxEncoded   \* bound on the number of PDUs sent

\* The type of a PDU, which is at most 3, is one byte.
ASSUME CodecAssumption ==
  /\ Base > 3
  /\ Ids \subseteq 0..(Power[4] - 1) /\ Kinds \subseteq Byte
  /\ \A d \in Data : d \in Seq(Byte) /\ Len(d) < Power[2]
  /\ MaxEncoded \in Nat

VARIABLES
  encoded,    \* the PDUs sent
  onLine,    \* bytes on their way
  inBuf,   \* m_in_buf
  handled,     \* the PDUs handled
  aborted  \* an assertion of a constructor failed

codecVars == <<encoded, onLine, inBuf, handled, aborted>>

HeaderLen == 6  \* IM_PDU_HEADER_LEN

\* CImPduOnlineRequest, CImPduOfflineRequest and CImPduMsg.
Requests == [type : {1, 2}, user : Ids]
Msgs == [type : {3}, from : Ids, to : Ids, kind : Kinds, data : Data]

CodecInit ==
  /\ encoded = <<>> /\ onLine = <<>> /\ inBuf = <<>> /\ handled = <<>>
  /\ aborted = FALSE

\* WriteHeader(): type, version and length over the first bytes of m_buf.
WriteHeader(type, buf) ==
  <<type, 0>> \o ToBytes(Len(buf), 4) \o SubSeq(buf, HeaderLen + 1, Len(buf))

\* Mutant: WriteData() with the length as uint32_t.
Bug_Encode_WideLength(p) ==
  LET os == OnSimple([i \in 1..HeaderLen |-> 0], HeaderLen) IN
  WriteHeader(p.type,
    IF p.type = 3
      THEN WriteData(Put(Put(Put(os, p.from, 4), p.to, 4), p.kind, 1), p.data, 4).buf
      ELSE Put(os, p.user, 4).buf)

\* The encoding constructors: room for the header, the fields, the header.
Encode(p) ==
  LET os == OnSimple([i \in 1..HeaderLen |-> 0], HeaderLen) IN
  WriteHeader(p.type,
    IF p.type = 3
      THEN WriteData(Put(Put(Put(os, p.from, 4), p.to, 4), p.kind, 1), p.data, 2).buf
      ELSE Put(os, p.user, 4).buf)

\* The length in the header; _IsPduAvailable().
PduLen(buf) == FromBytes(SubSeq(buf, 3, HeaderLen))
IsPduAvailable(buf) == Len(buf) >= HeaderLen /\ PduLen(buf) <= Len(buf)

\* The decoding constructors on the payload: the PDU, and the position the
\* assertions compare with the payload's length.
DecodeRequest(type, payload) ==
  LET user == Get(OnBuffer(payload), 4) IN
  [pdu |-> [type |-> type, user |-> user.val], pos |-> user.st.pos]
DecodeMsg(payload) ==
  LET from == Get(OnBuffer(payload), 4)
      to   == Get(from.st, 4)
      kind == Get(to.st, 1)
      data == ReadData(kind.st, 2)
  IN  [pdu |-> [type |-> 3, from |-> from.val, to |-> to.val,
                kind |-> kind.val, data |-> data.val],
       pos |-> data.st.pos]

\* ReadPdu() of an available PDU.
ReadPdu(buf) ==
  LET payload == SubSeq(buf, HeaderLen + 1, PduLen(buf)) IN
  IF buf[1] = 3 THEN DecodeMsg(payload) ELSE DecodeRequest(buf[1], payload)

-----------------------------------------------------------------------------

SendPdu(p) ==
  /\ Len(encoded) < MaxEncoded
  /\ encoded' = Append(encoded, p)
  /\ onLine' = onLine \o Encode(p)
  /\ UNCHANGED <<inBuf, handled, aborted>>

\* OnRead(): recv()...
ArriveBytes(n) ==
  /\ ~IsPduAvailable(inBuf)
  /\ n \in 1..Len(onLine)
  /\ inBuf' = inBuf \o SubSeq(onLine, 1, n)
  /\ onLine' = SubSeq(onLine, n + 1, Len(onLine))
  /\ UNCHANGED <<encoded, handled, aborted>>

\* ... and one turn of the loop over the PDUs.
Handle ==
  /\ ~aborted
  /\ IsPduAvailable(inBuf)
  /\ LET r == ReadPdu(inBuf) IN
       /\ handled' = Append(handled, r.pdu)
       /\ aborted' = (r.pos # PduLen(inBuf) - HeaderLen)
  /\ inBuf' = SubSeq(inBuf, PduLen(inBuf) + 1, Len(inBuf))
  /\ UNCHANGED <<encoded, onLine>>

CodecNext ==
  \/ \E p \in Requests \union Msgs : SendPdu(p)
  \/ \E n \in 1..Len(onLine) : ArriveBytes(n)
  \/ Handle

CodecSpec == CodecInit /\ [][CodecNext]_codecVars

-----------------------------------------------------------------------------

\* The PDUs handled are those sent, with every field as it was, however the
\* stream is cut, and none is left undone when all bytes have arrived.  The
\* constructors consume exactly the payload (impdu.cpp:98, 118, 142).
RoundTrip ==
  /\ ~aborted
  /\ Len(handled) <= Len(encoded)
  /\ \A i \in 1..Len(handled) : handled[i] = encoded[i]
  /\ (onLine = <<>> /\ ~IsPduAvailable(inBuf)) => handled = encoded /\ inBuf = <<>>
=============================================================================
