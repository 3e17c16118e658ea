----------------------------- MODULE FixedStream ----------------------------
(***************************************************************************)
(* A CByteStream over a buffer of fixed length: the program writes items   *)
(* one after the other, whether or not there is room, and reads them from  *)
(* the start again, up to the first that did not fit.                      *)
(***************************************************************************)
EXTENDS ByteStream

CONSTANTS
  Room,      \* length of the buffer
  Items,     \* what is written: integers, strings and data
  MaxItems   \* bound on the number of items

\* The values of int8_t to uint32_t, strings that end at a 0, and data with a
\* length that is a uint16_t or a uint32_t.
Integer(it, low, high) == it.n \in {1, 2, 4} /\ it.val \in low..(high - 1)

ASSUME ItemAssumption ==
  /\ Room \in Nat /\ MaxItems \in Nat
  /\ \A it \in Items :
       \/ it.kind = "unsigned" /\ Integer(it, 0, Power[it.n])
       \/ it.kind = "signed" /\ Integer(it, -(Power[it.n] \div 2), Power[it.n] \div 2)
       \/ it.kind \in {"string", "stdstring"} /\ it.val \in Seq(Byte \ {0})
       \/ it.kind = "data" /\ it.n \in {2, 4} /\ it.val \in Seq(Byte) /\ Len(it.val) < Power[it.n]

VARIABLES
  out,    \* the stream written to
  items,  \* the items written, and the position of each
  fits,   \* how many there are before the first that did not fit
  in,     \* the stream the buffer is read with
  itemsRead     \* what was read

fixedVars == <<out, items, fits, in, itemsRead>>

FixedInit ==
  /\ out = OnBuffer([i \in 1..Room |-> 0])
  /\ in = out
  /\ items = <<>> /\ itemsRead = <<>>
  /\ fits = 0

Written(st, it) ==
  CASE it.kind \in {"unsigned", "signed"}   -> Put(st, it.val, it.n)
    [] it.kind \in {"string", "stdstring"}  -> WriteString(st, it.val)
    [] it.kind = "data"                     -> WriteData(st, it.val, it.n)

\* The bytes the item needs.
Width(it) ==
  CASE it.kind \in {"unsigned", "signed"}   -> it.n
    [] it.kind \in {"string", "stdstring"}  -> 1 + StringSize(it.val)
    [] it.kind = "data"                     -> it.n + Len(it.val)

\* The item as read by the operation of its kind.
ReadItem(st, it) ==
  CASE it.kind = "unsigned"  -> Get(st, it.n)
    [] it.kind = "signed"    -> LET r == ReadByte(st, it.n) IN
                                [val |-> FromBytesSigned(r.val), st |-> r.st]
    [] it.kind = "string"    -> ReadString(st)
    [] it.kind = "stdstring" -> ReadStdString(st)
    [] it.kind = "data"      -> ReadData(st, it.n)

PutItem(it) ==
  /\ Len(items) < MaxItems /\ itemsRead = <<>>
  /\ out' = Written(out, it)
  /\ items' = Append(items, [it |-> it, at |-> out.pos])
  /\ fits' = IF fits = Len(items) /\ out.pos + Width(it) <= Room THEN fits + 1 ELSE fits
  /\ in' = OnBuffer(out'.buf)
  /\ UNCHANGED itemsRead

GetItem ==
  /\ Len(itemsRead) < fits
  /\ LET r == ReadItem(in, items[Len(itemsRead) + 1].it) IN
       /\ itemsRead' = Append(itemsRead, r.val)
       /\ in' = r.st
  /\ UNCHANGED <<out, items, fits>>

FixedNext == GetItem \/ \E it \in Items : PutItem(it)

FixedSpec == FixedInit /\ [][FixedNext]_fixedVars

-----------------------------------------------------------------------------

IsString(it) == it.kind \in {"string", "stdstring"}

\* util.cpp:375,449: the items before the first that did not fit are read as they
\* were written, although writing went on behind them, and neither writing nor
\* reading leaves the buffer.  A string comes with its 0 if a byte can count that.
\* Of a longer one part or all is lost, but not of the items behind it.
ReadBack ==
  /\ Len(out.buf) = Room
  /\ out.pos <= Room /\ in.pos <= Room
  /\ \A i \in 1..Len(itemsRead) : LET it == items[i].it IN
       /\ ~IsString(it) => itemsRead[i] = it.val
       /\ IsString(it) /\ Len(it.val) < Base - 1 => itemsRead[i] = Append(it.val, 0)
=============================================================================
