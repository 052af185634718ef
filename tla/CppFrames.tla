------------------------------ MODULE CppFrames -----------------------------
(***************************************************************************)
(* codec.hpp: the integers, strings and blobs of ByteWriter and ByteReader, *)
(* make_frame and parse_frame.                                              *)
(*                                                                         *)
(* Writers give bytes.  A reader takes a buffer and a position (from 1) and *)
(* gives the value with the next position, or Truncated where the code      *)
(* throws "codec: truncated buffer".                                        *)
(***************************************************************************)
EXTENDS WireTypes

-----------------------------------------------------------------------------
(* ByteWriter *)
WriteU8(v)   == <<v>>
WriteU16(v)  == LE2(v)
WriteU32(v)  == LE4(v)
WriteU64(v)  == LE8(v)
WriteF64(v)  == v                       \* memcpy of the eight bytes
WriteStr(s)  == WriteU32(Len(s)) \o s
WriteBlob(s) == WriteU32(Len(s)) \o s
WriteBool(v) == WriteU8(IF v THEN 1 ELSE 0)

-----------------------------------------------------------------------------
(* ByteReader *)
Truncated == [ok |-> FALSE]
Read(v, next) == [ok |-> TRUE, v |-> v, next |-> next]

\* need(n): position p is pos_ + 1.
Has(b, p, n) == p - 1 <= Len(b) /\ n <= Len(b) - (p - 1)
Take(b, p, n) == SubSeq(b, p, p + n - 1)

ReadU8(b, p)  == IF Has(b, p, 1) THEN Read(b[p], p + 1) ELSE Truncated
ReadU16(b, p) == IF Has(b, p, 2) THEN Read(b[p] + 256 * b[p + 1], p + 2) ELSE Truncated
ReadU32(b, p) == IF Has(b, p, 4) THEN Read(Unsigned(Take(b, p, 4)), p + 4) ELSE Truncated
ReadU64(b, p) == IF Has(b, p, 8) THEN Read(Unsigned(Take(b, p, 8)), p + 8) ELSE Truncated
ReadI32(b, p) == IF Has(b, p, 4) THEN Read(Signed(Take(b, p, 4)), p + 4) ELSE Truncated
ReadI64(b, p) == IF Has(b, p, 8) THEN Read(Signed(Take(b, p, 8)), p + 8) ELSE Truncated
ReadF64(b, p) == IF Has(b, p, 8) THEN Read(Take(b, p, 8), p + 8) ELSE Truncated

ReadCountedUnchecked(b, p) ==
  LET n == ReadU32(b, p)
      e == IF Has(b, n.next, n.v) THEN n.next + n.v ELSE Len(b) + 1
  IN  IF n.ok THEN Read(SubSeq(b, n.next, e - 1), e) ELSE Truncated
ReadCounted(b, p) ==
  LET n == ReadU32(b, p)
  IN  IF n.ok /\ Has(b, n.next, n.v) THEN Read(Take(b, n.next, n.v), n.next + n.v)
      ELSE Truncated
ReadStr(b, p)  == ReadCounted(b, p)
ReadBlob(b, p) == ReadCounted(b, p)

-----------------------------------------------------------------------------
Magic == 826426180        \* 'DCB1'
Version == 1

make_frame(type, req, method, payload) ==
  WriteU32(Magic) \o WriteU16(Version) \o WriteU8(type) \o WriteU8(0) \o WriteU64(req)
    \o WriteU32(method) \o WriteU32(Len(payload)) \o payload

\* The header is 24 bytes; any type is taken, bytes after the payload are left.
parse_frame(b) ==
  LET magic == ReadU32(b, 1)      version == ReadU16(b, 5)
      type  == ReadU8(b, 7)       flags   == ReadU8(b, 8)
      req   == ReadU64(b, 9)      method  == ReadU32(b, 17)
      plen  == ReadU32(b, 21)
  IN  IF /\ magic.ok /\ magic.v = Magic
         /\ version.ok /\ version.v = Version
         /\ type.ok /\ flags.ok /\ req.ok /\ method.ok
         /\ plen.ok /\ Has(b, 25, plen.v)
      THEN [ok |-> TRUE, type |-> type.v, req |-> req.v, method |-> method.v,
            payload |-> Take(b, 25, plen.v)]
      ELSE [ok |-> FALSE]
=============================================================================
