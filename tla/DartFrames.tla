------------------------------ MODULE DartFrames ----------------------------
(***************************************************************************)
(* codec.dart: the integers, strings and blobs of ByteWriter and            *)
(* ByteReader, makeFrame and parseFrame.                                    *)
(*                                                                         *)
(* A reader is a position in data (from 0, as _pos); reading gives the      *)
(* value and the position after it, or Failed where Dart throws.            *)
(***************************************************************************)
EXTENDS WireTypes

PutU8(v)  == <<v % 256>>
PutU16(v) == LE2(v)
PutU32(v) == LE4(v)
PutU64(v) == LE8(v)
PutStr(s) == PutU32(Len(s)) \o s

-----------------------------------------------------------------------------
Failed == [ok |-> FALSE]
Got(v, pos) == [ok |-> TRUE, v |-> v, pos |-> pos]

\* _need(n)
Enough(data, pos, n) == ~(pos + n > Len(data))
Bytes(data, pos, n) == SubSeq(data, pos + 1, pos + n)

Fixed(data, pos, n, value(_)) ==
  IF Enough(data, pos, n) THEN Got(value(Bytes(data, pos, n)), pos + n) ELSE Failed
First(b) == b[1]
Raw(b)   == b
GetU8(data, pos)  == Fixed(data, pos, 1, First)
GetU32(data, pos) == Fixed(data, pos, 4, Unsigned)
GetI32(data, pos) == Fixed(data, pos, 4, Signed)
GetU64(data, pos) == Fixed(data, pos, 8, Unsigned)
GetI64Unsigned(data, pos) == Fixed(data, pos, 8, Unsigned)
GetI64(data, pos) == Fixed(data, pos, 8, Signed)
GetF64(data, pos) == Fixed(data, pos, 8, Raw)
GetStr(data, pos) ==
  LET n == GetU32(data, pos)
  IN  IF n.ok /\ n.v <= Len(data) THEN Fixed(data, n.pos, n.v, Raw) ELSE Failed

-----------------------------------------------------------------------------
kMagic == 826426180
kProtocolVersion == 1
MsgTypes == 1 .. 7                \* MsgType.from throws for any other

makeFrame(type, requestId, methodId, payload) ==
  PutU32(kMagic) \o PutU16(kProtocolVersion) \o PutU8(type) \o PutU8(0) \o PutU64(requestId)
    \o PutU32(methodId) \o PutU32(Len(payload)) \o payload

parseFrame(data) ==
  LET magic == GetU32(data, 0)       version == Fixed(data, 4, 2, Raw)
      type  == GetU8(data, 6)        flags   == GetU8(data, 7)
      req   == GetU64(data, 8)       method  == GetU32(data, 16)
      plen  == GetU32(data, 20)
  IN  IF /\ magic.ok /\ magic.v = kMagic
         /\ version.ok /\ version.v = PutU16(kProtocolVersion)
         /\ type.ok /\ type.v \in MsgTypes
         /\ flags.ok /\ req.ok /\ method.ok
         /\ plen.ok /\ Len(data) - 24 >= plen.v
      THEN [ok |-> TRUE, type |-> type.v, req |-> req.v, method |-> method.v,
            payload |-> Bytes(data, 24, plen.v)]
      ELSE [ok |-> FALSE]
=============================================================================
