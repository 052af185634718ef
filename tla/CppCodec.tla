------------------------------ MODULE CppCodec ------------------------------
(***************************************************************************)
(* codec.hpp: what ByteWriter and ByteReader make of whole types, out of   *)
(* the pieces in CppFrames, with the encode_ and decode_ functions of the  *)
(* data classes.                                                           *)
(*                                                                         *)
(* ByteWriter and ByteReader are given closures for the parts of a value,  *)
(* and the generated code nests them as deep as the type goes.  Here a     *)
(* writer is given the bytes of the parts, a reader a function r whose     *)
(* r[i][q] reads the i-th part at position q, and types nest three levels  *)
(* deep, which is as deep as those of the libraries.                       *)
(***************************************************************************)
EXTENDS CppFrames, FiniteSetsExt, SequencesExt

OrderStatusNames == <<"created", "paid", "shipped">>
StatusCodeNames  == <<"ok", "notFound", "serverError">>
EnumNames(t) == IF t.kind = "OrderStatus" THEN OrderStatusNames ELSE StatusCodeNames
ValueOf(t, name) == (CHOOSE i \in DOMAIN EnumNames(t) : EnumNames(t)[i] = name) - 1

PointFields  == <<F64, F64, Opt(Str)>>
RectFields   == <<Point, Point>>
PersonFields == <<Str, I32>>
Fields(t) == CASE t.kind = "Point" -> PointFields [] t.kind = "Rect" -> RectFields
               [] t.kind = "Person" -> PersonFields [] t.kind = "tuple" -> t.fields

-----------------------------------------------------------------------------
(* Values made of parts *)
Listed == {"opt", "vec", "arr", "set", "map"}
Records == {"tuple", "Point", "Rect", "Person"}
Nests(t) == t.kind \in Listed \cup Records

\* The parts in the order of writing: an unordered container has one of its own.
Parts(t, v) == IF t.kind \in {"set", "map"} THEN SetToSeq(v) ELSE v
PartType(t, i) == IF t.kind \in Records THEN Fields(t)[i]
                  ELSE IF t.kind = "map" THEN Tuple(<<t.key, t.of>>) ELSE t.of

-----------------------------------------------------------------------------
(* ByteWriter *)
WriteEnum(t, v) == WriteU32(ValueOf(t, v))
WriteScalar(t, v) ==
  CASE t.kind \in {"i32", "u32"} -> WriteU32(v)
    [] t.kind \in {"i64", "u64", "time", "ptr", "Counter", "fn", "progress"} -> WriteU64(v)
    [] t.kind = "f64"  -> WriteF64(v)
    [] t.kind = "bool" -> WriteBool(v)
    [] t.kind \in {"str", "u128", "i128"} -> WriteStr(v)
    [] t.kind = "blob" -> WriteBlob(v)
    [] t.kind \in {"OrderStatus", "StatusCode"} -> WriteEnum(t, v)
    [] t.kind = "void" -> <<>>

WriteOpt(w) == IF w = <<>> THEN WriteU8(0) ELSE WriteU8(1) \o w[1]
WriteVec(w) == WriteU32(Len(w)) \o FlattenSeq(w)
WriteNested(t, w) ==
  CASE t.kind = "opt" -> WriteOpt(w)
    [] t.kind \in {"vec", "set", "map"} -> WriteVec(w)
    [] t.kind \in {"arr"} \cup Records -> FlattenSeq(w)

\* One level of nesting above what inner(_, _) writes.
WriteOver(inner(_, _), t, v) ==
  LET vs == Parts(t, v)
  IN  IF Nests(t) THEN WriteNested(t, [i \in DOMAIN vs |-> inner(PartType(t, i), vs[i])])
      ELSE WriteScalar(t, v)
Write1(t, v) == WriteOver(WriteScalar, t, v)
Write2(t, v) == WriteOver(Write1, t, v)
Write(t, v)  == WriteOver(Write2, t, v)
\* The arguments of a call, the fields of an error.
WriteAll(ts, vs) == WriteOver(Write, Tuple(ts), vs)

-----------------------------------------------------------------------------
(* ByteReader *)

\* Applies f to what was read.
Then(r, f(_)) == IF r.ok THEN Read(f(r.v), r.next) ELSE r

ReadEnum(t, b, p) ==
  Then(ReadI32(b, p), LAMBDA v : IF v + 1 \in DOMAIN EnumNames(t) THEN EnumNames(t)[v + 1] ELSE v)
ReadScalar(t, b, p) ==
  CASE t.kind = "i32" -> ReadI32(b, p)
    [] t.kind = "u32" -> ReadU32(b, p)
    [] t.kind \in {"i64", "time"} -> ReadI64(b, p)
    [] t.kind \in {"u64", "ptr", "Counter", "fn", "progress"} -> ReadU64(b, p)
    [] t.kind = "f64"  -> ReadF64(b, p)
    [] t.kind = "bool" -> Then(ReadU8(b, p), LAMBDA v : v # 0)
    [] t.kind \in {"str", "u128", "i128"} -> ReadStr(b, p)
    [] t.kind = "blob" -> ReadBlob(b, p)
    [] t.kind \in {"OrderStatus", "StatusCode"} -> ReadEnum(t, b, p)
    [] t.kind = "void" -> Read(<<>>, p)

\* n parts, one after the other.
ReadNext(r, i, before) ==
  IF before.ok THEN Then(r[i][before.next], LAMBDA v : Append(before.v, v)) ELSE before
ReadParts(r, n, p) ==
  LET upTo[i \in 0 .. n] == IF i = 0 THEN Read(<<>>, p) ELSE ReadNext(r, i, upTo[i - 1])
  IN  upTo[n]
\* Every item takes at least one byte, so more items than bytes left must fail.
ReadEach(r, n, b, p) == IF Has(b, p, n) THEN ReadParts(r, n, p) ELSE Truncated
ReadVec(r, b, p) == LET n == ReadU32(b, p) IN IF n.ok THEN ReadEach(r, n.v, b, n.next) ELSE n
ReadOpt(r, b, p) ==
  LET has == ReadU8(b, p)
  IN  IF has.ok /\ has.v # 0 THEN Then(r[1][has.next], LAMBDA v : <<v>>)
      ELSE Then(has, LAMBDA v : <<>>)
ReadSet(r, b, p) == Then(ReadVec(r, b, p), ToSet)
\* emplace keeps the first value of a key.
FirstOfKey(s) == {s[i] : i \in {j \in DOMAIN s : \A h \in 1 .. j - 1 : s[h][1] # s[j][1]}}
ReadMap(r, b, p) == Then(ReadVec(r, b, p), FirstOfKey)
ReadNested(t, r, b, p) ==
  CASE t.kind = "opt" -> ReadOpt(r, b, p)
    [] t.kind = "vec" -> ReadVec(r, b, p)
    [] t.kind = "arr" -> ReadParts(r, t.size, p)
    [] t.kind = "set" -> ReadSet(r, b, p)
    [] t.kind = "map" -> ReadMap(r, b, p)
    [] t.kind \in Records -> ReadParts(r, Len(Fields(t)), p)

ReadOver(inner(_, _, _), t, b, p) ==
  IF Nests(t) THEN ReadNested(t, [i \in Nat |-> [q \in Nat |-> inner(PartType(t, i), b, q)]], b, p)
  ELSE ReadScalar(t, b, p)
Read1(t, b, p)   == ReadOver(ReadScalar, t, b, p)
Read2(t, b, p)   == ReadOver(Read1, t, b, p)
ReadOne(t, b, p) == ReadOver(Read2, t, b, p)
ReadAll(ts, b, p) == ReadOver(ReadOne, Tuple(ts), b, p)
=============================================================================
