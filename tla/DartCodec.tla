------------------------------ MODULE DartCodec -----------------------------
(***************************************************************************)
(* codec.dart: what ByteWriter and ByteReader make of whole types, out of  *)
(* the pieces in DartFrames, with the code the proxies inline for          *)
(* optionals, lists, maps, records, enums and data classes.  As in         *)
(* CppCodec, the bytes of the items, or a function get whose get[i][pos]   *)
(* reads the i-th item, stand for the code that the proxies nest.          *)
(***************************************************************************)
EXTENDS DartFrames, FiniteSetsExt, SequencesExt

\* The enums and classes of dcb_generated.dart and demo_bridge.dart.
EnumValues(t) == IF t.kind = "OrderStatus" THEN <<"created", "paid", "shipped">>
             ELSE <<"ok", "notFound", "serverError">>
DataClass(t) == CASE t.kind = "Point"  -> <<F64, F64, Opt(Str)>>
                  [] t.kind = "Rect"   -> <<Point, Point>>
                  [] t.kind = "Person" -> <<Str, I32>>
                  [] t.kind = "tuple"  -> t.fields
Index(t, name) == (CHOOSE i \in DOMAIN EnumValues(t) : EnumValues(t)[i] = name) - 1

-----------------------------------------------------------------------------
(* Values made of items *)
Classes == {"tuple", "Point", "Rect", "Person"}
Composite(t) == t.kind \in {"opt", "vec", "arr", "set", "map"} \cup Classes

\* A Dart Set or Map is walked in the order of insertion: any order here.
Items(t, v) == IF t.kind \in {"set", "map"} THEN SetToSeq(v) ELSE v
ItemType(t, i) == IF t.kind \in Classes THEN DataClass(t)[i]
                  ELSE IF t.kind = "map" THEN Tuple(<<t.key, t.of>>) ELSE t.of

-----------------------------------------------------------------------------
PutScalar(t, v) ==
  CASE t.kind \in {"i32", "u32"} -> PutU32(v)
    [] t.kind \in {"i64", "u64", "time", "ptr", "Counter", "fn", "progress"} -> PutU64(v)
    [] t.kind = "f64"  -> v
    [] t.kind = "bool" -> PutU8(IF v THEN 1 ELSE 0)
    [] t.kind \in {"str", "blob", "u128", "i128"} -> PutStr(v)
    [] t.kind \in {"OrderStatus", "StatusCode"} -> PutU32(Index(t, v))

PutOpt(w)  == IF w = <<>> THEN PutU8(0) ELSE PutU8(1) \o w[1]
PutList(w) == PutU32(Len(w)) \o FlattenSeq(w)
PutItems(t, w) ==
  CASE t.kind = "opt" -> PutOpt(w)
    [] t.kind \in {"vec", "set", "map"} -> PutList(w)
    [] t.kind \in {"arr"} \cup Classes -> FlattenSeq(w)

PutOver(inner(_, _), t, v) ==
  LET vs == Items(t, v)
  IN  IF Composite(t) THEN PutItems(t, [i \in DOMAIN vs |-> inner(ItemType(t, i), vs[i])])
      ELSE PutScalar(t, v)
Put1(t, v) == PutOver(PutScalar, t, v)
Put2(t, v) == PutOver(Put1, t, v)
Put(t, v)  == PutOver(Put2, t, v)
PutAll(ts, vs) == PutOver(Put, Tuple(ts), vs)

-----------------------------------------------------------------------------
Mapped(r, f(_)) == IF r.ok THEN Got(f(r.v), r.pos) ELSE r

\* values[i] throws a RangeError for an index that is not one.
GetEnum(t, data, pos) ==
  LET i == GetI32(data, pos)
  IN  IF i.ok /\ i.v + 1 \in DOMAIN EnumValues(t) THEN Got(EnumValues(t)[i.v + 1], i.pos) ELSE Failed
GetScalar(t, data, pos) ==
  CASE t.kind = "i32" -> GetI32(data, pos)
    [] t.kind = "u32" -> GetU32(data, pos)
    [] t.kind \in {"i64", "time"} -> GetI64(data, pos)
    [] t.kind \in {"u64", "ptr", "Counter"} -> GetU64(data, pos)
    [] t.kind = "f64"  -> GetF64(data, pos)
    [] t.kind = "bool" -> Mapped(GetU8(data, pos), LAMBDA v : v # 0)
    [] t.kind \in {"str", "blob", "u128", "i128"} -> GetStr(data, pos)
    [] t.kind \in {"OrderStatus", "StatusCode"} -> GetEnum(t, data, pos)
    [] t.kind = "void" -> Got(<<>>, pos)       \* the proxy reads nothing

\* n items one by one; reading stops at the first that fails.
GetNext(get, i, before) ==
  IF before.ok THEN Mapped(get[i][before.pos], LAMBDA v : Append(before.v, v)) ELSE before
GetItems(get, n, pos) ==
  LET upTo[i \in 0 .. n] == IF i = 0 THEN Got(<<>>, pos) ELSE GetNext(get, i, upTo[i - 1])
  IN  upTo[n]
\* Every item takes a byte, so more items than bytes must fail.
GetList(get, data, pos) ==
  LET n == GetU32(data, pos)
  IN  IF n.ok /\ n.v <= Len(data) THEN GetItems(get, n.v, n.pos) ELSE Failed
GetOpt(get, data, pos) ==
  LET has == GetU8(data, pos)
  IN  IF has.ok /\ has.v # 0 THEN Mapped(get[1][has.pos], LAMBDA v : <<v>>)
      ELSE Mapped(has, LAMBDA v : <<>>)
GetComposite(t, get, data, pos) ==
  CASE t.kind = "opt" -> GetOpt(get, data, pos)
    [] t.kind = "vec" -> GetList(get, data, pos)
    [] t.kind \in Classes -> GetItems(get, Len(DataClass(t)), pos)

GetOver(inner(_, _, _), t, data, pos) ==
  IF Composite(t)
  THEN GetComposite(t, [i \in Nat |-> [q \in Nat |-> inner(ItemType(t, i), data, q)]], data, pos)
  ELSE GetScalar(t, data, pos)
Get1(t, data, pos) == GetOver(GetScalar, t, data, pos)
Get2(t, data, pos) == GetOver(Get1, t, data, pos)
Get(t, data, pos)  == GetOver(Get2, t, data, pos)
GetAll(ts, data, pos) == GetOver(Get, Tuple(ts), data, pos)
=============================================================================
