----------------------------- MODULE WireValues -----------------------------
(***************************************************************************)
(* The values of the types that cross the wire, as the C++ side has them:  *)
(* of types without parts, and of types nested up to three levels deep.    *)
(***************************************************************************)
EXTENDS CppCodec

ScalarValue(t, v) ==
  \/ t.kind \in {"i32", "i64", "time"} /\ v \in Integer
  \/ t.kind \in {"u32", "u64", "ptr", "Counter", "fn", "progress"} /\ v \in Count
  \/ t.kind = "bool" /\ v \in BOOLEAN
  \/ t.kind = "f64" /\ v \in Buffer /\ Len(v) = 8
  \/ t.kind \in {"str", "blob", "u128", "i128"} /\ v \in Buffer /\ Len(v) \in Count
  \/ t.kind = "OrderStatus" /\ v \in {"created", "paid", "shipped"}
  \/ t.kind = "StatusCode" /\ v \in {"ok", "notFound", "serverError"}

IsList(v) == Len(v) \in Nat /\ v = [i \in 1 .. Len(v) |-> v[i]]

\* A value of a type with parts has as many as the type asks for, as few as can be
\* counted in the width of a length, and no two entries of a map have one key.
Shaped(t, v) ==
  \/ t.kind = "opt" /\ IsList(v) /\ Len(v) \in {0, 1}
  \/ t.kind = "vec" /\ IsList(v) /\ Len(v) \in Count
  \/ t.kind = "arr" /\ IsList(v) /\ Len(v) = t.size /\ Len(v) >= 1
  \/ t.kind \in {"set", "map"} /\ IsFiniteSet(v) /\ Cardinality(v) \in Count
       /\ (t.kind = "map" => \A d, e \in v : d[1] = e[1] => d = e)
  \/ t.kind \in Records /\ IsList(v) /\ Len(v) = Len(Fields(t)) /\ Len(v) >= 1

\* v is a value of type t, whose parts are values of their types by inner.
TypedOver(inner(_, _), t, v) ==
  IF Nests(t)
  THEN /\ Shaped(t, v)
       /\ \A i \in DOMAIN Parts(t, v) : inner(PartType(t, i), Parts(t, v)[i])
  ELSE ScalarValue(t, v)
Typed1(t, v) == TypedOver(ScalarValue, t, v)
Typed2(t, v) == TypedOver(Typed1, t, v)
Typed(t, v)  == TypedOver(Typed2, t, v)
=============================================================================
