------------------------------- MODULE MCWire -------------------------------
(* All four libraries; two values of every type, told apart by any other      *)
(* layout; requests cut after 0, 1, 2, ... bytes.                             *)
EXTENDS WireCalls
MCLibraries == {"codegen", "foreign", "multi", "base"}
MCCuts == 0 .. 40
MCVariants == 1 .. 2

Pick(i, a, b) == IF i = 1 THEN a ELSE b
RECURSIVE MCValue(_, _)
MCValue(t, i) ==
  CASE t.kind = "i32" -> Pick(i, -2, 70000)
    [] t.kind = "u32" -> Pick(i, 70000, 3)
    [] t.kind = "i64" -> Pick(i, -3, 90000)
    [] t.kind = "u64" -> Pick(i, 5, 1)
    [] t.kind = "time" -> Pick(i, -7, 1000000)
    [] t.kind = "ptr" -> Pick(i, 4096, 0)
    [] t.kind = "f64" -> Pick(i, <<1, 2, 3, 4, 5, 6, 7, 8>>, <<0, 0, 0, 0, 0, 0, 240, 63>>)
    [] t.kind = "bool" -> Pick(i, TRUE, FALSE)
    [] t.kind \in {"str", "blob"} -> Pick(i, <<65, 66>>, <<>>)
    [] t.kind = "u128" -> Pick(i, <<49>>, <<50, 51>>)
    [] t.kind = "i128" -> Pick(i, <<45, 49>>, <<50>>)
    [] t.kind = "OrderStatus" -> Pick(i, "paid", "shipped")
    [] t.kind = "StatusCode"  -> Pick(i, "notFound", "ok")
    [] t.kind = "Counter" -> Pick(i, 1, 2)
    [] t.kind = "opt" -> Pick(i, <<MCValue(t.of, 1)>>, <<>>)
    [] t.kind = "vec" -> Pick(i, <<MCValue(t.of, 1), MCValue(t.of, 2)>>, <<>>)
    [] t.kind = "arr" -> [k \in 1 .. t.size |-> MCValue(t.of, 1 + (k % 2))]
    [] t.kind = "set" -> Pick(i, {MCValue(t.of, 1), MCValue(t.of, 2)}, {})
    [] t.kind = "map" -> Pick(i, {<<MCValue(t.key, k), MCValue(t.of, k)>> : k \in 1 .. 2}, {})
    [] t.kind \in Records ->
         LET ts == Fields(t) IN [k \in DOMAIN ts |-> MCValue(ts[k], 1 + ((i + k) % 2))]
    [] t.kind = "void" -> <<>>
=============================================================================
