------------------------------ MODULE WireTypes ------------------------------
(***************************************************************************)
(* The types that cross the wire between Dart and C++, and the rows of the  *)
(* dispatch and proxy tables written with them.  A type is a record that    *)
(* says how a value is laid out; the two codecs (CppCodec, DartCodec) give  *)
(* it its bytes, each for itself.                                           *)
(*                                                                         *)
(* Values.  An integer is an integer, a double the tuple of its eight       *)
(* bytes, a string or a blob the sequence of its bytes (so is a 128-bit     *)
(* integer, which travels as a decimal string), an optional <<>> or <<v>>,  *)
(* an enumerator its name, a class its fields in the order of declaration,  *)
(* a set a set, a map a set of key and value pairs.  Integers stay within   *)
(* what TLC can hold: an unsigned number of 2^31 or more is Huge.           *)
(***************************************************************************)
EXTENDS Integers, Sequences

Plain(k) == [kind |-> k]
I32  == Plain("i32")
U32  == Plain("u32")
I64  == Plain("i64")
U64  == Plain("u64")
F64  == Plain("f64")
Bool == Plain("bool")
Str  == Plain("str")
Blob == Plain("blob")
U128 == Plain("u128")
I128 == Plain("i128")
Time == Plain("time")     \* system_clock::time_point, as microseconds
Ptr  == Plain("ptr")      \* a native address
Void == Plain("void")     \* no result

OrderStatus == Plain("OrderStatus")
StatusCode  == Plain("StatusCode")
Point   == Plain("Point")
Rect    == Plain("Rect")
Person  == Plain("Person")
Counter == Plain("Counter")             \* the handle of an object of the class

Opt(t)    == [kind |-> "opt", of |-> t]
Vec(t)    == [kind |-> "vec", of |-> t]
SetOf(t)  == [kind |-> "set", of |-> t]
Arr(n, t) == [kind |-> "arr", of |-> t, size |-> n]
Map(k, t) == [kind |-> "map", key |-> k, of |-> t]
Tuple(ts) == [kind |-> "tuple", fields |-> ts]

\* A callback: its id crosses the wire, its arguments and result cross later.
DartFn(ts, t) == [kind |-> "fn", args |-> ts, ret |-> t]
\* An optional stream beside the result: its id, 0 when nobody listens.
Progress(t)   == [kind |-> "progress", of |-> t]

-----------------------------------------------------------------------------
(* Rows of the C++ dispatch tables: how a method runs, what it reads from   *)
(* its payload, in order, and what it writes.  Task runs as a coroutine on  *)
(* the io thread, Pool on the blocking pool, Inline in the dispatcher, and  *)
(* Stream answers with items until it ends or fails.                        *)
Row(run, id, args, res) == [id |-> id, run |-> run, args |-> args, res |-> res]
Task(id, args, res)   == Row("task", id, args, res)
Pool(id, args, res)   == Row("pool", id, args, res)
Inline(id, args, res) == Row("inline", id, args, res)
Stream(id, args, res) == Row("stream", id, args, res)

(* Rows of the Dart proxies: the entry point of the bridge they call, what  *)
(* they write, in order, and what they read from the answer.                *)
Async(id, args, res)      == Row("async", id, args, res)
Sync(id, args, res)       == Row("sync", id, args, res)
OpenStream(id, args, res) == Row("open_stream", id, args, res)

-----------------------------------------------------------------------------
Huge == 2147483647

Octet  == 0 .. 255
Buffer == Seq(Octet)
\* The numbers the model tells apart, unsigned and signed.
Count   == 0 .. Huge
Integer == 0 - Huge - 1 .. Huge

\* The bytes of v, least significant first, in two's complement.
LE2(v) == <<v % 256, (v \div 256) % 256>>
LE4(v) == <<v % 256, (v \div 256) % 256, (v \div 65536) % 256, (v \div 16777216) % 256>>
LE8(v) == LE4(v) \o (IF v < 0 THEN <<255, 255, 255, 255>> ELSE <<0, 0, 0, 0>>)

Low(b) == b[1] + 256 * b[2] + 65536 * b[3]

\* The number four or eight bytes stand for, unsigned and signed.
Unsigned(b) ==
  IF b[4] >= 128 \/ \E i \in 5 .. Len(b) : b[i] # 0
  THEN Huge ELSE Low(b) + 16777216 * b[4]
Signed(b) ==
  LET fill == IF b[4] >= 128 THEN 255 ELSE 0
  IN  IF \E i \in 5 .. Len(b) : b[i] # fill THEN Huge
      ELSE Low(b) + 16777216 * (IF b[4] >= 128 THEN b[4] - 256 ELSE b[4])
=============================================================================
