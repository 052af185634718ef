------------------------------- MODULE CCodec -------------------------------
(***************************************************************************)
(* dcb_codec.c: the writer and the reader of the C interface.  A reader     *)
(* never throws: after the first read that does not fit, error stays set    *)
(* and every read gives zero.  A write lost for want of memory is left out. *)
(***************************************************************************)
EXTENDS WireTypes

dcb_write_u32(v) == LE4(v)
dcb_write_u64(v) == LE8(v)
dcb_write_len_bytes(s) == dcb_write_u32(Len(s)) \o s
dcb_write(t, v) == CASE t.kind \in {"i32", "u32"} -> dcb_write_u32(v)
                     [] t.kind \in {"i64", "u64"} -> dcb_write_u64(v)
                     [] t.kind = "f64" -> v
                     [] t.kind \in {"str", "blob"} -> dcb_write_len_bytes(v)

dcb_reader_init(data) == [data |-> data, pos |-> 0, error |-> FALSE]

Within(r, n) == ~r.error /\ r.pos <= Len(r.data) /\ n <= Len(r.data) - r.pos
Chunk(r, n) == SubSeq(r.data, r.pos + 1, r.pos + n)
\* What a read returns, and the reader after it.
Advance(r, n, v) == [v |-> v, r |-> [r EXCEPT !.pos = @ + n]]
Stuck(r, v)      == [v |-> v, r |-> [r EXCEPT !.error = TRUE]]

dcb_read_u32(r) == IF Within(r, 4) THEN Advance(r, 4, Unsigned(Chunk(r, 4))) ELSE Stuck(r, 0)
dcb_read_len_bytes(r) ==
  LET n == dcb_read_u32(r)
  IN  IF Within(n.r, n.v) THEN Advance(n.r, n.v, Chunk(n.r, n.v)) ELSE Stuck(n.r, <<>>)
=============================================================================
