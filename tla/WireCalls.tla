----------------------------- MODULE WireCalls ------------------------------
(***************************************************************************)
(* One call at a time over the wire, byte by byte: a Dart proxy encodes its *)
(* arguments and frames them, the native dispatcher finds the method and    *)
(* decodes them, business code emits items, calls a Dart closure back,      *)
(* returns or throws, and Dart decodes what comes back.  The tables of the  *)
(* four libraries say what each side reads and writes; the three codecs say *)
(* how.  Threads, sessions and overlapping calls are the subject of         *)
(* Invocation and Sessions; here the subject is what the bytes say.         *)
(*                                                                         *)
(* Messages from C++ wait in the port of the isolate; a request, the reply  *)
(* of a closure and the answer of a synchronous call are single buffers.    *)
(* Each message carries, beside its bytes, what its sender meant by them.   *)
(***************************************************************************)
EXTENDS WireValues, DartCodec, CCodec

CONSTANTS Libraries,      \* the libraries to call
          Cuts,           \* how many bytes a damaged request may keep
          Variants,       \* the values there are of each type, and
          Value(_, _)     \* the value of type t that a variant stands for

CodegenCpp  == INSTANCE CodegenDispatch
CodegenDart == INSTANCE CodegenProxies
ForeignCpp  == INSTANCE ForeignDispatch
ForeignDart == INSTANCE ForeignProxies
MultiCpp    == INSTANCE MultiDispatch
MultiDart   == INSTANCE MultiProxies
BaseCpp     == INSTANCE BaseDispatch
BaseDart    == INSTANCE BaseProxies

Names == {"codegen", "foreign", "multi", "base"}

\* The tables of a library.
Requests(lib) == CASE lib = "codegen" -> CodegenCpp!Requests
                   [] lib = "foreign" -> ForeignCpp!Requests
                   [] lib = "multi"   -> MultiCpp!Requests
                   [] lib = "base"    -> BaseCpp!Requests
SyncRequests(lib) == CASE lib = "codegen" -> CodegenCpp!SyncRequests
                       [] lib = "foreign" -> ForeignCpp!SyncRequests
                       [] lib = "multi"   -> MultiCpp!SyncRequests
                       [] lib = "base"    -> BaseCpp!SyncRequests
Proxies(lib) == CASE lib = "codegen" -> CodegenDart!Proxies
                  [] lib = "foreign" -> ForeignDart!Proxies
                  [] lib = "multi"   -> MultiDart!Proxies
                  [] lib = "base"    -> BaseDart!Proxies
KeepsFn(lib) == IF lib = "codegen" THEN CodegenDart!Keeps ELSE {}
Rows(lib) == Requests(lib) \cup SyncRequests(lib) \cup Proxies(lib)

Fns(row)        == {k \in DOMAIN row.args : row.args[k].kind = "fn"}
Progresses(row) == {k \in DOMAIN row.args : row.args[k].kind = "progress"}
TheArg(ks)      == CHOOSE k \in ks : TRUE

StringFn == DartFn(<<Str>>, Str)

\* The types whose values cross when a row is called: those of its arguments and
\* its result, of the items of its stream, and of what its callback takes and gives.
Elements(ts) == {ts[k] : k \in DOMAIN ts}
Crossing(t) == CASE t.kind = "fn" -> Elements(t.args) \cup {t.ret}
                 [] t.kind = "progress" -> {t.of}
                 [] OTHER -> {t}
Types(row) == {row.res} \cup UNION {Crossing(t) : t \in Elements(row.args)}
AllTypes == {Str} \cup UNION {Types(row) : row \in UNION {Rows(lib) : lib \in Libraries}}

\* No value takes more bytes: the arguments of a call fit in a payload, whose
\* length is a uint32_t.
MaxBytes == 268435456

ASSUME WireAssumption ==
  /\ Libraries \subseteq Names
  /\ Cuts \subseteq Nat
ASSUME ValueAssumption ==
  \A t \in AllTypes, c \in Variants :
    IF t = Void THEN Value(t, c) = <<>>
    ELSE Typed(t, Value(t, c)) /\ Len(Write(t, Value(t, c))) <= MaxBytes

-----------------------------------------------------------------------------
VARIABLES call,        \* what Dart asked for
          pending,     \* ids of the completers Dart waits on (_pending)
          streams,     \* ids of the streams Dart listens to (_streams)
          fns,         \* ids of the closures Dart knows (_dartFns)
          persistent,  \* the id of the closure kept by registerPersistentDartFn, or 0
          registered,  \* the id held by the C++ global g_registered_fn, or 0
          dart,        \* "idle", "waiting", "blocked" in a sync call, "closure", "settled"
          cpp,         \* where the native side is
          sink,        \* the StreamSink business code holds
          buffer,      \* the buffer handed to the native side, or returned by it
          port,        \* messages on their way to the isolate
          got          \* the last thing decoded, and what was meant by it

vars == <<call, pending, streams, fns, persistent, registered, dart, cpp, sink, buffer, port, got>>

CallId == 7
ReplyId == 9
Unknown == 2147483646           \* 0x7ffffffe, a method id nobody has
LiveObjects == {1}              \* the handle of a live object; 2 was dropped
MaxItems == 1                   \* items emitted by one call

MsgType == [request |-> 1, responseOk |-> 2, responseErr |-> 3, streamData |-> 4,
            streamEnd |-> 5, streamErr |-> 6, dartFnCall |-> 7]

\* The texts of errors, one byte each.
BadFrame == <<1>>   NoMethod == <<2>>   Short == <<3>>   NoObject == <<4>>   Thrown == <<5>>

Message(bytes, of, meant) == [bytes |-> bytes, of |-> of, meant |-> meant]
Nothing == [of |-> "nothing"]
NoSink  == [id |-> 0, of |-> Void, left |-> 0]
Bad == "undecodable"
Seen(of, r, meant) == [of |-> of, v |-> IF r.ok THEN r.v ELSE Bad, meant |-> meant]

Values(ts, choice) == [k \in DOMAIN ts |-> Value(ts[k], choice[k])]

-----------------------------------------------------------------------------
(* Dart asks *)

\* registerDartFn takes the next id.
FreshFn == CHOOSE n \in 1 .. 3 : n \notin fns \cup {persistent, registered}

Argument(t, c, listening) ==
  CASE t.kind = "fn" -> FreshFn
    [] t.kind = "progress" -> IF listening THEN CallId ELSE 0
    [] OTHER -> Value(t, c)
Arguments(p, choice, listening) ==
  [k \in DOMAIN p.args |-> Argument(p.args[k], choice[k], listening)]
Listens(p, listening) == p.run = "open_stream" \/ (listening /\ Progresses(p) # {})

\* The previous persistent closure is forgotten when the next is registered.
RegisterFns(p, lib) ==
  IF Fns(p) = {} THEN UNCHANGED <<fns, persistent>>
  ELSE IF p \in KeepsFn(lib)
  THEN fns' = (fns \ {persistent}) \cup {FreshFn} /\ persistent' = FreshFn
  ELSE fns' = fns \cup {FreshFn} /\ UNCHANGED persistent

Hand(entry, bytes) ==
  /\ buffer' = Message(bytes, "request", <<>>)
  /\ cpp' = [at |-> "request", entry |-> entry]
  /\ dart' = IF entry = "sync" THEN "blocked" ELSE "waiting"
  /\ got' = Nothing
  /\ UNCHANGED <<registered, port, sink>>

\* A proxy: invokeAsyncMethod, openStream, invokeSyncMethod or their WithStream
\* forms.  A synchronous method may be called with invokeAsyncMethod as well.
CallProxy(lib, p, choice, listening, entry) ==
  LET args  == Arguments(p, choice, listening)
      id    == IF entry = "sync" /\ Progresses(p) = {} THEN 0 ELSE CallId
  IN  /\ entry = "sync" => p.run = "sync"
      /\ entry = "async" /\ p.run = "sync" => p.id \in {r.id : r \in Requests(lib)}
      /\ call' = [lib |-> lib, row |-> p, args |-> args, damaged |-> FALSE]
      /\ RegisterFns(p, lib)
      /\ pending' = IF entry = "async" /\ p.run # "open_stream" THEN {CallId} ELSE {}
      /\ streams' = IF Listens(p, listening) THEN {CallId} ELSE {}
      /\ Hand(entry, makeFrame(MsgType.request, id, p.id, PutAll(p.args, args)))

\* A request the native side must refuse, sent with the low-level calls of the bridge.
CallDamaged(lib, p, entry, answerId, bytes) ==
  /\ call' = [lib |-> lib, row |-> p, args |-> <<>>, damaged |-> TRUE]
  /\ pending' = IF entry = "async" THEN {answerId} ELSE {}
  /\ streams' = {}
  /\ UNCHANGED <<fns, persistent>>
  /\ Hand(entry, bytes)

CutTo(n, bytes) == SubSeq(bytes, 1, n)
Payload(p, choice) == PutAll(p.args, Arguments(p, choice, TRUE))

\* invokeRawAsync with a frame cut short; the answer can only come under id 0.
CallCutFrame(lib, p, choice) ==
  LET frame == makeFrame(MsgType.request, CallId, p.id, Payload(p, choice))
  IN  \E n \in Cuts : n < Len(frame) /\ CallDamaged(lib, p, "async", 0, CutTo(n, frame))

\* invokeAsyncMethod or invokeSyncMethod with a payload cut short.
CallCutPayload(lib, p, choice) ==
  LET id == IF p.run = "sync" THEN 0 ELSE CallId
      payload == Payload(p, choice)
  IN  \E n \in Cuts :
        /\ n < Len(payload)
        /\ CallDamaged(lib, p, IF p.run = "sync" THEN "sync" ELSE "async", id,
                       makeFrame(MsgType.request, id, p.id, CutTo(n, payload)))

\* invokeAsyncMethod with an id no method has.
CallUnknown(lib, p, choice) ==
  CallDamaged(lib, p, "async", CallId,
              makeFrame(MsgType.request, CallId, Unknown, Payload(p, choice)))

\* invokeSyncMethod with the id of an asynchronous method.
CallSyncAnyway(lib, p, choice) ==
  /\ p.run # "sync"
  /\ CallDamaged(lib, p, "sync", 0, makeFrame(MsgType.request, 0, p.id, Payload(p, choice)))

Ask ==
  /\ dart = "idle"
  /\ \E lib \in Libraries : \E p \in Proxies(lib) : \E choice \in [DOMAIN p.args -> Variants] :
       \/ \E listening \in BOOLEAN, entry \in {"async", "sync"} :
            CallProxy(lib, p, choice, listening, entry)
       \/ CallCutFrame(lib, p, choice)
       \/ CallCutPayload(lib, p, choice)
       \/ CallUnknown(lib, p, choice)
       \/ CallSyncAnyway(lib, p, choice)

-----------------------------------------------------------------------------
(* C++ dispatches *)

ErrPayload(text) == WriteAll(<<I32, Str>>, <<1, text>>)

\* try_post: the frame goes to the port of the isolate.
Post(type, id, payload, of, meant) ==
  port' = Append(port, Message(make_frame(type, id, call.row.id, payload), of, meant))
PostErr(id, text) == Post(MsgType.responseErr, id, ErrPayload(text), "failure", text)

\* What a dispatcher makes of a request: the arguments of a method, or a refusal.
ObjectsIn(t, v) == CASE t = Counter -> {v}
                     [] t = Vec(Counter) -> Elements(v)
                     [] OTHER -> {}
Refused(id, text) == [ok |-> FALSE, id |-> id, text |-> text]
DecodeArgs(f, row, args) ==
  IF ~args.ok THEN Refused(f.req, Short)
  ELSE IF ~(\A k \in DOMAIN args.v : ObjectsIn(row.args[k], args.v[k]) \subseteq LiveObjects)
  THEN Refused(f.req, NoObject)
  ELSE [ok |-> TRUE, id |-> f.req, row |-> row, args |-> args.v,
        unread |-> Len(f.payload) + 1 - args.next]
DecodeRow(f, row) == DecodeArgs(f, row, ReadAll(row.args, f.payload, 1))
DecodeFrame(f, table) ==
  IF ~f.ok THEN Refused(0, BadFrame)
  ELSE IF ~(\E r \in table : r.id = f.method) THEN Refused(f.req, NoMethod)
  ELSE DecodeRow(f, CHOOSE r \in table : r.id = f.method)
Decode(bytes, table) == DecodeFrame(parse_frame(bytes), table)

\* The stream a method may write to: the request's own, or the one it names.
SinkOf(d) ==
  LET row == d.row
      named == Progresses(row)
  IN  IF row.run = "stream" THEN [id |-> d.id, of |-> row.res, left |-> MaxItems]
      ELSE IF named = {} \/ d.args[TheArg(named)] = 0 THEN NoSink
      ELSE [id |-> d.args[TheArg(named)], of |-> row.args[TheArg(named)].of, left |-> MaxItems]

Enter(d) ==
  /\ cpp' = [at |-> "running", entry |-> cpp.entry, id |-> d.id, row |-> d.row,
             args |-> d.args, called |-> FALSE]
  /\ sink' = SinkOf(d)
  /\ got' = [of |-> "args", v |-> d.args, meant |-> call.args, unread |-> d.unread]
  /\ UNCHANGED <<buffer, port, dart>>
\* A refusal of a proxy's own request for another reason than its objects
\* means that its arguments did not arrive.
Refuse(d) == got' = IF call.damaged \/ d.text = NoObject THEN Nothing
                    ELSE [of |-> "args", v |-> Bad, meant |-> call.args, unread |-> 0]

\* dispatch_request, on the io thread
DispatchRequest ==
  /\ cpp.at = "request" /\ cpp.entry = "async"
  /\ \E d \in {Decode(buffer.bytes, Requests(call.lib))} :
         \/ d.ok /\ Enter(d)
         \/ /\ ~d.ok
            /\ Refuse(d)
            /\ PostErr(d.id, d.text)
            /\ cpp' = [at |-> "rest"]
            /\ UNCHANGED <<buffer, dart, sink>>
  /\ UNCHANGED <<call, pending, streams, fns, persistent, registered>>

Answer(type, id, payload, of, meant) ==
  /\ buffer' = Message(make_frame(type, id, call.row.id, payload), of, meant)
  /\ cpp' = [at |-> "returned"]

\* dispatch_sync, on the thread of the isolate.  What the generated code throws
\* before it runs the method, dcb_invoke_sync hands over as its error text; the
\* dispatcher of base_demo answers it with a frame, unless the frame is bad.
ThrowsOut(d) == d.text = BadFrame \/ (call.lib # "base" /\ d.text # NoObject)
SettleForgetsAll(fate) == dart' = "settled" /\ fns' = {} /\ got' = fate
Settle(fate) ==
  /\ dart' = "settled"
  /\ fns' = fns \cap {persistent}            \* unregisterDartFn, in finally
  /\ got' = fate
DispatchSync ==
  /\ cpp.at = "request" /\ cpp.entry = "sync"
  /\ \E d \in {Decode(buffer.bytes, SyncRequests(call.lib))} :
         \/ d.ok /\ Enter(d) /\ UNCHANGED fns
         \/ /\ ~d.ok /\ ThrowsOut(d)
            /\ Settle(IF call.damaged THEN [of |-> "failure", v |-> d.text, meant |-> d.text]
                      ELSE [of |-> "args", v |-> Bad, meant |-> call.args, unread |-> 0])
            /\ cpp' = [at |-> "rest"]
            /\ UNCHANGED <<buffer, port, sink>>
         \/ /\ ~d.ok /\ ~ThrowsOut(d)
            /\ Refuse(d)
            /\ Answer(MsgType.responseErr, d.id, ErrPayload(d.text), "failure", d.text)
            /\ UNCHANGED <<port, dart, fns, sink>>
  /\ UNCHANGED <<call, pending, streams, persistent, registered>>

-----------------------------------------------------------------------------
(* Business code runs *)

Business == cpp.at = "running"
MethodAt(at, called) == [at |-> at, entry |-> cpp.entry, id |-> cpp.id, row |-> cpp.row,
                         args |-> cpp.args, called |-> called]

\* StreamSink::add.  A synchronous method hands its sink to a coroutine on the
\* io thread, which may write after the method has returned.
Emit ==
  /\ sink.id # 0 /\ sink.left > 0
  /\ \E c \in Variants : LET v == Value(sink.of, c)
                       IN  Post(MsgType.streamData, sink.id, Write(sink.of, v), "item", v)
  /\ sink' = [id |-> sink.id, of |-> sink.of, left |-> sink.left - 1]
  /\ UNCHANGED <<call, pending, streams, fns, persistent, registered, dart, cpp, buffer, got>>

\* register_dart_fn keeps its callback, invoke_registered calls the one kept.
Registering == {CodegenCpp!register_dart_fn, CodegenCpp!sync_register_dart_fn}
Invoking    == {CodegenCpp!invoke_registered, CodegenCpp!invoke_registered_async}
\* test_cbridge_invoke encodes with dcb_writer; the pure C form and the one of
\* foreign_runtime_demo decode the reply with dcb_reader too.
ReadingInC == {CodegenCpp!test_cbridge_invoke_pure_c, ForeignCpp!test_cbridge_invoke}
WritingInC == ReadingInC \cup {CodegenCpp!test_cbridge_invoke}
Registers      == cpp.row \in Registering
UsesRegistered == cpp.row \in Invoking
WritesInC      == cpp.row \in WritingInC
ReadsInC       == cpp.row \in ReadingInC

FnType == IF UsesRegistered THEN StringFn ELSE cpp.row.args[TheArg(Fns(cpp.row))]
FnId == IF UsesRegistered THEN registered
        ELSE IF Fns(cpp.row) = {} \/ Registers THEN 0 ELSE cpp.args[TheArg(Fns(cpp.row))]

\* DartFn::operator() or dcb_invoke_dart_fn: the id of the closure, then its arguments.
CallBack ==
  /\ Business /\ FnId # 0 /\ ~cpp.called
  /\ \E choice \in [DOMAIN FnType.args -> Variants] :
       LET vs == Values(FnType.args, choice)
           bytes == IF WritesInC THEN dcb_write(Str, vs[1]) ELSE WriteAll(FnType.args, vs)
       IN  port' = Append(port, Message(make_frame(MsgType.dartFnCall, ReplyId, 0,
                                                      WriteU64(FnId) \o bytes), "closure", vs))
  /\ cpp' = MethodAt("calling", TRUE)
  /\ UNCHANGED <<call, pending, streams, fns, persistent, registered, dart, sink, buffer, got>>

Finish(type, payload, of, meant) ==
  IF cpp.entry = "sync" THEN Answer(type, cpp.id, payload, of, meant) /\ UNCHANGED <<port, sink>>
  ELSE /\ Post(type, cpp.id, payload, of, meant)
       /\ cpp' = [at |-> "rest"]
       /\ sink' = NoSink
       /\ UNCHANGED buffer

\* The method returns, or its stream ends.
Return ==
  /\ Business
  /\ UsesRegistered => registered # 0 /\ cpp.called    \* "no registered dart fn"
  /\ IF cpp.row.run = "stream" THEN Finish(MsgType.streamEnd, <<>>, "end", <<>>)
     ELSE \E c \in Variants : LET v == Value(cpp.row.res, c)
                            IN  Finish(MsgType.responseOk, Write(cpp.row.res, v), "result", v)
  /\ registered' = IF Registers THEN cpp.args[1] ELSE registered
  /\ UNCHANGED <<call, pending, streams, fns, persistent, dart, got>>

\* The method throws, or its stream fails; register_dart_fn does not throw.
Throw ==
  /\ Business /\ ~Registers
  /\ Finish(IF cpp.row.run = "stream" THEN MsgType.streamErr ELSE MsgType.responseErr,
            ErrPayload(Thrown), "failure", Thrown)
  /\ UNCHANGED <<call, pending, streams, fns, persistent, registered, dart, got>>

-----------------------------------------------------------------------------
(* Dart listens *)

\* The proxy that calls a method reads its result; without a result type it reads nothing.
ResultType == call.row.res
SinkType == IF call.row.run = "open_stream" THEN call.row.res
            ELSE call.row.args[TheArg(Progresses(call.row))].of
WrapperType(id) == IF id = persistent THEN StringFn ELSE call.row.args[TheArg(Fns(call.row))]

Result(payload, meant) ==
  Seen("result", Get(ResultType, payload, 0), IF ResultType = Void THEN <<>> ELSE meant)
Failure(payload, meant) ==
  LET r == GetAll(<<I32, Str>>, payload, 0)
  IN  [of |-> "failure", v |-> IF r.ok THEN r.v[2] ELSE Bad, meant |-> meant]

Reply(type, payload) ==
  /\ buffer' = Message(payload, type, <<>>)
  /\ cpp' = MethodAt("reply", cpp.called)
Lost(m) == [of |-> m.of, v |-> Bad, meant |-> m.meant]

\* _handleDartFnCall, of a closure that is known and with arguments it can read
RunClosure(m, fn, args) ==
  IF fn \notin fns \/ ~args.ok
  THEN got' = Lost(m) /\ Reply("failed", <<>>) /\ UNCHANGED dart
  ELSE /\ got' = Seen("closure", args, m.meant)
       /\ dart' = "closure"
       /\ cpp' = MethodAt("called back", cpp.called)
       /\ UNCHANGED buffer
HandleDartFnCall(m, payload, fn) ==
  RunClosure(m, fn, GetAll(WrapperType(fn).args, payload, 8))

\* _onMessage: frame f of message m.
Deliver(m, f) ==
  \/ /\ f.ok /\ f.type = MsgType.responseOk /\ f.req \in pending
     /\ pending' = pending \ {f.req} /\ streams' = streams \ {f.req}
     /\ Settle(Result(f.payload, m.meant))
     /\ UNCHANGED <<cpp, buffer>>
  \/ /\ f.ok /\ f.type \in {MsgType.responseErr, MsgType.streamErr}
     /\ f.req \in (IF f.type = MsgType.responseErr THEN pending \cup streams ELSE streams)
     /\ pending' = pending \ {f.req} /\ streams' = streams \ {f.req}
     /\ Settle(Failure(f.payload, m.meant))
     /\ UNCHANGED <<cpp, buffer>>
  \/ /\ f.ok /\ f.type = MsgType.streamEnd /\ f.req \in streams
     /\ streams' = streams \ {f.req}
     /\ Settle([of |-> "end", v |-> <<>>, meant |-> <<>>])
     /\ UNCHANGED <<pending, cpp, buffer>>
  \/ /\ f.ok => f.type = MsgType.streamData
     /\ got' = IF ~f.ok THEN Lost(m)
               ELSE IF f.req \notin streams THEN [of |-> "dropped"]
               ELSE Seen("item", Get(SinkType, f.payload, 0), m.meant)
     /\ UNCHANGED <<pending, streams, fns, dart, cpp, buffer>>
  \/ /\ f.ok /\ f.type = MsgType.dartFnCall
     /\ HandleDartFnCall(m, f.payload, GetU64(f.payload, 0).v)
     /\ UNCHANGED <<pending, streams, fns>>

OnMessage ==
  /\ port # <<>> /\ dart \in {"waiting", "settled"}
  /\ port' = Tail(port)
  /\ Deliver(Head(port), parseFrame(Head(port).bytes))
  /\ UNCHANGED <<call, persistent, registered, sink>>

\* The closure completes, and its wrapper encodes the result; or it throws.
ClosureEnds ==
  /\ dart = "closure"
  /\ dart' = "waiting"
  /\ cpp' = MethodAt("reply", cpp.called)
  /\ LET t == FnType.ret
     IN  \/ \E c \in Variants : buffer' = Message(Put(t, Value(t, c)), "ok", Value(t, c))
         \/ buffer' = Message(<<>>, "failed", <<>>)
  /\ UNCHANGED <<call, pending, streams, fns, persistent, registered, sink, port, got>>

\* dcb_dart_fn_reply, and decode_fn or the reader of the C callback.
ReplyArrives ==
  /\ cpp.at = "reply"
  /\ cpp' = MethodAt("running", cpp.called)
  /\ got' = IF buffer.of = "failed" THEN Nothing
            ELSE IF ReadsInC
            THEN [of |-> "reply", v |-> dcb_read_len_bytes(dcb_reader_init(buffer.bytes)).v,
                  meant |-> buffer.meant]
            ELSE Seen("reply", ReadOne(FnType.ret, buffer.bytes, 1), buffer.meant)
  /\ UNCHANGED <<call, pending, streams, fns, persistent, registered, dart, sink, buffer, port>>

\* invokeSyncMethod gets its answer; a stream listens on after a success.
SyncReturns ==
  /\ cpp.at = "returned"
  /\ cpp' = [at |-> "rest"]
  /\ LET f == parseFrame(buffer.bytes)
         ok == f.ok /\ f.type = MsgType.responseOk
     IN  /\ Settle(IF ok THEN Result(f.payload, buffer.meant)
                   ELSE IF f.ok /\ f.type = MsgType.responseErr THEN Failure(f.payload, buffer.meant)
                   ELSE [of |-> buffer.of, v |-> Bad, meant |-> buffer.meant])
         /\ streams' = IF ok THEN streams ELSE streams \ {CallId}
  /\ UNCHANGED <<call, pending, persistent, registered, sink, buffer, port>>

\* The caller has its answer and the port is empty: another call may come.  It
\* has an id of its own: what the stream of a synchronous call may still get
\* (only a streamEnd would remove it) is not followed any longer.
NextCall ==
  /\ dart = "settled" /\ cpp.at = "rest" /\ port = <<>>
  /\ dart' = "idle"
  /\ call' = Nothing /\ streams' = {} /\ buffer' = Message(<<>>, "nothing", <<>>) /\ got' = Nothing
  /\ sink' = NoSink
  /\ UNCHANGED <<pending, fns, persistent, registered, cpp, port>>

Init ==
  /\ call = Nothing /\ pending = {} /\ streams = {} /\ fns = {}
  /\ persistent = 0 /\ registered = 0
  /\ dart = "idle" /\ cpp = [at |-> "rest"] /\ buffer = Message(<<>>, "nothing", <<>>)
  /\ sink = NoSink /\ port = <<>> /\ got = Nothing

Next ==
  \/ Ask
  \/ DispatchRequest \/ DispatchSync
  \/ Emit \/ CallBack \/ Return \/ Throw
  \/ OnMessage \/ ClosureEnds \/ ReplyArrives \/ SyncReturns
  \/ NextCall

Spec == Init /\ [][Next]_vars

-----------------------------------------------------------------------------
\* What the native method is given is what the Dart caller passed, and it is
\* all the payload holds: every proxy writes what every dispatcher reads
\* (dcb_generated.dart and wire_dispatch.cpp, demo_bridge.dart and demo_api.cpp).
ArgumentsArrive ==
  got.of = "args" /\ ~call.damaged => got.v = got.meant /\ got.unread = 0

\* What the Dart caller is told, and every item its stream is given, is what
\* the native method returned, threw or emitted; a message never fails to
\* decode, and an item comes for nobody only after a synchronous call that has
\* failed (_onMessage, post_ok, post_err, StreamSink, invokeSyncMethodWithStream).
AnswersArrive ==
  /\ got.of \in {"result", "failure", "item"} => got.v = got.meant
  /\ got.of = "dropped" => call.row.run = "sync" /\ buffer.of = "failure"

\* A callback is run with the arguments native code gave it, native code gets
\* what it returned, and the closure held by register_dart_fn is one that Dart
\* still knows whenever no call is under way (DartFn, dcb_invoke_dart_fn,
\* _handleDartFnCall, registerPersistentDartFn).
CallbacksArrive ==
  /\ got.of \in {"closure", "reply"} => got.v = got.meant
  /\ dart = "idle" /\ registered # 0 => registered \in fns

\* A request cut short, of an unknown method or through the wrong entry never
\* reaches a method, and its caller is told so (parse_frame, need, the default
\* case and the catch clauses of the dispatchers, post_err with id 0).
DamageIsAnswered ==
  dart # "idle" /\ call.damaged =>
    /\ cpp.at \in {"request", "returned", "rest"}
    /\ dart = "settled" => got.of = "failure"
====
