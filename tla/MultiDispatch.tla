---------------------------- MODULE MultiDispatch ----------------------------
(***************************************************************************)
(* The dispatch table of multi_runtime_demo: one row for every case of the *)
(* generated wire_dispatch.cpp, with what the case reads from the payload  *)
(* and what it writes in the answer. No method is synchronous here.        *)
(***************************************************************************)
EXTENDS WireTypes

(* dispatch_request *)
call_dart_from_worker_a == Task(38396996, <<DartFn(<<Str>>, Str), Str>>, Str)
stop_workers == Task(489867174, <<>>, Str)
call_dart_from_worker_b == Task(568428227, <<DartFn(<<Str>>, Str), Str>>, Str)
start_workers == Task(802585972, <<>>, Str)
ping_worker == Task(812353966, <<Str>>, Str)
process_message == Task(1706202089, <<Str>>, Str)
pipeline == Task(1761426519, <<Str>>, Str)
fan_out == Task(2046595992, <<Str>>, Tuple(<<Str, Str>>))
worker_stream == Stream(2109241176, <<I32, I32>>, Str)

Requests == {call_dart_from_worker_a, stop_workers, call_dart_from_worker_b,
  start_workers, ping_worker, process_message, pipeline, fan_out, worker_stream}

SyncRequests == {}
==============================================================================
