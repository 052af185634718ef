--------------------------- MODULE ForeignDispatch ---------------------------
(*****************************************************************************)
(* The dispatch table of foreign_runtime_demo: one row for every case of the *)
(* generated wire_dispatch.cpp, with what the case reads from the payload    *)
(* and what it writes in the answer. No method is synchronous here.          *)
(*****************************************************************************)
EXTENDS WireTypes

(* dispatch_request *)
start_uv_worker == Task(18716410, <<>>, Str)
call_dart_from_uv == Task(201331851, <<DartFn(<<Str>>, Str), Str>>, Str)
test_cbridge_invoke == Task(300843582, <<DartFn(<<Str>>, Str), Str>>, Str)
uv_compute == Task(460040803, <<I32>>, I32)
test_channel_service_concurrent == Task(595582421, <<>>, Str)
uv_stream == Stream(828415216, <<I32, I32>>, Str)
test_cbridge_async_fail == Task(1096234678, <<>>, Str)
test_channel_service == Task(1620642776, <<>>, Str)
test_cbridge_async == Task(1657238865, <<>>, Str)
ask_uv == Task(2040169010, <<Str>>, Str)
stop_uv_worker == Task(2048427889, <<>>, Str)
test_cbridge_async_cancel == Task(2117983701, <<>>, Str)

Requests == {start_uv_worker, call_dart_from_uv, test_cbridge_invoke, uv_compute,
  test_channel_service_concurrent, uv_stream, test_cbridge_async_fail,
  test_channel_service, test_cbridge_async, ask_uv, stop_uv_worker,
  test_cbridge_async_cancel}

SyncRequests == {}
==============================================================================
