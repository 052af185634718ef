--------------------------- MODULE ForeignProxies ---------------------------
(*****************************************************************************)
(* The Dart proxies of foreign_runtime_demo: one row for every method of the *)
(* generated dcb_generated.dart, with what it writes in the payload and what *)
(* it reads from the answer.                                                 *)
(*****************************************************************************)
EXTENDS WireTypes

startUvWorker == Async(18716410, <<>>, Str)
callDartFromUv == Async(201331851, <<DartFn(<<Str>>, Str), Str>>, Str)
testCbridgeInvoke == Async(300843582, <<DartFn(<<Str>>, Str), Str>>, Str)
uvCompute == Async(460040803, <<I32>>, I32)
testChannelServiceConcurrent == Async(595582421, <<>>, Str)
uvStream == OpenStream(828415216, <<I32, I32>>, Str)
testCbridgeAsyncFail == Async(1096234678, <<>>, Str)
testChannelService == Async(1620642776, <<>>, Str)
testCbridgeAsync == Async(1657238865, <<>>, Str)
askUv == Async(2040169010, <<Str>>, Str)
stopUvWorker == Async(2048427889, <<>>, Str)
testCbridgeAsyncCancel == Async(2117983701, <<>>, Str)

Proxies == {startUvWorker, callDartFromUv, testCbridgeInvoke, uvCompute,
  testChannelServiceConcurrent, uvStream, testCbridgeAsyncFail, testChannelService,
  testCbridgeAsync, askUv, stopUvWorker, testCbridgeAsyncCancel}
=============================================================================
