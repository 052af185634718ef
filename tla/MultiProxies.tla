---------------------------- MODULE MultiProxies ----------------------------
(*****************************************************************************)
(* The Dart proxies of multi_runtime_demo: one row for every method of the   *)
(* generated dcb_generated.dart, with what it writes in the payload and what *)
(* it reads from the answer.                                                 *)
(*****************************************************************************)
EXTENDS WireTypes

callDartFromWorkerA == Async(38396996, <<DartFn(<<Str>>, Str), Str>>, Str)
stopWorkers == Async(489867174, <<>>, Str)
callDartFromWorkerB == Async(568428227, <<DartFn(<<Str>>, Str), Str>>, Str)
startWorkers == Async(802585972, <<>>, Str)
pingWorker == Async(812353966, <<Str>>, Str)
processMessage == Async(1706202089, <<Str>>, Str)
pipeline == Async(1761426519, <<Str>>, Str)
fanOut == Async(2046595992, <<Str>>, Tuple(<<Str, Str>>))
workerStream == OpenStream(2109241176, <<I32, I32>>, Str)

Proxies == {callDartFromWorkerA, stopWorkers, callDartFromWorkerB, startWorkers,
  pingWorker, processMessage, pipeline, fanOut, workerStream}
=============================================================================
