--------------------------- MODULE CodegenProxies ---------------------------
(*****************************************************************************)
(* The Dart proxies of codegen_demo: one row for every method of the         *)
(* generated dcb_generated.dart, with what it writes in the payload and what *)
(* it reads from the answer.                                                 *)
(*****************************************************************************)
EXTENDS WireTypes

sumSetOrdered == Async(10142861, <<SetOf(I32)>>, I32)
cloneWithOffset == Sync(36494560, <<Counter, I32>>, Counter)
callDartFromWorkerA == Async(36798377, <<DartFn(<<Str>>, Str), Str>>, Str)
collectAllDemo == Async(38208963, <<>>, Str)
sumScores == Async(66895156, <<Map(Str, I32)>>, I32)
distance == Async(75330037, <<Point, Point>>, F64)
failNormal == Async(81397966, <<Str>>, I32)
syncDownloadWithProgress == Sync(88691087, <<Str, Progress(I32)>>, Str)
pairEcho == Async(237527086, <<Tuple(<<I32, Str>>)>>, Tuple(<<I32, Str>>))
tupleEcho == Async(243144110, <<Tuple(<<I32, Str, Bool>>)>>, Tuple(<<I32, Str, Bool>>))
testForeignSleep == Async(286391769, <<>>, Str)
fanOut == Async(332105081, <<Str>>, Tuple(<<Str, Str>>))
stopWorkers == Async(350574845, <<>>, Str)
callDartFromUv == Async(400156061, <<DartFn(<<Str>>, Str), Str>>, Str)
stopUvWorker == Async(408668229, <<>>, Str)
failAsync == Async(414051157, <<Str>>, I32)
failStream == OpenStream(444673125, <<Str>>, I32)
downloadWithProgress == Async(463555789, <<Str, Progress(I32)>>, Str)
startUvWorker == Async(482550500, <<>>, Str)
maybeDouble == Async(489154044, <<Opt(I32)>>, Opt(I32))
add == Async(513277594, <<I32, I32>>, I32)
bridgeVersion == Sync(513280939, <<>>, I32)
sumArray == Async(516316109, <<Arr(4, I32)>>, I32)
testCbridgeInvoke == Async(541474998, <<DartFn(<<Str>>, Str), Str>>, Str)
testCbridgeAsync == Async(577957429, <<>>, Str)
invokeRegistered == Async(594957055, <<Str>>, Str)
sumScoresOrdered == Async(601014207, <<Map(Str, I32)>>, I32)
echoBoolList == Async(608718626, <<Vec(Bool)>>, Vec(Bool))
pingWorker == Async(686903527, <<Str>>, Str)
collectAnyCancelDemo == Async(727741271, <<>>, Str)
testForeignSleepLong == Async(738309320, <<>>, Str)
cancelTask == Sync(741187792, <<Str>>, Bool)
pipeline == Async(764074457, <<Str>>, Str)
incrementI64 == Async(826193512, <<I64>>, I64)
testChannelServiceConcurrent == Async(859567955, <<>>, Str)
echoTime == Async(861874896, <<Time>>, Time)
collectAllParaDemo == Async(888212641, <<>>, I32)
startWorkers == Async(909664976, <<>>, Str)
cancellableTask == Async(917187185, <<Str, I32, I32>>, Str)
optionalStatus == Async(923880942, <<Opt(OrderStatus)>>, Opt(OrderStatus))
echoList == Async(923919167, <<Vec(I32)>>, Vec(I32))
collectAllErrorDemo == Async(984657024, <<>>, Str)
invokeRegisteredAsync == Async(999429777, <<Str>>, Str)
concatDartFn == Async(1056101777, <<DartFn(<<Str, Str>>, Str), Str, Str>>, Str)
testCbridgeInvokePureC == Async(1082486080, <<DartFn(<<Str>>, Str), Str>>, Str)
scale == Async(1132741135, <<Point, F64>>, Point)
asyncEchoBytes == Async(1143946787, <<Ptr, I32>>, Ptr)
negateBool == Async(1187695424, <<Bool>>, Bool)
failSync == Sync(1225502033, <<Str>>, I32)
isTaskRunning == Sync(1229894954, <<Str>>, Bool)
makeCounter == Async(1270341715, <<I32>>, Counter)
echoBytes == Sync(1287481420, <<Ptr, I32>>, Ptr)
testCbridgeAsyncFail == Async(1312284767, <<>>, Str)
sleepGreeting == Async(1347623235, <<Str>>, Str)
echoU128 == Async(1349826830, <<U128>>, U128)
echoTimeSync == Sync(1426479656, <<Time>>, Time)
callDartFromWorkerB == Async(1439916846, <<DartFn(<<Str>>, Str), Str>>, Str)
uvCompute == Async(1444503764, <<I32>>, I32)
workerStream == OpenStream(1504378116, <<I32, I32>>, Str)
failNonStd == Async(1517851511, <<>>, I32)
addCounters == Async(1533879238, <<Counter, Counter>>, I32)
incrementU32 == Async(1597460230, <<U32>>, U32)
testForeignSleepCancel == Async(1614762534, <<>>, Str)
collectAllCancelDemo == Async(1616407596, <<>>, Str)
tickStream == OpenStream(1673543649, <<I32, I32>>, I32)
uvIntervalDemo == Async(1695622618, <<I32, I32>>, I32)
registerDartFn == Sync(1702006080, <<DartFn(<<Str>>, Str)>>, Bool)
collectAnyDemo == Async(1731712822, <<>>, Str)
askUv == Async(1739046069, <<Str>>, Str)
greetDartFn == Async(1789823149, <<DartFn(<<Str>>, Str), Str>>, Str)
nestedCube == Sync(1812101563, <<I32>>, Vec(Vec(Vec(I32))))
sumSet == Async(1869545367, <<SetOf(I32)>>, I32)
processMessage == Async(1886753811, <<Str>>, Str)
testCbridgeAsyncCancel == Async(1895746721, <<>>, Str)
boundingBox == Async(1914574156, <<Vec(Point)>>, Rect)
testCbridgePureCCancel == Async(1924401821, <<>>, Str)
uvStream == OpenStream(1946724813, <<I32, I32>>, Str)
testChannelService == Async(2018661287, <<>>, Str)
syncDartFnBlockingUs == Async(2026522337, <<DartFn(<<Str>>, Str), Str>>, I64)
echoI128 == Async(2053397325, <<I128>>, I128)
optionalString == Async(2057196713, <<Opt(Str)>>, Opt(Str))
nextStatus == Async(2129366549, <<OrderStatus>>, OrderStatus)
counterNewWithInitialValue == Sync(546811180, <<I32>>, Counter)
counterNew == Sync(1174608690, <<>>, Counter)
counterValue == Async(1819503097, <<Counter>>, I32)
counterValueSync == Sync(190346512, <<Counter>>, I32)
counterToString == Sync(1826397364, <<Counter>>, Str)
counterIncrement == Async(1534254823, <<Counter, I32>>, Void)
counterSleepAndGet == Async(809700219, <<Counter, I32>>, I32)
counterAddList == Async(1623490793, <<Counter, Vec(I32)>>, I32)
counterSetValue == Async(1197060560, <<Counter, Opt(I32)>>, Void)
counterDuplicate == Async(1724183534, <<Counter>>, Counter)
counterAddTo == Async(479175197, <<Counter, Counter>>, I32)
counterSum == Sync(1521970656, <<I32, I32>>, I32)
counterGreetDartFn == Async(1190014947, <<Counter, DartFn(<<Str>>, Str), Str>>, Str)
counterTickStream == OpenStream(550621099, <<Counter, I32, I32>>, I32)
counterAliveCount == Sync(1338263248, <<>>, I32)

Proxies == {sumSetOrdered, cloneWithOffset, callDartFromWorkerA, collectAllDemo,
  sumScores, distance, failNormal, syncDownloadWithProgress, pairEcho, tupleEcho,
  testForeignSleep, fanOut, stopWorkers, callDartFromUv, stopUvWorker, failAsync,
  failStream, downloadWithProgress, startUvWorker, maybeDouble, add, bridgeVersion,
  sumArray, testCbridgeInvoke, testCbridgeAsync, invokeRegistered, sumScoresOrdered,
  echoBoolList, pingWorker, collectAnyCancelDemo, testForeignSleepLong, cancelTask,
  pipeline, incrementI64, testChannelServiceConcurrent, echoTime, collectAllParaDemo,
  startWorkers, cancellableTask, optionalStatus, echoList, collectAllErrorDemo,
  invokeRegisteredAsync, concatDartFn, testCbridgeInvokePureC, scale, asyncEchoBytes,
  negateBool, failSync, isTaskRunning, makeCounter, echoBytes, testCbridgeAsyncFail,
  sleepGreeting, echoU128, echoTimeSync, callDartFromWorkerB, uvCompute, workerStream,
  failNonStd, addCounters, incrementU32, testForeignSleepCancel, collectAllCancelDemo,
  tickStream, uvIntervalDemo, registerDartFn, collectAnyDemo, askUv, greetDartFn,
  nestedCube, sumSet, processMessage, testCbridgeAsyncCancel, boundingBox,
  testCbridgePureCCancel, uvStream, testChannelService, syncDartFnBlockingUs, echoI128,
  optionalString, nextStatus, counterNewWithInitialValue, counterNew, counterValue,
  counterValueSync, counterToString, counterIncrement, counterSleepAndGet,
  counterAddList, counterSetValue, counterDuplicate, counterAddTo, counterSum,
  counterGreetDartFn, counterTickStream, counterAliveCount}

\* Proxies whose callback stays registered after the call.
Keeps == {registerDartFn}
=============================================================================
