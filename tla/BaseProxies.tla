----------------------------- MODULE BaseProxies -----------------------------
(******************************************************************************)
(* The Dart proxies of base_demo, written by hand in demo_bridge.dart: one    *)
(* row for every method, with what it writes in the payload and what it reads *)
(* from the answer (increment and failAsync read nothing).                    *)
(******************************************************************************)
EXTENDS WireTypes

bridgeVersion == Sync(1, <<>>, I32)
add == Async(2, <<I32, I32>>, I32)
sleepTest == Async(3, <<>>, Str)
ticks == OpenStream(4, <<I32, I32>>, I32)
echo == Async(5, <<Str>>, Str)
maybeDouble == Async(10, <<Opt(I32)>>, Opt(I32))
sumList == Async(11, <<Vec(I32)>>, I32)
reverseBytes == Async(12, <<Blob>>, Blob)
nextStatus == Async(13, <<StatusCode>>, StatusCode)
sumFixedFour == Async(14, <<Arr(4, I32)>>, I32)
greet == Async(15, <<Person>>, Str)
scoreTotal == Async(16, <<Map(Str, I32)>>, I32)
setSum == Async(17, <<SetOf(I32)>>, I32)
pairEcho == Async(34, <<Tuple(<<I32, Str>>)>>, Tuple(<<I32, Str>>))
tupleEcho == Async(35, <<Tuple(<<I32, Str, Bool>>)>>, Tuple(<<I32, Str, Bool>>))
echoI128 == Async(18, <<I128>>, I128)
totalAges == Async(19, <<Vec(Person)>>, I32)
createCounter == Async(20, <<I32>>, Counter)
createCounterDefault == Async(29, <<>>, Counter)
createCounterZero == Async(30, <<>>, Counter)
failAsync == Async(6, <<Str>>, Void)
failStream == OpenStream(7, <<Str>>, I32)
callDartHello == Async(8, <<DartFn(<<Str>>, Str)>>, Str)
callDartHelloSync == Async(9, <<DartFn(<<Str>>, Str)>>, Str)
counterAddValues == Async(36, <<Counter, Counter>>, I32)
counterTransferValue == Async(37, <<Counter, Counter>>, I32)
counterSumHandles == Async(38, <<Vec(Counter)>>, I32)
counterCloneFrom == Async(39, <<Counter>>, Counter)
counterConsumeAndNew == Async(40, <<Counter>>, Counter)
increment == Async(21, <<Counter, I32>>, Void)
addList == Async(31, <<Counter, Vec(I32)>>, I32)
setValue == Async(32, <<Counter, Opt(I32)>>, I32)
duplicate == Async(33, <<Counter>>, Counter)
value == Async(22, <<Counter>>, I32)
valueSync == Sync(24, <<Counter>>, I32)
sum == Sync(25, <<I32, I32>>, I32)
callCallback == Async(26, <<Counter, DartFn(<<Str>>, Str)>>, Str)
sleepAndGet == Async(27, <<Counter, I32>>, I32)
incrementStream == OpenStream(28, <<Counter, I32, I32>>, I32)

Proxies == {bridgeVersion, add, sleepTest, ticks, echo, maybeDouble, sumList,
  reverseBytes, nextStatus, sumFixedFour, greet, scoreTotal, setSum, pairEcho,
  tupleEcho, echoI128, totalAges, createCounter, createCounterDefault,
  createCounterZero, failAsync, failStream, callDartHello, callDartHelloSync,
  counterAddValues, counterTransferValue, counterSumHandles, counterCloneFrom,
  counterConsumeAndNew, increment, addList, setValue, duplicate, value, valueSync, sum,
  callCallback, sleepAndGet, incrementStream}
==============================================================================
