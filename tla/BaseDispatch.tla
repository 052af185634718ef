---------------------------- MODULE BaseDispatch ----------------------------
(*****************************************************************************)
(* The dispatch table of base_demo, written by hand in demo_api.cpp: one     *)
(* row for every case, with what the case reads from the payload and what it *)
(* writes in the answer.                                                     *)
(*****************************************************************************)
EXTENDS WireTypes

(* dispatch_request *)
kBridgeVersion == Inline(1, <<>>, I32)
kAdd == Task(2, <<I32, I32>>, I32)
kSleepTest == Pool(3, <<>>, Str)
kTicks == Stream(4, <<I32, I32>>, I32)
kEcho == Task(5, <<Str>>, Str)
kMaybeDouble == Task(10, <<Opt(I32)>>, Opt(I32))
kSumVec == Task(11, <<Vec(I32)>>, I32)
kReverseBytes == Task(12, <<Blob>>, Blob)
kNextStatus == Task(13, <<StatusCode>>, StatusCode)
kSumFixedFour == Task(14, <<Arr(4, I32)>>, I32)
kGreet == Task(15, <<Person>>, Str)
kScoreTotal == Task(16, <<Map(Str, I32)>>, I32)
kSetSum == Task(17, <<SetOf(I32)>>, I32)
kPairEcho == Task(34, <<Tuple(<<I32, Str>>)>>, Tuple(<<I32, Str>>))
kTupleEcho == Task(35, <<Tuple(<<I32, Str, Bool>>)>>, Tuple(<<I32, Str, Bool>>))
kNextI128 == Task(18, <<I128>>, I128)
kTotalAges == Task(19, <<Vec(Person)>>, I32)
kCounterCreate == Inline(20, <<I32>>, Counter)
kCounterIncrement == Task(21, <<Counter, I32>>, I32)
kCounterGetValue == Task(22, <<Counter>>, I32)
kCounterDrop == Inline(23, <<U64>>, Void)
kCounterCallDartFn == Task(26, <<Counter, DartFn(<<Str>>, Str)>>, Str)
kCounterSleepAndGet == Pool(27, <<Counter, I32>>, I32)
kCounterIncrementStream == Stream(28, <<Counter, I32, I32>>, I32)
kCounterCreateDefault == Inline(29, <<>>, Counter)
kCounterZero == Inline(30, <<>>, Counter)
kCounterAddList == Task(31, <<Counter, Vec(I32)>>, I32)
kCounterSetValue == Task(32, <<Counter, Opt(I32)>>, I32)
kCounterDuplicate == Inline(33, <<Counter>>, Counter)
kCounterAddValues == Task(36, <<Counter, Counter>>, I32)
kCounterTransferValue == Task(37, <<Counter, Counter>>, I32)
kCounterSumHandles == Task(38, <<Vec(Counter)>>, I32)
kCounterCloneFrom == Inline(39, <<Counter>>, Counter)
kCounterConsumeAndNew == Inline(40, <<Counter>>, Counter)
kFailAsync == Task(6, <<Str>>, I32)
kFailStream == Stream(7, <<Str>>, I32)
kCallDartHello == Task(8, <<DartFn(<<Str>>, Str)>>, Str)
kCallDartHelloSync == Pool(9, <<DartFn(<<Str>>, Str)>>, Str)

Requests == {kBridgeVersion, kAdd, kSleepTest, kTicks, kEcho, kMaybeDouble, kSumVec,
  kReverseBytes, kNextStatus, kSumFixedFour, kGreet, kScoreTotal, kSetSum, kPairEcho,
  kTupleEcho, kNextI128, kTotalAges, kCounterCreate, kCounterIncrement,
  kCounterGetValue, kCounterDrop, kCounterCallDartFn, kCounterSleepAndGet,
  kCounterIncrementStream, kCounterCreateDefault, kCounterZero, kCounterAddList,
  kCounterSetValue, kCounterDuplicate, kCounterAddValues, kCounterTransferValue,
  kCounterSumHandles, kCounterCloneFrom, kCounterConsumeAndNew, kFailAsync,
  kFailStream, kCallDartHello, kCallDartHelloSync}

-----------------------------------------------------------------------------
(* dispatch_sync *)
sync_kBridgeVersion == Inline(1, <<>>, I32)
sync_kCounterValueSync == Inline(24, <<Counter>>, I32)
sync_kCounterStaticSum == Inline(25, <<I32, I32>>, I32)

SyncRequests == {sync_kBridgeVersion, sync_kCounterValueSync, sync_kCounterStaticSum}
=============================================================================
