--------------------------- MODULE CodegenDispatch ---------------------------
(****************************************************************************)
(* The dispatch table of codegen_demo: one row for every case of the        *)
(* generated wire_dispatch.cpp, with what the case reads from the payload   *)
(* and what it writes in the answer. A method may have a row in each table: *)
(* an asynchronous request may name a synchronous method.                   *)
(****************************************************************************)
EXTENDS WireTypes

(* dispatch_request *)
sum_set_ordered == Task(10142861, <<SetOf(I32)>>, I32)
cloneWithOffset == Inline(36494560, <<Counter, I32>>, Counter)
call_dart_from_worker_a == Task(36798377, <<DartFn(<<Str>>, Str), Str>>, Str)
collect_all_demo == Task(38208963, <<>>, Str)
sum_scores == Task(66895156, <<Map(Str, I32)>>, I32)
distance == Task(75330037, <<Point, Point>>, F64)
fail_normal == Pool(81397966, <<Str>>, I32)
sync_download_with_progress == Inline(88691087, <<Str, Progress(I32)>>, Str)
pair_echo == Task(237527086, <<Tuple(<<I32, Str>>)>>, Tuple(<<I32, Str>>))
tuple_echo == Task(243144110, <<Tuple(<<I32, Str, Bool>>)>>, Tuple(<<I32, Str, Bool>>))
test_foreign_sleep == Task(286391769, <<>>, Str)
fan_out == Task(332105081, <<Str>>, Tuple(<<Str, Str>>))
stop_workers == Task(350574845, <<>>, Str)
call_dart_from_uv == Task(400156061, <<DartFn(<<Str>>, Str), Str>>, Str)
stop_uv_worker == Task(408668229, <<>>, Str)
fail_async == Task(414051157, <<Str>>, I32)
fail_stream == Stream(444673125, <<Str>>, I32)
download_with_progress_old == Task(463555789, <<Str>>, Str)
download_with_progress == Task(463555789, <<Str, Progress(I32)>>, Str)
start_uv_worker == Task(482550500, <<>>, Str)
maybe_double == Task(489154044, <<Opt(I32)>>, Opt(I32))
add == Task(513277594, <<I32, I32>>, I32)
bridge_version == Inline(513280939, <<>>, I32)
sum_array == Task(516316109, <<Arr(4, I32)>>, I32)
test_cbridge_invoke == Task(541474998, <<DartFn(<<Str>>, Str), Str>>, Str)
test_cbridge_async == Task(577957429, <<>>, Str)
invoke_registered == Pool(594957055, <<Str>>, Str)
sum_scores_ordered == Task(601014207, <<Map(Str, I32)>>, I32)
echo_bool_list == Task(608718626, <<Vec(Bool)>>, Vec(Bool))
ping_worker == Task(686903527, <<Str>>, Str)
collect_any_cancel_demo == Task(727741271, <<>>, Str)
test_foreign_sleep_long == Task(738309320, <<>>, Str)
cancel_task == Inline(741187792, <<Str>>, Bool)
pipeline == Task(764074457, <<Str>>, Str)
increment_i64 == Task(826193512, <<I64>>, I64)
test_channel_service_concurrent == Task(859567955, <<>>, Str)
echo_time == Task(861874896, <<Time>>, Time)
collect_all_para_demo == Task(888212641, <<>>, I32)
start_workers == Task(909664976, <<>>, Str)
cancellable_task == Task(917187185, <<Str, I32, I32>>, Str)
optional_status == Task(923880942, <<Opt(OrderStatus)>>, Opt(OrderStatus))
echo_list == Task(923919167, <<Vec(I32)>>, Vec(I32))
collect_all_error_demo == Task(984657024, <<>>, Str)
invoke_registered_async == Task(999429777, <<Str>>, Str)
concat_dart_fn == Pool(1056101777, <<DartFn(<<Str, Str>>, Str), Str, Str>>, Str)
test_cbridge_invoke_pure_c == Task(1082486080, <<DartFn(<<Str>>, Str), Str>>, Str)
scale == Task(1132741135, <<Point, F64>>, Point)
async_echo_bytes == Task(1143946787, <<Ptr, I32>>, Ptr)
negate_bool == Task(1187695424, <<Bool>>, Bool)
fail_sync == Inline(1225502033, <<Str>>, I32)
is_task_running == Inline(1229894954, <<Str>>, Bool)
makeCounter == Pool(1270341715, <<I32>>, Counter)
echo_bytes == Inline(1287481420, <<Ptr, I32>>, Ptr)
test_cbridge_async_fail == Task(1312284767, <<>>, Str)
sleep_greeting == Pool(1347623235, <<Str>>, Str)
echo_u128 == Task(1349826830, <<U128>>, U128)
echo_time_sync == Inline(1426479656, <<Time>>, Time)
call_dart_from_worker_b == Task(1439916846, <<DartFn(<<Str>>, Str), Str>>, Str)
uv_compute == Task(1444503764, <<I32>>, I32)
worker_stream == Stream(1504378116, <<I32, I32>>, Str)
fail_non_std == Task(1517851511, <<>>, I32)
addCounters == Task(1533879238, <<Counter, Counter>>, I32)
increment_u32 == Task(1597460230, <<U32>>, U32)
test_foreign_sleep_cancel == Task(1614762534, <<>>, Str)
collect_all_cancel_demo == Task(1616407596, <<>>, Str)
tick_stream == Stream(1673543649, <<I32, I32>>, I32)
uv_interval_demo == Task(1695622618, <<I32, I32>>, I32)
register_dart_fn == Inline(1702006080, <<DartFn(<<Str>>, Str)>>, Bool)
collect_any_demo == Task(1731712822, <<>>, Str)
ask_uv == Task(1739046069, <<Str>>, Str)
greet_dart_fn == Task(1789823149, <<DartFn(<<Str>>, Str), Str>>, Str)
nested_cube == Inline(1812101563, <<I32>>, Vec(Vec(Vec(I32))))
sum_set == Task(1869545367, <<SetOf(I32)>>, I32)
process_message == Task(1886753811, <<Str>>, Str)
test_cbridge_async_cancel == Task(1895746721, <<>>, Str)
bounding_box == Task(1914574156, <<Vec(Point)>>, Rect)
test_cbridge_pure_c_cancel == Task(1924401821, <<>>, Str)
uv_stream == Stream(1946724813, <<I32, I32>>, Str)
test_channel_service == Task(2018661287, <<>>, Str)
sync_dart_fn_blocking_us == Pool(2026522337, <<DartFn(<<Str>>, Str), Str>>, I64)
echo_i128 == Task(2053397325, <<I128>>, I128)
optional_string == Task(2057196713, <<Opt(Str)>>, Opt(Str))
next_status == Task(2129366549, <<OrderStatus>>, OrderStatus)
Counter_new == Inline(546811180, <<I32>>, Counter)
Counter_make == Inline(1174608690, <<>>, Counter)
Counter_value == Task(1819503097, <<Counter>>, I32)
Counter_valueSync == Inline(190346512, <<Counter>>, I32)
Counter_toString == Inline(1826397364, <<Counter>>, Str)
Counter_increment == Task(1534254823, <<Counter, I32>>, Void)
Counter_sleepAndGet == Pool(809700219, <<Counter, I32>>, I32)
Counter_addList == Task(1623490793, <<Counter, Vec(I32)>>, I32)
Counter_setValue == Task(1197060560, <<Counter, Opt(I32)>>, Void)
Counter_duplicate == Task(1724183534, <<Counter>>, Counter)
Counter_addTo == Task(479175197, <<Counter, Counter>>, I32)
Counter_sum == Inline(1521970656, <<I32, I32>>, I32)
Counter_greetDartFn == Task(1190014947, <<Counter, DartFn(<<Str>>, Str), Str>>, Str)
Counter_tickStream == Stream(550621099, <<Counter, I32, I32>>, I32)
Counter_aliveCount == Inline(1338263248, <<>>, I32)

Requests == {sum_set_ordered, cloneWithOffset, call_dart_from_worker_a,
  collect_all_demo, sum_scores, distance, fail_normal, sync_download_with_progress,
  pair_echo, tuple_echo, test_foreign_sleep, fan_out, stop_workers, call_dart_from_uv,
  stop_uv_worker, fail_async, fail_stream, download_with_progress, start_uv_worker,
  maybe_double, add, bridge_version, sum_array, test_cbridge_invoke,
  test_cbridge_async, invoke_registered, sum_scores_ordered, echo_bool_list,
  ping_worker, collect_any_cancel_demo, test_foreign_sleep_long, cancel_task, pipeline,
  increment_i64, test_channel_service_concurrent, echo_time, collect_all_para_demo,
  start_workers, cancellable_task, optional_status, echo_list, collect_all_error_demo,
  invoke_registered_async, concat_dart_fn, test_cbridge_invoke_pure_c, scale,
  async_echo_bytes, negate_bool, fail_sync, is_task_running, makeCounter, echo_bytes,
  test_cbridge_async_fail, sleep_greeting, echo_u128, echo_time_sync,
  call_dart_from_worker_b, uv_compute, worker_stream, fail_non_std, addCounters,
  increment_u32, test_foreign_sleep_cancel, collect_all_cancel_demo, tick_stream,
  uv_interval_demo, register_dart_fn, collect_any_demo, ask_uv, greet_dart_fn,
  nested_cube, sum_set, process_message, test_cbridge_async_cancel, bounding_box,
  test_cbridge_pure_c_cancel, uv_stream, test_channel_service,
  sync_dart_fn_blocking_us, echo_i128, optional_string, next_status, Counter_new,
  Counter_make, Counter_value, Counter_valueSync, Counter_toString, Counter_increment,
  Counter_sleepAndGet, Counter_addList, Counter_setValue, Counter_duplicate,
  Counter_addTo, Counter_sum, Counter_greetDartFn, Counter_tickStream,
  Counter_aliveCount}

-----------------------------------------------------------------------------
(* dispatch_sync *)
sync_cloneWithOffset == Inline(36494560, <<Counter, I32>>, Counter)
sync_sync_download_with_progress == Inline(88691087, <<Str, Progress(I32)>>, Str)
sync_bridge_version == Inline(513280939, <<>>, I32)
sync_cancel_task == Inline(741187792, <<Str>>, Bool)
sync_fail_sync == Inline(1225502033, <<Str>>, I32)
sync_is_task_running == Inline(1229894954, <<Str>>, Bool)
sync_echo_bytes == Inline(1287481420, <<Ptr, I32>>, Ptr)
sync_echo_time_sync == Inline(1426479656, <<Time>>, Time)
sync_register_dart_fn == Inline(1702006080, <<DartFn(<<Str>>, Str)>>, Bool)
sync_nested_cube == Inline(1812101563, <<I32>>, Vec(Vec(Vec(I32))))
sync_Counter_new == Inline(546811180, <<I32>>, Counter)
sync_Counter_make == Inline(1174608690, <<>>, Counter)
sync_Counter_valueSync == Inline(190346512, <<Counter>>, I32)
sync_Counter_toString == Inline(1826397364, <<Counter>>, Str)
sync_Counter_sum == Inline(1521970656, <<I32, I32>>, I32)
sync_Counter_aliveCount == Inline(1338263248, <<>>, I32)

SyncRequests == {sync_cloneWithOffset, sync_sync_download_with_progress,
  sync_bridge_version, sync_cancel_task, sync_fail_sync, sync_is_task_running,
  sync_echo_bytes, sync_echo_time_sync, sync_register_dart_fn, sync_nested_cube,
  sync_Counter_new, sync_Counter_make, sync_Counter_valueSync, sync_Counter_toString,
  sync_Counter_sum, sync_Counter_aliveCount}
==============================================================================
