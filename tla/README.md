# Verification of the ADS-MQTT real-time bridge

TLA+ models of the C++ bridge in this repository, the TLC runs that check them
on small instances, and TLAPS proofs of what matters most for every instance.
Line numbers refer to the sources named; `PROJECT.json` maps every definition to
the lines it stands for and lists the hazards the properties are aimed at.

## The system

The program reads PLC variables over Beckhoff ADS and publishes each change to an
MQTT broker. Beside the bridge itself the repository ships building blocks that
the examples use: shared memory, RTSS, RT-PREEMPT, batching, payloads,
compression, PLC discovery.

| Component | State it keeps | Operations | What is hard | What makes it correct |
|---|---|---|---|---|
| `SharedMemoryRingBuffer` (include/shared_memory.hpp) | header with `write_pos`, `read_pos`; bytes behind it; a mapping shared by two processes | constructor, destructor, `write`, `read`, `is_empty`, `available_*` | two processes without a lock; stale cursors; wrap-around; a crash in the middle of a copy; who initialises the mapping | it is a FIFO of whole messages; nothing is torn, overwritten or lost while a process holds the mapping |
| `AdsRealtimeEngine` (src/ads_realtime_engine.cpp, .hpp) | ADS port, `running_`, `variables_` under a mutex, heap-allocated `VariableHandle`s, notifications at the router | `connect`, `add_variable`, `start`, `stop`, destructor, static notification callback, `get_statistics` | the router's thread calls back with a raw pointer at any time, also between two steps of `add_variable` or `stop`; calls from several threads | no callback meets a freed or a wrong handle; nothing is left when the engine is gone; the mutex is always released |
| `MqttPublisher` (src/mqtt_publisher.cpp, .hpp) | `connected_`, the Paho client | `connect`, `disconnect`, `publish`, `publish_string`, destructor | the flag is checked before the client is called; link losses, automatic reconnects, an answer that never comes | the flag never outlives the session; messages arrive in order and once; calls return |
| Main program (src/main.cpp) | `g_running`, the two objects, the monitor thread | start-up, main loop, signal handler, monitor, shutdown; a Windows and a Linux build | a signal at any point of the start; callbacks during shutdown; early exits and destruction order | references stay valid; a signal always ends the program; samples meet an open publisher, and arrive once and in order or are lost |
| RTSS integration (include/rtss_integration.hpp) | thread and timer handles, `running_`; a pool of entries with atomic flags | `RtssThread` create/start/stop, `RtssTimer`, `RtssMemoryPool` allocate/deallocate, `RtssAdsHandler` loop | lock-free claims; `stop` gives up after one second and the object may be started again | an entry belongs to one thread at most; every other loop inside an object is one that `stop` gave up on |
| RT-PREEMPT (include/linux_rt_preempt.hpp) | pthread, `running_` (plain bool), locked memory, latency counters | `RtThread`, `RtLatencyTracker`, `RtTimer`, `RtPeriodicTask` | partial failure of `start`; locks that act on the whole process; order of destruction; unsigned underflow | one thread, joined before its object goes; memory locked as long as the task runs, whatever other objects lock it; the task that runs is the one the object holds |
| `VariableBatch` (include/variable_batch.hpp) | pending entries, time of the last flush | `add_variable`, `should_flush`, `serialize`, `clear` | a timeout nobody polls; 16-bit lengths; two calls for one flush | every entry leaves in one batch, once, in order, and can be cut out again |
| Binary payload (include/binary_payload.hpp) | sequence counter | `create_single`, `create_batch`, `decode_header` | widths of counts; one counter for all kinds of payloads | the receiver can tell how many payloads were lost |
| Compression (include/payload_compression.hpp, compressed_payload.hpp) | `enable_compression` (the coders are pure) | RLE, dictionary coder, choice of the smaller, framing | bounds of runs and windows, cut-off input, a literal's top bit | what comes back is what went in; the decoder ends |
| PLC discovery (src/plc_discovery.cpp) | list of PLCs, discovery thread, flag, mutex | `startAutoDiscovery`, `stopAutoDiscovery`, the loop, functions under the mutex | the flag is tested and set without synchronisation; the loop takes the mutex; it polls the flag between scans only | one thread; it ends when stopped; the program is not terminated |
| Configuration, examples, dashboard, vendored TcAds headers and DLL, build scripts | - | - | - | - |

How they interact: `main` owns the engine and the publisher. The router's
notification thread calls `ads_notification_callback`, which calls the lambda of
main.cpp:87, which calls `publish` on the publisher by reference. The monitor
thread calls `get_statistics` on the engine by reference. The signal handler
shares only `g_running`. `RtPeriodicTask` owns an `RtThread`, and all `RtThread`s
of a process share its memory lock; `RtssAdsHandler` is the task of an
`RtssThread`; `CompressedPayloadBuilder` calls `BinaryPayloadBuilder` and the
coders. Beyond that the building blocks share nothing, and are used by the
examples only.

## Modules

| Module | Models | State and actions |
|---|---|---|
| `MessageQueue` | what the ring promises | abstract: a FIFO `queue`, the bytes last delivered `got`, the processes `attached` |
| `SharedMemoryRingBuffer` | include/shared_memory.hpp | the header's cursors, the bytes, the locals of `write` (`w`) and `read` (`r`), a program counter per process. Each load and store of the header is an action (`WriteLoadOwn`, `WriteLoadOther`, `WriteStore`, `ReadLoadOther`, `ReadLoadOwn`, `ReadStore`), a memcpy moves one byte per action (`WriteByte`, `ReadByte`), `ReadLength` decides on the prefix. `Attach`, `InitWritePos`, `InitReadPos` are the constructor, `Detach` the destructor or a crash anywhere. `queue` and `got` are history |
| `AdsRealtimeEngine` | the engine, with the router as far as the engine relies on it | one action per step of each call that another thread can come between: `AddBegin` / `AddNotification` / `AddInsert` (allocation, router, map), `AddFail`, `StopBegin` / `StopLock` / `StopDel` / `StopClear`, `DestroyBegin` ... `DestroyFree`; `CbEnter` / `CbCall` / `CbReturn` on the router's thread. `live` is the set of addresses that hold a `VariableHandle` |
| `MqttPublisher` | the publisher, with the Paho client, link and broker as externals | `ConnectBegin/Store/Fail`, `DisconnectBegin`, `ClientDisconnect`, `DisconnectReturn`, `PublishLoad` (check of `connected_`), `PublishSend`; `ConnectAnswer`, `LinkDrop`, `AutoReconnect`, `Deliver` are external |
| `SampleFeed` | what the bridge promises about samples | abstract: samples are reported while the feed is open, and each is delivered once and in order, or lost; what a lost connection takes is a run of consecutive samples |
| `Bridge` | main.cpp, composed of the engine and the publisher with INSTANCE | `main` is the main thread's next statement; `SignalHandler`, `MonitorCheck`, `MonitorReport`, `Notification`, `Callback`, `CallbackPublish`, `CallbackReturn`. The Linux build skips the engine |
| `RtssMemoryPool` | rtss_integration.hpp:140-196 | `Draw` (`next_index_++`), `Take` / `Miss` (compare-exchange), `Fail`, `Deallocate`; `held`, `free`, `missed` are history |
| `RtssThread` | rtss_integration.hpp, the Windows fallback of `RtssThread` with `RtssAdsHandler`'s loop as one of its tasks | `Start` / `Resume`, `StopBegin` / `Close`, `DestroyBegin` for the owner; `LoopEnds`, `TaskReturns` for each thread that was ever created. `abandoned` and `replaced` are history: the threads that `stop` gave up on, and those whose function a later `start` assigned to |
| `RtThread` | linux_rt_preempt.hpp, `RtThread`: any number of objects in a process | `StartBegin` / `LockAll` / `Create` or `CreateFails`, `StopBegin` / `Join` / `UnlockAll`, `DestroyBegin`; `LoopEnds`, `TaskReturns` for the thread. `unreturned` and `unlocker` are history: who locked the memory and got no thread, and whose `stop` unlocked it |
| `RtPeriodicTask` | linux_rt_preempt.hpp, `RtPeriodicTask` with `RtLatencyTracker` and `wait_until_ns`, over `RtThread` (INSTANCE), beside other `RtThread`s | the owner's calls `Start`, `Created`, `Stop`, `Destroy`, `InCall`; the loop's statements `Begin`, `CheckRunning`, `CheckStopped`, `TaskReturns`, `EndIteration`, `WaitOver`; `Tick` is the clock |
| `PlcDiscovery` | plc_discovery.cpp | `StartCheck` / `StartSet` / `StartSpawn`, `StopCheck` / `StopClear` / `StopJoin`, `DestroyBegin`; `UserLock` / `UserUnlock` for the functions under the mutex; the loop from `LoopHead` through `Ping`, `RouteLock` to `Sleep` |
| `VariableBatch` | variable_batch.hpp and a receiver that follows its format comment | `add_variable`, `Flush` (`serialize` and `clear`), `Tick`; `Framed` and `serialize` produce the bytes, `Cut` and `Parse` take them apart |
| `PayloadCompression` | payload_compression.hpp | pure operators. `PutOut` is a coder's loop: the token at each index it comes by (`RleToken`, `RleMeaning`, `DictToken`) says what is put out and how far the loop moves on; `DictRound` is one round of the dictionary decoder, which looks back at its own output. From these: `RleCompress`, `RleDecompress`, `DictCompress`, `DictDecompress`, `compress_auto`, `decompress` |
| `CompressedPayload` | binary_payload.hpp and compressed_payload.hpp with a lossy link and a receiver that counts losses | `create_single_compressed`, `create_batch_compressed`, `set_compression_enabled`, `Lose`, `Receive`; `decompress_payload` as an operator |
| `MC*` | the instances TLC checks | sizes, bounds, and the stuttering step of something that has ended. `MCThreads` and `MCPayload` hold components that share nothing: `subject` is chosen at the start and only that component moves |
| `*Proofs` | theorems | see Proofs |

Operators marked `mutant` are not part of a specification. Each is a plausible
bug in one definition; `PROJECT.json` says which property it breaks.

Abstractions. In the ring, messages are model values with a length; byte k of the
record of message m is the pair <<m, k>>, so any mixture of two records shows. The
PIDs and `buffer_size` in the header are written and never read and are left out.
What the bridge publishes is a sample's number and, for each of the four bytes of
the value, which byte of the sample it is, if it is one;
names, topics, logging, thread priorities and time stamps are left out. A
`VariableHandle` is its address; `hUser` is the address modulo `UserRange` (2^32
in the code). `next_index_` is kept modulo `PoolSize`, the only way it is used.
`RtPeriodicTask` keeps time relative to `next_wake`, so that a task may run for
ever, and of the tracker only its extremes. `RtssThread` treats the plain bool
`running_` as really read on every turn, because the loop calls functions the
compiler cannot look into; once the object is destroyed the loop polls freed memory and
may find anything there.
The payload modules do work on bytes, because the framing is what their properties
are about; the coders' constants all follow from the number of values of half a
byte (`Nibble`, 16 in the code), so that short inputs reach every limit.

## Assumptions about the environment

- *Ring.* One writing and one reading process, as the class comment intends. The
  mapping is gone, and a new one is zero, when the last handle is closed
  (Windows). In the run `ring`, and in the theorems, only the writer creates
  (`Creators`): if both may create, the
  creator's late `write_pos.store(0)` can erase a message that the other side has
  already been told was accepted. With `Creators = {"writer", "reader"}` TLC
  finds a violation of `EqualCursorsMeanEmpty` after eleven states.
- *Engine.* `DelDrains`: deleting a notification, and closing the port, waits for
  its running callback. The code depends on it: with FALSE `stop` frees a handle a
  callback is using. `DelMayFail` is FALSE: the result of
  `AdsSyncDelDeviceNotificationReqEx` is ignored (line 189), and a delete that
  fails leaves a notification with a dangling pointer. `Reconnects` is FALSE, as
  main.cpp connects once: a second `connect` forgets the first port, whose
  notifications `stop` then cannot delete. The destructor runs when no other
  thread is inside the engine.
- *Publisher.* Paho's answer to `connect` comes (it has a timeout); `publish`
  throws unless the client is connected; QoS 0 with a clean session loses what is
  in flight when the link drops. One thread connects and disconnects.
- *Pool.* A thread returns only entries it was given.
- *RtssThread, RtThread, RtPeriodicTask.* Each object has one owner, who calls
  `start`, `stop` and the destructor, as the examples do. `mlockall` and
  `pthread_create` may fail, a task may end by itself. `Careful`: the owner of a
  periodic task starts only what is stopped and stops before it destroys, as
  examples/linux_rt_example.cpp does (see below for what happens otherwise). Any of the
  objects in a process lock its memory (`LockMemory`), as is the default.
- *PlcDiscovery.* One thread starts and stops discovery (`Controllers`), any number
  use the functions under the mutex; the destructor runs when no other call is in
  progress. A lost ping takes as long as the socket's timeout.
- *Payloads.* `get_timestamp_us()` does not advance within one `create_*` call. The
  receivers are not part of the repository; they do what the format comments and
  the header's fields (`// Sequence fuer Lost-Detection`) are for. A receiver that
  counts modulo `SeqWrap` can only tell fewer than `SeqWrap` losses in a row.

## Runs

| Run | Instance | Shows |
|---|---|---|
| `ring` | 9 bytes, prefix of 2, messages of 2, 4 and 5 bytes, read buffers of 2 and 5; 77 000 states | `TypeOK`, `RecordsIntact`, `NoTornRead`, that the ring implements `MessageQueue` (`DeliversInOrder`), with crashes and returns of either side at any point, and that two sides that keep calling keep succeeding, whatever was refused before (`KeepsMoving`) |
| `ring_exact_fill` | 8 bytes, records of 4 | violated `EqualCursorsMeanEmpty`: two records fill the ring, the cursors are equal, and the full ring reads as empty |
| `engine` | two calling threads, three addresses, three notification handles; 21 000 states | `CallbackTargetsLive`, `DestroyedIsQuiet`, `CallbackReachesVariable`, `NeverReplaced`, `StopLeavesOnlyNew`, `LockReleased` in every order of calls and callbacks |
| `engine_stop_race` | as `engine`, two addresses | violated `StopRemovesAll`: `stop` runs between the router's answer and the insertion into the map |
| `engine_truncated` | an address beyond `UserRange` | violated `CallbackReachesVariable`: the pointer does not fit into `hUser` |
| `publisher` | two publishing threads with two messages each; 2 800 states | `FlagMeansSession`, `BrokerInOrder`, `ControlReturns` |
| `bridge` | both builds, three samples; 3 600 states | `ReferencesValid`, `SamplesMeetPublisher`, that the whole implements `SampleFeed` (`ImplementsFeed`), `ShutdownCompletes`, `SampleArrives` |
| `bridge_value` | the same with fewer samples | violated `PublishesValue`: the callback reads one byte late: bytes 2 to 4 of the sample and one beyond it |
| `threads` | one subject at a time: the pool (two threads, two entries), a periodic task beside another `RtThread`, an `RtssThread` started up to three times, `PlcDiscovery` with one controller, one user and two addresses; both `RtThread`s lock memory; 99 000 states | `Exclusive`, `FlagsExact`, `OneThreadPerObject`, `LockFollowsTasks`, `CalledTaskLives`, `OthersAreAbandoned`, `NeverTerminates`, `AtMostOneMoreScan`, `StopsReturn` |
| `payload` | one subject at a time: the payload builder with batches of up to three of three variables, `VariableBatch`, and the coders on every short input; 121 700 states | `PayloadRestored`, `LossesShow`, `ReceiverRecovers`, `NoneLostOrRepeated`, `CodersRestore` |
| `payload_bytes` | the payload builder | violated `BytesComeBack`: a literal byte loses its top bit |
| `pool_exhausted` | two threads, two entries | violated `FailsOnlyWhenExhausted`: one call draws the same taken entry twice while the other entry is free |

Each passing run checks the type invariants of its modules too.

Why the bounds are enough.

- *Ring.* A record in the ring of 9 bytes takes 4 or 6 bytes, so prefixes and
  payloads wrap at different places, the ring gets full, empty, and refuses
  ("huge" exceeds half the buffer; "long" exceeds the smaller read buffer and stays
  where it is until the larger one comes). All record lengths are even and the ring
  is odd, so no write fills it exactly; this is the instance of the condition `NeverFillsExactly` under which the theorems hold for every size.
- *Engine.* Three addresses and handles let two variables be registered while a
  third is in the making, and let the router give out a handle again after `stop`
  deleted it. All its safety properties but `StopRemovesAll` are proved for every number.
- *Bridge.* Three samples: one at the broker, one on the link and one in the
  callback.
- *Threads.* Two threads on two entries make every claim contended. `MaxLate` = 2 periods lets the periodic task miss a wake-up
  altogether; the other `RtThread` moves freely beside it, and both lock memory. Three starts allow two
  abandoned loops beside a live one. Two addresses let a scan find none, one or
  several PLCs, so that the loop takes the mutex twice in a row. The safety properties of this run are all
  proved for any number, as listed below; what the bounds carry is the liveness.
- *Payload.* The builder's bytes have 16 times 16 values; its variables
  are a long run, a period with top bits set, and many escapes, so that
  each coder wins on some, `MaxVars` = 3 makes the count (`CountWrap` = 2) overflow,
  and four sequence numbers wrap. The link holds one payload, which is enough for
  a receiver that looks at numbers only. `VariableBatch` has names of 0, 1 and 5
  bytes where `name_len` wraps at 4. The coders are given bytes of 4 values
  (`SmallNibble` = 2): a run count of at most 3, matches of 3 and 4 bytes and a
  window of 8, and then every input of up to 7 bytes, and every input without top
  bits of up to 12, so that inputs extend beyond the window and one match. Exempt is what
  has a match exactly a window back (`Restorable`), which takes eleven bytes. The proofs lift all of these bounds.

Where a run may stop: a destroyed engine (`MCEngine`), a destroyed thread object
(`MCThreads`) and a program that has returned from main (`MCBridge`) stutter
explicitly; every other stop would be reported as a deadlock. The `payload` runs say
`CHECK_DEADLOCK FALSE`: a coder's input ends at its bound, and so do losses in a row.

Fairness. Threads inside a call are scheduled (`WF` on the steps inside calls,
never on the decision to begin one), except in the bridge, where main's own
statements are calls. Nothing obliges the two sides of the ring to call (those of
examples/example.cpp:75-101 soon stop): that they do is a hypothesis inside `KeepsMoving`.
Loops of `RtThread`s go on until they have ended, and
the clock of the periodic task ticks. Nothing says that an RTSS loop ends,
within the second that `stop` waits for it or ever. In `PlcDiscovery` the loop's
`lock()` gets the mutex some time although other threads keep taking it (`SF` on
`RouteLock`, what an operating system's mutex provides). Paho answers `connect`, and
takes messages off the link while it holds. Signals, samples, link losses,
reconnects, and everything that users of an object may or may not do are free.
`WF` on whole threads is otherwise enough, since a blocked step (`StopDel` waiting for a
callback, `JoinMonitor` for the monitor) becomes enabled for good.

## Where code and comments disagree

Six are checked by violation runs (see `findings`):

- the ring that was filled exactly and reads as empty (`ring_exact_fill`);
- the `stop` that misses a variable in the making (`engine_stop_race`);
- the pointer truncated to a 32-bit user value (`engine_truncated`);
- the value read one byte late, as `pNotification + 1` steps over a packed struct of 17
  bytes whose last byte is the sample's first (`bridge_value`);
- the pool that gives up too early (`pool_exhausted`);
- the top bit that the dictionary coder drops (`payload_bytes`).

Others were met while modelling and have no run of their own;
where a constant or a property of a module shows one, it is named:

- callbacks run from `add_variable` on; `start` says it "beginnt
  Notification-Handling" (ads_realtime_engine.hpp:52), but no code looks at
  `running_` (`CbEnter` has no such guard);
- `get_statistics` returns zeros: nothing writes `stats_` or `latency_samples_`
  (`StatsTotal`); the report in README.md:179-194 shows counts;
- `connect` uses a fixed AMS NetId and logs `config.ads_target_ip`
  (ads_realtime_engine.cpp:55-70);
- the symbol handle of `add_variable` is never released;
- 100 us become a cycle time of 0 ms (ads_realtime_engine.cpp:133);
- config.ini is read by no code;
- the latency of an iteration that ends before its wake-up time is `end - next_wake`
  in unsigned arithmetic, close to 2^64 (linux_rt_preempt.hpp:221); and the first
  iteration begins at once, the second two periods later
  (`RtPeriodicTask!LatencyIsLateness` is violated at once);
- the creator of the ring's mapping stores 0 to the cursors when the other side may have
  written already (shared_memory.hpp:74; `Creators`, see above);
- `munlockall` ends the lock of the whole process, and `lock_memory` is the default
  ("mlockall fuer no page faults", linux_rt_preempt.hpp:30): in the instance of the run
  `threads` the `stop` of one `RtThread` violates `TasksNeverFault` of module `RtThread`,
  and `LockFollowsTasks` says that this is the only way to lose the lock;
- when `pthread_create` fails after `mlockall`, the memory stays locked until another
  `RtThread` stops (linux_rt_preempt.hpp:81; `unreturned`);
- the pre-faulting of `RtThread`'s stack puts an array as large as the whole stack on it;
- `start` on a running periodic task replaces the function that the loop is calling, and
  destroying it without `stop` destroys that function before the loop is joined
  (linux_rt_preempt.hpp:235): `Careful = FALSE` violates `CalledTaskLives`;
- `RtssThread::stop` closes the handle after a second whatever the thread does, and
  the next `start` sets the flag that the old loop still polls and assigns to the
  function it is in: two loops run in one object, or one in an object that is destroyed
  (the states that `OthersAreAbandoned` confines to abandoned threads are reachable);
- `startAutoDiscovery` tests and sets its flag without the mutex: with two
  `Controllers`, `NeverTerminates` is violated, since the second assigns to a thread
  that is joinable; when `std::thread` throws the flag stays set (`StartFails`);
- the batch timeout is only looked at when another variable is added
  (variable_batch.hpp:45);
- a match whose offset is the whole window, 4096, does not fit into its 12 bits
  ("[1][offset:12bit][length:4bit]", payload_compression.hpp:162) and is decoded as 0
  (`Restorable`);
- a compressed single payload is decompressed as a batch, under the comment "Original
  Header wiederherstellen" (compressed_payload.hpp:138-143; `PayloadRestored` says exactly
  which payloads get which header);
- an entry that is added between `serialize` and `clear` is lost (variable_batch.hpp:101);
- `decompress` never ends on a match that is cut off (payload_compression.hpp:166;
  `DictDecompress` yields `Diverges`);
- the README's "Fixed-size Header: 18 bytes" is 20 bytes in binary_payload.hpp.

## Proofs

Every safety and action property that a passing run checks is a theorem, and so are
the two refinements. TLAPS proves them for every value of the constants that the named
assumptions allow, which say no more than what kind of value a constant is
(`RingAssumption`, `EngineAssumption`, `PoolAssumption`; `NibbleAssumption`: a byte has a
top bit; `PayloadAssumption`: names and data are bytes; `BatchAssumption`,
`SmallNibbleAssumption`), and under the hypotheses each theorem states:

| Module | Theorem | Statement | Hypotheses |
|---|---|---|---|
| `SharedMemoryRingBufferProofs` | `TypeCorrect` | `[]TypeOK` | - |
| | `RecordsStayIntact` | `RecordsIntact` | only the writer creates; `NeverFillsExactly` |
| | `NoReadIsTorn` | `NoTornRead` | the same |
| | `RingImplementsQueue` | the ring implements `MessageQueue` (`DeliversInOrder`) | the same |
| `AdsRealtimeEngineProofs` | `EngineTypeCorrect` | `[]TypeOK` | - |
| | `CallbacksAreSafe` | `CallbackTargetsLive` | `Environment` |
| | `DestructionIsClean` | `DestroyedIsQuiet` | `Environment` |
| | `CallbacksFindTheirVariable` | `CallbackReachesVariable` | `Environment` |
| | `VariablesAreNotReplaced` | `NeverReplaced` | `Environment` |
| | `StopMissesOnlyNew` | `StopLeavesOnlyNew` | `Environment` |
| `MqttPublisherProofs` | `PublisherTypeCorrect` | `[]TypeOK` | - |
| | `FlagIsTrue` | `FlagMeansSession` | - |
| | `PublishersInOrder` | `BrokerInOrder` | publishers number their messages (`MCMsgs`) |
| `BridgeProofs` | `ReferencesAreValid` | `ReferencesValid` | `RouterAndHeap` |
| | `SamplesFindPublisher` | `SamplesMeetPublisher` | `RouterAndHeap` |
| | `ComponentsInProgram` | in the program, engine and publisher behave as their own specifications say | - |
| | `BridgeTypeCorrect` | `[]TypeOK` | kinds of values of `Addrs`, `UserRange`, `DelDrains` |
| | `BridgeImplementsFeed` | the program implements `SampleFeed` (`ImplementsFeed`) | `RouterAndHeap` |
| `RtThreadProofs` | `ThreadTypeCorrect`, `OneThread` | `TypeOK`, `OneThreadPerObject` | - |
| | `LockCorrect` | `LockFollowsTasks` | the objects that lock memory are objects of the process |
| `MCThreadsProofs` | `PoolTypeCorrect`, `PoolSafe` | `TypeOK`, `Exclusive` and `FlagsExact` of the pool | - |
| | `RtssTypeCorrect`, `RtssOnlyAbandoned` | `TypeOK`, `OthersAreAbandoned` of `RtssThread` | the null handle is no thread's |
| | `PeriodicImplementsThread` | `RtPeriodicTask` beside other `RtThread`s implements `RtThread` | - |
| | `PeriodicTypeCorrect` | `TypeOK` of `RtPeriodicTask` | numbers are natural |
| | `TaskLives` | `CalledTaskLives` | `Careful`; the task is not one of the `Others` |
| | `OneControllerIsSafe`, `OneMoreScan` | `NeverTerminates`, `AtMostOneMoreScan` | one controller |
| | `DiscoveryTypeCorrect` | `TypeOK` of `PlcDiscovery` | numbers are natural |
| | `ComponentsBehave` | each subject of `MCThreads` behaves as its own specification says | - |
| | `MCTypeCorrect`, `MCExclusive`, `MCFlagsExact`, `MCOneThread`, `MCLockCorrect`, `MCTaskLives`, `MCOnlyAbandoned`, `MCNeverTerminates`, `MCOneMoreScan` | the properties of the run `threads` | those of the component |
| `PayloadCompressionProofs` | `RleUndone` | `RleRestores`, and the result is bytes | - |
| | `DictUndone` | `DictRestores`; the decoder ends, with as many bytes | - |
| `MCPayloadProofs` | `MCCodersRestore` | `CodersRestore` | - |
| | `MCPayloadRestored` | `PayloadRestored` | - |
| | `MCLossesShow` | `LossesShow` | - |
| | `MCPayloadTypes` | `MCTypeOK` | - |
| | `MCNoneLost` | `NoneLostOrRepeated` | - |
| | `MCReceiverRecovers` | `ReceiverRecovers` | - |

Every hypothesis is needed. `ring_exact_fill` refutes the ring without the second one, and
the note on `Creators` above without the first. `Environment` collects what the engine
relies on (`DelDrains`, no `DelMayFail`, no `Reconnects`, addresses below
`UserRange`): `engine_truncated` shows the last one, the notes above the others;
`RouterAndHeap` is what is left of it for the bridge, whose main connects once. A
second controller and an owner who is not `Careful` are counterexamples of the list in the
previous section.

Few of the properties are inductive. What they rest on:

*The ring.* `Inv` uses `Gap(from, x)`, the way from one offset to another round
the ring, as the measure:

- `Layout`: the accepted records lie one behind the other from `read_pos` to
  `write_pos`, in the order of the queue, none longer than the way that is left;
- `WriterInRoom`: a writer past its check has `w.pos = write_pos`, its record
  fits between `write_pos` and the *current* `read_pos` (the stale one only underestimates
  the room), and what it has copied is there;
- `ReaderOnRecord`: a reader whose loaded limit differs from `read_pos` has a
  record to read, and a copying one stands on the oldest;
- `FreshMapping`: a mapping that is being initialised, or that nobody holds, is blank.

The argument in one line: a byte the writer fills is at least `Gap(read_pos,
write_pos)` and less than one turn away from `read_pos`, every byte of an
accepted record is nearer (`PlacesDiffer`), and when the reader moves on all
distances shrink by the same amount (`GapShift`). The lemmas follow the actions,
one each; `NextKeeps` and `NextRefines` collect them. The refinement maps
`WriteStore` to `Send` and `ReadStore` to `Receive`; loads and single bytes stutter.

*The engine.* `Inv` says who owns what at each moment:

- `Holder`: the mutex belongs to the one caller that is deleting, and what it has
  still to visit is registered;
- `LifeCycle`: the destructor is alone, and what it leaves is nothing;
- `Owners`: each `VariableHandle` has one owner, an `add_variable` or the map, and no
  two owners share an address;
- `Routed`: each notification leads to a variable that is registered and not yet
  visited by `stop`, or to the one that an `add_variable` is about to insert;
- `InCallback`: a running callback has the address of its notification or, when that
  was deleted meanwhile, of a variable that is still in the map.

`StopDel` may only pass when no callback of its notification runs (`DelDrains`), so at
`StopClear`, where addresses are freed, `Routed` and `InCallback` leave no one who
knows them. `AddInsert` finds its handle free since `Routed` keeps the handles
of pending insertions out of what is registered. One lemma per action.

*The publisher.* `FlagAndCalls`: inside `disconnect` the flag is clear; with the flag set
the client has a session, so `connect`, which the client then refuses, begins with a
clear flag. For the order at the broker, `Rising`: the numbers rise along the broker, the link
and the message inside `publish`, each publisher's own number being the upper bound (`Below`).

*The bridge.* `BridgeInv` follows main: `Stages` says for each of its statements what
the engine may be doing (nothing is notified before `add_variable` nor after the
`stop` that main waits for, in between notifications belong to registered variables),
`Targets` that notifications and callbacks lead to handles that exist, `Others` that the
publisher is open and the monitor thread lives in between. The two safety properties follow
at once. `ComponentsInProgram` maps every step of the program to a step of
`AdsRealtimeEngine` called by main alone, and of `MqttPublisher` with the router's
thread as the one that publishes, so their theorems hold in it: the types come from there.
For the refinement, what the lambda is about to publish is the latest sample
(`SampleInHand`), so publishing moves it from the callback to the end of the link and leaves the
samples on their way as they were, while a refused `publish` drops the last of them; a link that
goes takes all that is on it, a run in front of what is in the callback; and samples are
reported only while the feed is open (`Stages`). `SampleFeed` opens with `add_variable`
and closes with the `stop` of main or an early exit (`FeedMoves`).

*The threads.* `RtThread`: a thread that is not joined is `Known` (its flag is set
or its owner waits for it), which excludes a second `start`; the lock is `Accounted`
for, and each object that locks is `LockedFor` unless the last to unlock was another
(`unlocker`), however many lock. `RtPeriodicTask` takes its `start`,
`stop` and loop from `RtThread` (`PeriodicImplementsThread`), so `Known` holds in it, and with it
`CalledTaskLives`: the loop has a place exactly while its thread exists
(`LoopIsThread`), and a `Careful` owner assigns or destroys the stored function only
where `Known` leaves no thread, so what the loop calls is what is stored
(`TaskIsStored`, `TaskIsCalled`). Its `TypeOK` needs `DueInPeriod`: where the loop
looks at the clock, the wake-up is at most one period away. `RtssThread`: `OwnThread` ties the
handle to the flag, so where `start` does not refuse every thread that executes, and whose
function it replaces, is an abandoned one. `PlcDiscovery`: `FlagCoversThread` (a thread exists only while the
flag is set or a join is pending) and `LastScan` (after the flag is
cleared the loop is in the scan it had decided on, or past it). The flags of the pool are
exact, by case on who holds an entry; exclusiveness follows.

*The coders.* What a recursive function computes for all inputs is proved by induction in
the form of a set: the indices at which a statement fails have, if there are any, a last
one (for what is computed from the end) or a first one (for what is computed from the
front), by `NatLessThanWellFounded` and `WFMin`, which take a set and no operator.
That the recursive functions of the model exist is proved the same way.
`PutOut` is thereby a concatenation of tokens. Run-length coding: the decoder, standing at the
beginning of the bytes of a token, reads that token, puts out the bytes it stands for and
stands at the next; whence `RleUndone`, runs at the limit of the count and escapes
included. Dictionary coding: after the rounds for the first tokens the decoder has put out as
many bytes as these stand for; each equals the original up to its top bit, because a
match's offset, which is less than the window if the data are `Restorable`, survives its 12 bits, and copying byte by byte reads what the match itself has
just put out. Where the offset is the whole window only the number of bytes is right, which
is what the length and the end of the decoder need.

*Payloads.* `LinkInv`: each payload on the link is `Sound` (its bytes are those
that `compress_auto` chose for its original, and `RleUndone` and `DictUndone` say what
comes back), and the numbers on the link run on from the receiver's `expected`, over `lost`, to
`sequence_counter`, which makes the gap the number of losses.

*Batches.* `BatchInv`: what was sent and what waits together run on (`RunOn`) to
`next`, and `sent.bytes` is the serialisation of `sent.entries`. For the receiver, a
frame is taken apart into its entry (`ParseIs`), and `Cut` finds, from the front of any
concatenation of framed entries, the first frame and is left with the rest
(`WholeBegins`, `CutStep`): by induction on what is left, all the frames.

Only model-checked: all liveness (`KeepsMoving`, `LockReleased`, `ControlReturns`,
`ShutdownCompletes`, `SampleArrives`, `StopsReturn`), since liveness
under fairness and ENABLED are beyond the prover. The properties of the violation runs are
false of the code. No module uses RECURSIVE.

## Plan

All the components that have behaviour of their own are modelled. What would
be next:

1. the liveness properties' safety cores as theorems, such as the absence of a
   deadlock of `PlcDiscovery`'s join and mutex, which needs no ENABLED when stated
   over guards;
2. `RtssTimer`: its busy wait on the performance counter, whose conversion of
   frequencies is arithmetic without interleaving;
3. the engine with reconnection, once the code deletes the old port's notifications.

## Not modelled

The dashboard, the examples (used only to see how the headers are called), the
vendored TcAds headers and DLL beyond what the engine relies on, the Windows and Linux
calls that set priorities, CPU affinity and timers' resolution, configuration
data, build scripts and CI. Of modelled components: `RtssTimer`'s arithmetic and the
stubs of `RtssAdsHandler`, which do nothing yet; what the functions of `PlcDiscovery`
do under the mutex (mostly a TODO in the source, the rest builds lists and strings);
the average of the latency tracker; `get_statistics`'s percentiles, computed over
samples that nothing writes.
