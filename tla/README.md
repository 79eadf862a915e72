# TLA+ models of sofa-pbrpc

sofa-pbrpc is a C++ RPC library on top of boost asio. This directory holds TLA+
models of its core, the TLC configurations that check them on small instances
and TLAPS proofs of what matters most for every value of the parameters. All
source paths below are relative to `src/src/sofa/pbrpc/`.

## 1. Inventory

| Part | State | Operations | Hard behaviours | What makes it correct |
|---|---|---|---|---|
| **Byte stream** `rpc_byte_stream.h`, `rpc_listener.h` | `_status`, connect timer, socket | `async_connect`, `on_connect`, `on_connect_timeout`, `set_socket_connected`, `close` | `close` swaps atomically, all other writes of `_status` are plain stores after a check | `on_closed` once per passage into CLOSED; CLOSED final; a connect ends |
| **Message stream** `rpc_message_stream.h` (client), `rpc_server_message_stream.h` (server) | send and receive token, pending and swapped queue, message being sent, quota tokens | `async_send_message`, `try_start_send`, `on_write_some`, `try_start_receive`, `on_read_some`, `trigger_*` | threads race for the tokens; lost wakeups; suspended reading; a timer triggers from outside | one owner per token; FIFO; nothing stranded; each message reported once |
| **Flow controller** `flow_controller.h` | two quota pools | `acquire_*`, `recharge_*`, `reset_*` | compare-and-swap loops, debt below zero | grants bounded by the slices |
| **Client stream, controller** `rpc_client_stream.h`, `rpc_controller_impl.h`, `wait_event.h` | controller map, `_is_done`, callback stack, cancel flags | `call_method`, `on_received`, `on_closed`, `Done`, `WaitDone` | response, timeout, close and cancel race | each call done exactly once, callbacks in reverse order |
| **Client** `rpc_client_impl.cc` | stream map, sequence ids, `_is_running` | `Start`, `Stop`, `CallMethod`, `FindOrCreateStream`, `OnClosed`, `TimerMaintain`, `ResetOptions` | a closed stream replaced while its `OnClosed` runs; `Stop` against calls | at most one usable stream per endpoint and it stays in the map |
| **Request timeouts** `rpc_timeout_manager.h` | add list, erase set, event table | `add`, `erase`, `timer_run`, `stop` | three locks taken one after the other | a call that is not done times out; an erased one leaves the table |
| **Server** `rpc_server_impl.cc`, `rpc_listener.h` | listener, stream set, `_is_running`, thread groups | `Start`, `Stop`, `RestartListen`, `OnAccepted`, `OnClosed`, `TimerMaintain` | maintenance against `Stop`; count then insert | `Stop` terminates and leaves no stream; connection limit |
| **Server stream, requests** `rpc_server_stream.h`, `rpc_request.cc`, `binary_rpc_request.cc`, `http_rpc_request.cc` | pending process count | `ProcessRequest`, `CallMethod`, `OnCallMethodDone`, `send_response` | responses after the stream is gone, timeouts in the queue | each request answered at most once, count returns to zero |
| **Framing** the two stream headers, `binary_rpc_request_parser.cc`, `http_rpc_request_parser.cc` | header and body counters | `split_and_process_message`, `Parse` | any split of the bytes over reads | messages independent of the split |
| **Service pool** `service_pool.h` | service map, ring of statistics slots | `RegisterService`, `FindService`, `NextSlot` | slots move under running calls | sums over the last slots |
| **General timeouts** `timeout_manager_impl.cc` | event table | `add`, `add_repeating`, `erase`, `timer_run`, `stop` | a repeating event is out of the table while it is rescheduled | one final callback per event |
| **Dynamic channel** `dynamic_rpc_channel_impl.cc` | live and unlive map, added set | `ChooseServer`, `CallDone`, `MoveTo*`, `OnAddress*`, `TimerDetect` | results for a removed and re-added address; check then act on load | maps partition the added addresses |
| **Buffers** `buffer.cc`, `tran_buf_pool.h`, `block_wrappers.cc` | blocks with reference counts | `Append`, `Next`, `BackUp`, `Reserve`, `SetData` | blocks shared by stream and messages | no block freed while used |
| **Threads and timers** `thread_group_impl.h`, `io_service_pool.cc`, `timer_worker.h` | worker threads, strands | `post`, `dispatch`, `stop` | `stop` joins threads that may be blocked | handlers of a timer never overlap |
| **Web and builtin services** `web_service.cc`, `builtin_service_impl.cc` | servlet map | routing, pages | copy on write of the map | not planned, formatting |
| Locks, atomics; compression, JSON; closures, smart pointers; profiling; mock support, agents, samples | | | | primitives, vendored, generated or separate programs; not modelled |

How they interact. `RpcClientImpl::CallMethod` finds or creates a client stream,
registers the call in the stream's controller map and in the timeout manager,
and sends it with `async_send_message`. The message stream is driven by io
threads (`on_write_some`, `on_read_some`), by callers, and by the maintenance
timer, which recharges the flow controller, triggers streams that were refused
quota and closes idle ones. The base class calls `on_closed` when the connection
ends, which completes the calls and takes the stream out of the client's map or
the server's set. On the server the listener creates streams, the stream cuts
requests out of what it reads, and a request is processed on the thread that
read it (or later) and answered through `send_response`.

## 2. Plan

Done, in this order:

1. `ByteStream`, `MessageStream`, abstract `SendQueue`: the data path every call
   depends on. `MessageStream` composes the steps of `ByteStream` with its own, so
   the life of the connection is checked and proved together with what runs on it.
2. `FlowControl`: the quota pool with its streams, the maintenance timer and
   `ResetOptions`.
3. `RpcCall`, abstract `RpcPromise`: controller, controller map, stream map and
   timeout manager of the client as one composition; `ClientStop` extends it by the
   end of the client.
4. `ServerLifecycle`: start, stop, restart of the listener, the stream set and
   the connection limit.
5. `TimeoutManager`, the general one, and `DynamicChannel`.
6. `ReadPath` and `WritePath`: the bytes between the connection and the messages,
   with the blocks that carry them.
7. `ServicePool`: registration, lock-free lookup and the ring of statistics.

Left: a call that is under way when the client is stopped (see section 8), the
`on_sent` flag of a call, the
dispatch of a request to its method, `ThreadGroup::start` and `stop`, the copy on
write of the servlet map of `WebService`.

Modules meant for proofs declare no RECURSIVE operator; parameters carry named
assumptions; each operation is one action per access to shared state.

## 3. The modules

### ByteStream

One connection, shared by the threads in `Workers` (io and user threads) and the
maintenance thread `Timer`. `pc[t]` is the next step of thread t inside the class.
The source's check-then-store sequences are two actions: `OnConnect` (the checks
and hooks of `on_connect`) and `StoreConnected` (the store), `Accept` and
`StoreConnected` on the server, `OnConnectTimeout` (check) and `Close` (swap).
`close()` itself is two actions because the hook runs after the swap. `revived`
counts the stores that overwrote CLOSED; it is a history variable, as is
`closedRuns`, the number of completed calls of `on_closed`.

The initial state is the one in which the stream has become visible to others:
in the client `FindOrCreateStream` has put it into the map and released the lock,
in the server `OnAccepted` may have put it into the set. The module has no
specification of its own: its steps are those of `MessageStream`, which says what
runs on the connection between them.

### MessageStream

Extends `ByteStream` by the queues, tokens and operations of both stream classes,
whose code is the same here except that a server also checks its queue before
it reads. `Role` selects the class. One action is one access to shared state.

| Model | Code |
|---|---|
| `pending`, `swapped`, `sending` | `_pending_calls`, `_swapped_calls`, `_sending_message` |
| `sendToken`, `receiveToken` | `_send_token`, `_receive_token` |
| `writeQuota`, `readQuota` | `_write_quota_token`, `_read_quota_token`; 1 for > 0 and 0 for <= 0 |
| `writes`, `reads` | asynchronous operations in flight |
| `ret` | where `try_start_send` or `try_start_receive` returns to: nowhere, the second trigger after the connect, the delivery of what was read, or the server's `try_start_receive` after a send |
| `outcome` | the callback a message has received |

A message is a model value of size one. `MaxParts` bounds the writes one message
takes, `MaxReceived` the messages that arrive; a server sends at most one message
per message received. `acquire_*_quota` is a nondeterministic answer when
`FlowControl` is TRUE: the pool is shared with other streams. `OnWriteSome` and
`OnReadSome` have one disjunct per way the handler can go: not connected, error,
more to do, finished. `Deliver` is the loop that hands messages to the upper
layer after the next read has been started. `TimerMaintain` is the flow control
part of both maintenance routines for one stream: decide by the quota token,
trigger as a later step.

### SendQueue

What a user of `async_send_message` may rely on while the stream lives: refuse or
accept, one FIFO queue, at most one callback per message, given in queue order.
`MessageStream` implements it with `queue <- InHand \o swapped \o pending`.

### FlowControl

One direction of the throughput limit for all streams of a client or server. The
two directions are the same code with other names; the model follows writing.

| Model | Code |
|---|---|
| `noLimit`, `quota` | `_write_no_limit`, `_write_quota` |
| `sliceQuota` | `_slice_quota_out` |
| `token` | `_write_quota_token` of each stream |
| `old`, `told` | `old_quota` in the loops of `acquire_write_quota` and `recharge_write_quota` |
| `tpc`, `unread`, `list`, `turn` | `TimerMaintain`: its step, the streams not collected yet, `trigger_list`, the stream being triggered |
| `granted`, `budget`, `slices`, `refused` | history of a window of slices |

A compare-and-swap loop is a read and a swap that may fail; as in the code, a
failed swap reads the quota again and not the flag. The two stores of
`reset_write_quota` are two actions. A stream is reduced to the one thread that
holds its send token, from `try_start_send` to the end of the write. The history
lets each recharge either extend the current window or begin a new one, so that
`ThroughputBound` speaks of every window of slices.

### RpcCall

The calls to one endpoint, from `RpcClientImpl::CallMethod` to the callbacks of
`RpcControllerImpl::Done`, over several streams that replace each other. The
user's thread of call c is c itself, `Workers` run the handlers of the streams,
`Timer` runs `RpcTimeoutManager::timer_run`.

| Model | Code |
|---|---|
| `streamMap`, `status` | the entry of `_stream_map`, `is_closed()` of each stream |
| `controllers`, `queued`, `wire` | `_controller_map`, the send queue, requests written and not answered |
| `done`, `result`, `timeoutId` | `_is_done`, `_error_code`, whether `_timeout_id` is not 0 |
| `addList`, `eraseSet`, `events`, `tmpAdd` | the lists and the table of the timeout manager, the list `timer_run` has swapped out |
| `pc`, `at`, `on`, `code`, `todo`, `ret` | of each thread: step, stream, controller, error code, controllers left, where `Done` returns to |
| `notified` | how often the user's callback ran (history) |

A locked section or an access to shared state is one action: the check of
`is_closed()` in `call_method`, the insertion into the map, the check in
`async_send_message` and the enqueueing are four, and `on_closed` can fall between
any two of them. The swap of `_erase_set` is one action with the merge that
follows it, which touches only what `timer_run` owns. A handler may run
`on_sending` or `on_received` after its stream was closed, as both are called some
steps after the last check. A stream is usable from its creation to `close()`;
the send queue and the connection are those of the other two modules, with one
difference: a stream here does not come back from CLOSED (the first finding
below), and what that would do to the stream map is not examined. Every call
has a positive timeout: `FillFromMethodDescriptor` makes it at least 1 ms. The error codes are reduced to timed out and
otherwise failed.

### ClientStop

`RpcClientImpl::Stop()`, over the calls of `RpcCall`, whose actions it takes over
with the guards that a stop adds.

| Model | Code |
|---|---|
| `phase` | the next step of `Stop()`: "running" is `_is_running`, of the client and of its timeout manager; "aborted" that an assertion has failed |
| `passed` | threads inside `OnClosed` or `timer_run` that read `_is_running` before it was reset |
| `Stopper`, `Keeper` | the user's thread in `Stop()`, and the second maintenance thread, which runs keep alive |

`BeginStop` and `ClearEvents` are `RpcTimeoutManager::stop()`, `StopStreams` closes
the stream with `_stream_map_lock` held (`MapLocked`) and runs its `on_closed` on the
thread of `Stop()`, `JoinWork` and `JoinMaintain` wait for the threads. Between the
two the timeout manager is gone while the maintenance threads still run: a
`DoneCallback` there fails the assertion of `operator->` (`Abort`; the Makefile does
not define NDEBUG). `Stop()` begins when no thread is inside `CallMethod`, but for
those that wait.

### RpcPromise

What the user of `CallMethod` relies on: a call ends at most once and its result
does not change. `RpcCall` implements it with the result that the callbacks have
reported.

### ServerLifecycle

`RpcServerImpl` with its listener and the streams it accepts. The holder of
`_start_stop_lock` is one sequence of steps, whoever the caller of `Start()` or
`Stop()` is; the accept handlers, the ends of streams and the maintenance thread
run beside it.

| Model | Code |
|---|---|
| `running`, `op` | `_is_running`; the next step of `Start()` or `Stop()`, "idle" when `_start_stop_lock` is free |
| `listener`, `closed` | `_listener`; the listener objects that are closed |
| `acceptor`, `incoming` | the chain of `on_accept()` of a listener: step, stream being accepted |
| `status`, `streamSet` | each stream and `_stream_set` |
| `timer`, `ticking`, `crashed` | the maintenance thread, `TimerWorker::_is_running`, the null `_listener` was dereferenced |
| `late` | streams put into the set after `Stop()` had begun (history) |

`OnAccepted`, `CheckCount` and `Insert` are the check of `_is_running`, the count
and the insertion, each under a lock of its own. `JoinIo` and `JoinTimer` are the
joins of the thread groups: they wait until nothing is left to do for them.
`RestartListen` is enabled only while nobody holds `_start_stop_lock`. Stream and
listener objects nobody refers to stand for the next one created. Keep alive,
errors and leaving peers are one action, `CloseStream`.

### TimeoutManager

`TimeoutManagerImpl`. An event is an id that `add()` or `add_repeating()` hands
out.

| Model | Code |
|---|---|
| `table` | `_timeouts` |
| `hand[u]` | events that `erase()` or `clear()` of thread u took out and whose callbacks it has yet to run |
| `tpc`, `expired`, `calling` | `timer_run()`: its step, its local list, the callback it is in |
| `running`, `stopping` | `_is_running`; the destructor waits for the timer thread |
| `finals`, `overdue` | last calls of each event; events called after, or inside a call at the time of, their last call (history) |

`Expire` takes any set of events out of the table: ticks are left out, since which
events expire together depends on nothing else. `CallbackErases` is a callback
that erases an event, its own included, as the comment at
`timeout_manager_impl.cc:136` expects.

### DynamicChannel

`DynamicRpcChannelImpl`. A server context is `<<a, g>>`, the g-th created for
address a, so that results for a removed context and for its successor are told
apart. One action is one section under `_map_lock` or one access outside it.

| Model | Code |
|---|---|
| `live`, `unlive`, `added` | `_live_map`, `_unlive_map`, `_added_set`; 0 is an address that is not in the map |
| `inLive`, `removed`, `inited` | the flags `is_in_live_map`, `is_removed`, `is_channel_inited` of each context |
| `pc`, `on`, `tries` | of each call: step, chosen server, `retry_count` |
| `probed`, `healthy` | contexts with a Health request out; those whose answer is about to move them |
| `stopped`, `aborted` | `Stop()` was called; an SCHECK has failed |
| `gen`, `fromLive` | contexts created so far; calls whose server came from the live map (history) |

`WaitCount` is computed from the calls, as `SimpleRpcChannelImpl` counts them.
Among servers of equal load any is chosen (the code looks at the age of the last
request, and for unlive ones at its result).

### BufHandles

What both buffers are: a list of handles, each of a block and a number of bytes in
it. Sizes are added up by a recursive function (`Sums`), and `InBlock` finds the
handles that refer to a block.

### ReadPath

`on_read_some`, `split_and_process_message`, the request parsers and the
`ReadBuffer` of a message, over transport blocks.

| Model | Code |
|---|---|
| `magic`, `head`, `start`, `kind` | what the peer sends: frames, cut into reads at any place |
| `block`, `filled`, `size` | `_tran_buf`, bytes in it, bytes of it still to process |
| `frame`, `got`, `body`, `parts` | the message being received: header and body counters, `ReadBuffer` |
| `parser`, `busy` | the parser chosen, parsers in use and not reset |
| `refs` | reference counts of the blocks |
| `received`, `held` | messages cut by this read; handed to `on_received` and in use |
| `reading`, `next`, `pos`, `last`, `count` | the cursor of a `ReadBuffer`: `_cur_it`, `_cur_pos`, `_last_bytes`, `_read_bytes` |
| `skip` | what the loop of `Skip()` has still to pass; a step is a round of it, `Next()` and the `BackUp()` of what was too much |

A byte has no content but its position on the wire, which is all that tells a
right message from a wrong one. `magic = 0` is the client, which has one kind of
frame; otherwise the first bytes choose one of the server's parsers.

### WritePath

How a message is assembled in a `WriteBuffer` and leaves through the stream: the
serialisers of the client and the server, the chunked output stream of
`block_wrappers.cc`, the pages of `http_rpc_request.cc`, and the send half of
`rpc_message_stream.h`.

| Model | Code |
|---|---|
| `buf`, `factor`, `writeBytes`, `lastBytes` | `_buf_list`, `_base_block_factor`, `_write_bytes`, `_last_bytes` |
| `content` | the buffer of the content of a page, appended before its head is printed |
| `from`, `left` | `Reserve()`: position of the header, bytes still to reserve |
| `out`, `room`, `eager` | a coded stream or printer: what it has to write, what it holds from `Next()` |
| `raw`, `chunk` | input of the compressing stream |
| `mem`, `refCount` | contents of the blocks, and their reference counts |
| `queue`, `sending`, `cur`, `sendingData`, `sendingSize`, `sentSize` | `ReadBuffer`s queued, the one being sent and the state of the partial write |
| `promised`, `onWire` | the frames as they should be, and the bytes written (history) |

A byte says which message, part and index it is, and bytes of the header say what
they encode, so a wrong size in a header is a wrong byte. A compressed chunk is as
long as its input, with a size before it. Any allocation of the kinds in
`OutOfMemory` may fail; a successful one takes a block nobody refers to, and waits
for one when the bound on blocks leaves none, which never happens in the run.

A buffer that is destroyed or swapped out gives its references back in one step
(`Free`). `Append()` to the `ReadBuffer` takes a reference before the `WriteBuffer`
gives its own back (`SwapRefs`), and a handle without bytes is not appended. The
two are one step because no other thread has the blocks of a message that is being
assembled.

### ServicePool

`ServicePool` and the `ServiceBoard` of each service, whose statistics are a ring
of slots without a lock.

| Model | Code |
|---|---|
| `services`, `lock`, `chain`, `cache` | `_service_map`, `_service_map_lock`, the list from `_head`, `_cache` |
| `slotIndex`, `slotId`, `slots` | `_slot_index`, `_slot_id`, `succeed_count` of each of `_stat_slots` |
| `rest`, `tpc` | the boards the maintenance has yet to move to the next slot; its step |
| `asked`, `board` | of each worker: the name, the board found |
| `index`, `seen`, `left`, `id` | the slot it counts in or reads, the count it loaded, `slot_count` and `slot_id` of `LatestStats()` |
| `published`, `missing` | registrations that returned; a lookup that began after one and has not found it (history) |
| `want`, `since`, `owner`, `due`, `raced` | the slot a reader means to read; the slot when it began; for which slot an element was cleared; reports begun in it; elements with overlapping reports (history) |

`RegisterService` is three actions under the lock (map, link, cache), `FindInCache`
reads without it. `ReportProcessEnd` loads and stores a counter in two actions;
`NextSlot` clears, moves the index and moves the id in three. `LatestStats` reads
`_slot_index` twice in one expression, so it does here. One counter stands for all
the fields of a slot, which are written alike. Two assumptions about time are
guards: the maintenance does not lap the ring within one report (`NobodyCounts`) and
a reader lags by at most one slot (`NobodyLags`). The code, with 602 slots of a
second, makes the same ones.

## 4. Runs

| Run | Instance | Shows |
|---|---|---|
| `stream` | server stream, 2 workers and the timer, `MaxPending = 0`, 2 requests, no flow control, closed by the timer | `ReceiveTokenExclusive`, `TokensReturned`, `NoStrandedSend`, `NoStrandedReceive`, `ReceivingResumes` |
| `stream_flow` | client stream connected under a timeout, limited throughput, messages of up to 2 writes, closed by any of three threads | `SendTokenExclusive`, `ClosedAccounting`, `ClosedIsFinal`, refinement of `SendQueue` (`QueueSpec`) |
| `flow` | 2 streams, requests of 1 or 2, 3 per slice, windows of 2 slices, one reset to no limit or back | `ThroughputBound`, `TokensInOrder` |
| `flow_live` | same, no reset | `PoolRecovers`, `StreamsTriggered` |
| `call` | 2 calls, 2 streams, 1 handler, the timer | `OneUsableStream`, `CallsWatched`, `ControllersExact`, `PromiseKept` (refinement of `RpcPromise`), `EveryCallEnds` |
| `client_stop` | 1 call, 2 handlers, keep alive, the timer and `Stop()` | `StopEndsCalls`, `StopTerminates` |
| `read` | 3 frames, client or server with 2 parsers, blocks of 2 bytes, bodies up to 2 | `MessagesIntact`, `InSync`, `RefsExact`, `CursorExact` |
| `write` | 2 messages of every kind, header 2, meta 1 or 3, body 0, 1 or 4, chunks of 2 | `WireExact`, `CountsExact` |
| `server` | 2 listeners, 3 streams, limit 2 | `ConnectionLimit`, `StreamsTracked`, `StoppedIsQuiet`, `ListenResumes`, `StopEnds` |
| `timer` | 2 one-time and 2 repeating events, 2 users | `LastCallOnce`, `OneTimeNeverAgain`, `DestroyedIsDone`, `EveryTimeoutFires` |
| `dynamic` | 1 address with 2 contexts, 3 calls of 2 threads, capacity 1 | `MapsPartition`, `LoadBound`, `Recovers` |
| `pool` | 2 services in one element of the cache, 2 workers, a ring of 4 slots, periods 1 and 60, 4 moves, 2 reports | `LookupExact`, `StatsExact` |

They take from a few seconds to three minutes and 12 thousand to 7 million states each.
The runs name the properties that can go wrong; the type invariants that are
proved (section 6) are not run again.

Bounds. Two workers and the timer are three threads that can be inside
`try_start_send` at once: one owner, one that lost the race and one that puts a
message or triggers from outside; the recheck scenario the source draws at
`rpc_message_stream.h:555` needs two. Two messages make order
observable; a refused message put back while the other is pending makes both
deques non-empty at once. Two writes per message reach the branch that
continues a message. `MaxPending = 0` with messages of size one makes the
server's suspension happen at the first queued response. Callers of `close` and
the length of a history are bounded only by the threads.

Two calls and two streams let a call find the old stream, replace it, or share
the new one, while the other call, `on_closed` and the maintenance are anywhere.
A stream that is not in the map any more takes no part in later calls, so a third
would repeat the second. What happens to a call at the end of the client depends on
no other call, so `client_stop` has one, and with two handlers, keep alive, the timer
and `Stop()` every thread that may complete it. A response still races the close of its stream, the
timer and the user's thread of its call.

In the flow control, requests of 2 against a pool of 1 leave a debt, and two
refusals per slice against a slice quota of 3 let a debt of several slices build
up and be paid back. A slice quota of at most one unit per refused stream never
recovers; a limit of 1 MB/s is 100 KB per slice, more than the streams of a
process. (A limit of 0 is allowed, and nothing is sent under it.)

Blocks of two bytes against heads of 3 and 5 and bodies up to 2 put every border
of a frame (magic string, head, body, next frame) at the end, the start and the
middle of a block, with several frames in one read and one frame over several
blocks. Three frames let the second one start and end inside what others share. In `WritePath`
blocks of 2 and 5 bytes behind a header of 2 split the header or not, depending on
the factor; a body of 4 is two chunks, one of 1 a part of a chunk, one of 0 none.
Eight blocks are more than two messages take, so running out is the choice of
the model and never the bound.

One listener is replaced by the other and reused after its chain has ended. Three
streams are one more than the limit. Two events of each kind are one that a user
holds and one that the timer holds. Two contexts of one address are
the removed one and its successor, which the results of calls and probes of the
removed one meet. Two threads choose the server of capacity 1 before either call is
counted, so that it gets two calls, all that `LoadBound` allows, and a third call asks
for more. What servers of several addresses have in common is the choice among them,
and a server is chosen only below its capacity however many there are; that this
holds for any number of addresses, calls and threads is a theorem, as
`MapsPartition` is. A ring of 4 slots is
the smallest in which a period of more than one slot exists besides the two slots
that are left out (the current one, and the next); 4 moves go around it once.

Periods of 1 and 60 are a period inside and one beyond the ring. `Measured`
restricts the reports to one of the two services, since boards share nothing but
the order in which the maintenance visits them.

## 5. Fairness

A thread inside the stream is weakly fair: it is a running thread.
Handlers of completed operations are not tied to one thread; `OnWriteSome` is
strongly fair over the workers because the io service runs queued handlers in
turn even though its threads are intermittently busy, and because the peer is
assumed to keep reading. Nothing is assumed about the peer answering a connect or
sending anything, about callers, or, in `MessageStream`, about the maintenance
timer. `FlowControl` assumes that timer to run (it re-arms itself), each thread
inside an operation to go on, and a write in flight to end; nobody has to send
anything.

`RpcCall` assumes that a call once made, a handler once started and the timer go
on, and that each call's expiration is reached (strong fairness of the merge that
takes it out, since it is possible only while the timer is at that step). Nothing
makes the peer answer, a request leave the queue or a connection close.

`ServerLifecycle` assumes that threads run and that what a close cancels
completes; that the restart interval passes and that a restart succeeds in the
long run are strong fairness, as both are possible only while the maintenance is at
that step. Nobody has to connect, to leave, or to call `Start()` or `Stop()`.
`TimeoutManager` assumes that callbacks end and that each timeout is reached
(strongly fair, since an event may be taken out and put back in between).
`ClientStop` assumes no more than that some thread of the client, or the one in
`Stop()`, takes a step while one can.
`DynamicChannel` assumes that the detection timer fires, and that a server which is
probed again and again answers in the end (strongly fair); nothing about calls. `ReadPath`, `WritePath` and `ServicePool` state
safety only: their threads wait for nothing.

## 6. What is proved

The theorems hold for any set of threads, messages, streams, calls, events,
addresses and services, and for every value of the bounds. They use only the
assumptions declared with the constants (finiteness where the statement counts).

* `MessageStreamProofs`, which begins with lemmas about the steps of the
  connection. `CloseAccounted`: each passage into CLOSED is one that the
  hook has run for, one that a thread is about to run it for, or one that was undone by a store
  (`AccountingClose`, `AccountingStore` and `AccountingMove` say how each step
  changes the count of threads at the hook). `CloseOfEstablishedIsFinal`: the only stores to
  `_status` are those of the opening; once the connect is over and no thread is
  about to store, no step leaves CLOSED. `TypeCorrect`, `SendTokenCorrect`: the
  typing of the data needs that the owner of the token has a message exactly
  where the code dereferences `_sending_message`, so both are proved together. `SendInv`
  adds to `SendTokenExclusive` which steps hold a message, that a write in flight
  has one with parts left, and that a thread about to enqueue has one. One
  lemma per way a step treats the token (`SendFrame`, `SendGiveBack`,
  `SendGoOn`), then one step per action. `ReceiveTokenCorrect`: inductive
  relative to the types.
  `TokensReturnedCorrect`: that a token held on a connected stream has a holder
  (`TokenInv`: a thread, an operation in flight, or a thread about to close) needs where
  `try_start_send` and `try_start_receive` return to (`ReturnsOK`), and that whoever
  is past `is_connected()` has seen the connection established, which is opened once
  (`OpenInv`).
  `NoStrandedSend` and `NoStrandedReceive`: messages that wait while the token is free and the
  quota token allows sending have somebody who will look (`SenderAwake`,
  `ReceiverAwake`, with `SendingInv` and `QuotaInv` about what the owner has still to do). Without
  flow control this is unconditional (`NoStrandedSendUnlimited`,
  `NoStrandedReceiveUnlimited`). With it the properties are false, in the one way
  section 7 shows; `NoStrandedSendApart` and `NoStrandedReceiveApart` prove that there is no other:
  they hold of every behaviour with `[][TriggersApart]_vars`, one in which no trigger falls between
  the store of a refused quota and the release of the token.
  `QueueImplemented`: each step of `MessageStream` is a step of `SendQueue` or a
  stutter, from `QueueInv`: the queue holds messages that were accepted and not
  reported, each once, and the thread that is enqueuing a message is the only one
  that has it.
* `FlowControlProofs`: `ThroughputBound` alone is not inductive, because it does not
  say how much the pool can still grant. `BoundInv` adds `granted + quota <= budget`:
  a grant moves quota from the pool to `granted`, a recharge adds at most as much
  to the pool as to the budget (what is left over is lost), and a request may
  overdraw by less than its size. `OrderInv` adds to `TokensInOrder` that all
  tokens of the slice lie above the pool.
* `RpcCallProofs`: `TypeInv` adds to the types which steps each kind of thread
  can be at and where its call of `Done` returns to; since every action changes the
  local state of one thread only, one lemma (`LocalStep`) reduces its
  preservation to that thread. `OneUsableStream` is inductive with the types.
  `DoneInv` says that whoever runs the callbacks of a call has won it in `Done`
  and is alone, and that only finished calls leave the timeout manager;
  `StartedInv` that nothing refers to a call that was not made. Together they give
  the step simulation of `RpcPromise` (`CallPromise`). `WatchInv` adds to
  `CallsWatched` that what `timer_run` overwrites is empty.
  `ControllersExact` speaks of threads at rest only, so it needs an invariant that
  says where every call is in between. `CallInv` joins to the above: which calls
  have entered a stream, and that a stream, the wire and the workers know only those
  (`EnteredInv`); at which steps a thread has calls left to complete (`TodoInv`);
  that a stream in use is not new, and one whose calls are being ended is closed
  (`ClosedInv`); that a call being
  completed by a user or a handler is out of the map of an open stream
  (`TakenInv`); that a finished call still in such a map is queued or is about to be
  erased by somebody (`LeavingInv`); and that a call not yet reported is held by
  the map of an open stream or by a thread that will report it (`HeldInv`). The last is
  `CallsAreHeld`, the safety half of `EveryCallEnds`: no call is lost, fairness only
  makes its holder move.
  The same module proves `ClientStop`. A step of a client that is being stopped is
  a step of `RpcCall` (the close of a stream in `StopStreams()` is a `Close`), one
  in which the dispatcher finds the client not running (`NotRunning`,
  `OnClosedStopped`), or one that leaves the calls alone (`StopCases`), and the
  last two kinds keep `CallInv` (`StopStepKept`). `StopInv` adds what each phase of
  `Stop()` has established: no open stream after `StopStreams()`, each group of
  threads at rest after its join. When all rest and no stream is open,
  nothing can hold a call: `StopCorrect`.
* `TimeoutManagerProofs`: `LastCallOnce` and
  `OneTimeNeverAgain` are inductive together with the types and with `TimerInOrder`:
  a one-time event has had its last call when the timer thread is in its
  callback, the timer's list is empty between rounds, and nothing is left in the
  table after the join, from which `DestroyedIsDone` follows.
* `DynamicChannelProofs`: `MapsPartition` is inductive with the types.
  `PlacedAt` says it of one address, with how its context relates to the flags and
  to the contexts created so far. `LoadBound` is about `WaitCount()` only, which
  leaves out calls that have chosen and are not counted yet; `LoadInv` counts these too
  (`Reserved`). A server is chosen below its capacity, and at that moment at most
  the other threads inside `CallMethod()` have it reserved and not counted.
* `ServerLifecycleProofs`: the inductive invariant has four parts. `Phases` says
  what each step of `Stop()` has established for the later ones, `Chains` that
  there are never accept chains of two listeners and that a closed listener has
  none unless `Stop()` has just closed it, `Counted` that
  a stream between the count and the insertion has room, `Tracked` where a stream
  of each status can be. `ConnectionLimit` needs the second and third,
  `StoppedIsQuiet` the first.
* `ServicePoolProofs`: `LookupCorrect`. The invariant `LookupInv` says that the
  three structures of the pool differ only by the registration in progress
  (`RegisteringHolds`) and what each step of a lookup knows (`FindingKnows`).
  `StatsCorrect`: `StatsExact` compares sums over the ring with the calls
  reported, while slots move under the calls that report. `StatsInv` says which
  elements and boards the workers use (`BusyOnBoard`), what each element holds
  while workers are counting in it (`ElementExact`: whoever has loaded the count will
  store one that leaves room for the others), in which order the slots of the ring
  are (`RingOrder`), and that a reader is at most one move late and has no more
  slots to read than the ring keeps for it (`ReaderInTime`).
* `BufferProofs`, about `ReadPath`: `MessagesCorrect`, `SyncCorrect`, `RefsCorrect` and `CursorCorrect`,
  from two invariants. `ReadInv` says that the frames follow each other
  (`Layout`), that the bytes processed are the frames completed and what has been
  read of the next (`Progress`), which parser the bytes have chosen
  (`ParserChosen`), that each message handed over, and the one being received, is
  covered by its handles without a gap (`MessagesWhole`, `ReceivingWhole`), and that
  a block is referenced once by each owner that has it (`RefsCounted`), so that
  `EndRead` reuses a block only when no handle of a message points into it. `CursorInv`
  adds where the reader of a message is in its list. Sizes are added up by the recursive
  function `Sums`; the provers have no induction for it, but the least element of a set of numbers
  (`LeastNat`, from the well-foundedness of the natural numbers) is enough for
  the first-order inductions needed: that such a function exists, what each of its steps
  adds, and that completing a frame keeps the sums before it (`SumsExist`,
  `SumsValue`, `CompleteKeeps`). References are counted one owner at a time
  (`UsesUnion`, `CountsAdd`, `Apart`).
* `BufferProofs`, about `WritePath`: `CountsCorrect` and `WireCorrect`. `CountsExact` is not inductive: it
  does not say that the sizes of the handles stay within their blocks, nor that a
  buffer that is swapped out has a byte to send. `CountsInv` has five parts. `AsmOK` types
  the assembly. `BufOK` says that `ByteCount()` is the sum of the handles and
  that what a stream may back up is in the last one, where `Next()` has put it.
  `NetOK` says that no list queued or being sent has an empty handle, which
  `SwapOutKeeps` gives for every list, and that the bytes sent and the rest of the current write end
  where the next handle begins. `MemOK` is `OneOwner` with every handle inside its block: a
  block is taken only when nobody refers to it and given back by its one owner, so no step
  frees what another list still has (`MemStep`). `Stage` says how many bytes each
  step of the assembly has behind it, from which a message never leaves empty. One lemma per
  action (`ReserveKeeps`, `SealKeeps` ...) over lemmas on offsets and references when a handle is
  appended, resized or dropped (`OffsetsAppend`, `OffsetsResize`, `RefsConcat`,
  `QueueRefsTail`).

  `WireCorrect` is about contents, so `WireInv` adds to `CountsInv` where each byte is.
  `Shows` relates a list of handles to a sequence: every byte of a handle is the byte of
  the sequence at its place in the list, moved by an offset. `AsmBytes` says that the message
  shows what its streams were given to write (`Planned`), behind the header, as far as they
  have written it, that the pieces of a page show what was appended, and what each step
  of the assembly has settled. `NetBytes` says that the wire is a prefix of what
  was promised, and that the write in progress and the lists of the queue show the promised
  bytes one behind the other, from where the wire ends. Two facts carry the steps: a
  block that grows, is written or is freed has one owner (`OwnerCounts`, from `MemOK`), so
  all other lists keep what they show; and `Shows` is kept when a list is joined, cut, or
  loses its empty handles (`SealShows`, `WrittenPromised`). The theorem assumes
  `"compressed" \notin OutOfMemory`, and nothing else: with it `WireExact` is false, which
  section 7 shows. Messages of the other kinds may run out of memory at any point. `WireInv`
  was checked by TLC with the constants of `MCWritePath.cfg` before it was proved.

Type invariants of `MessageStream`, `FlowControl`, `RpcCall`, `TimeoutManager`,
`DynamicChannel`, `ServerLifecycle`, `ServicePool` and `ReadPath`, and `CountsInv` of
`WritePath`, are proved and not run.

Every safety invariant of the runs is stated by a theorem. Model-checked only: all
liveness, which is out of the prover's reach. `NoStrandedSend` and `NoStrandedReceive` are
run without flow control only, as section 7 refutes them with it.

## 7. What the code does not keep

Statements of the source that TLC refutes. Each is a definition of its module
with the line it quotes; to see the counterexample, put it in place of the
properties of the configuration named (and drop SYMMETRY for a temporal one).

| Statement | Configuration | What happens |
|---|---|---|
| `ClosedOnce`: "should be run for only once" (`rpc_byte_stream.h:97`) | `MCMessageStreamFlow.cfg` | `on_connect` (410), `set_socket_connected` (221) and `async_connect` (138) store `_status` without looking at what they overwrite: a `close()` after their check is undone, and a later one runs `on_closed()` again. `ClosedAccounting` states what does hold. |
| `CallbackPromise`: `on_sent` or `on_send_failed` for each message (`rpc_server_message_stream.h:83`) | `MCMessageStream.cfg` | messages queued or being written when the stream closes get neither; on the client `RpcClientStream::on_closed` completes the calls, on the server the send callback is not called |
| `NoStrandedSend` (`rpc_message_stream.h:552`) | `MCMessageStreamFlow.cfg` | `try_start_send` stores the refused quota while it holds the token; a trigger of the maintenance between this store and the release sets the quota token to 1 and cannot take the send token. The maintenance triggers only "streams whose token <= 0" (`rpc_client_impl.cc:560`, `rpc_server_impl.cc:579`), so nothing sends until the next message |
| `NoStrandedReceive` | `MCMessageStreamFlow.cfg` with `MaxReceived = 1` | the same order at line 477; here no next message triggers anything and the connection is never read again |
| `StreamsTriggered` under `ResetOptions` (`rpc_server.h:158`, "from the next time slice") | `MCFlowControlLive.cfg` with `MaxResets = 1`, `Quotas <- LimitedOrNot` | lifting the limit (`rpc_server_impl.cc:217`) makes the maintenance skip flow control (561), but a refused stream keeps its token <= 0 and `try_start_send` returns at once (507): it never sends, or receives, again |
| `CountsAlive`: "count of current alive connections" (`rpc_server.h:185`) | `MCServerLifecycle.cfg` | a stream accepted while `Stop()` runs enters the set after it was cleared, and ends without being erased, as `OnClosed` sees the server stopped; after the next `Start()` it is counted |
| `StopReturns` (`rpc_server.h:127`) | `MCServerLifecycle.cfg` | `Stop()` holds `_start_stop_lock` (`rpc_server_impl.cc:182`) while it joins the maintenance thread, which waits for the same lock in `RestartListen()` (489) |
| `ListenerAlive`: assertion of `operator->` (`smart_ptr/shared_ptr.hpp:264`) | `MCServerLifecycle.cfg` | `Stop()` resets the listener (191) after it stopped the timer, but a round of the maintenance that has begun is only joined at 194 and asks it whether it is closed (485) |
| `ManagerAlive`: assertion of `operator->` (`smart_ptr/shared_ptr.hpp:264`) | `MCClientStop.cfg` | `Stop()` resets the timeout manager after it joined the workers (`rpc_client_impl.cc:111`), but `timer_run` and keep alive run on the maintenance threads, joined at 115: one that completes a call in between calls `_timeout_manager->erase()` (433) |
| `NeverOverdue`: callbacks can "call erase" (`timeout_manager_impl.cc:136`) | `MCTimeoutManager.cfg` | a repeating event erased after its reinsertion is still in the list of callbacks to run, and was deleted by the erase |
| `PendingWithinCapacity`: "max request count pending on one channel" (`rpc_channel.h:30`) | `MCDynamicChannel.cfg` | calls are counted after the map is unlocked, and unlive servers have no limit; `LoadBound` states what does hold |
| `RemovedWasMapped`: SCHECK of `OnAddressRemoved()` | `MCDynamicChannel.cfg` | `Stop()` clears the maps but not `_added_set` (326) |
| `FlushEmpties`: SCHECK of the destructor (`block_wrappers.cc:101`) | `MCWritePath.cfg` | `Flush()` of a body without bytes keeps the input buffer (124), and the process aborts |
| `WireExact` when memory runs out while compressing | `MCWritePath.cfg` with `OutOfMemory = {"compressed"}` | `Flush()` does not ask whether the stream below could write (133): a truncated body under a header that fits it |
| `SlotInRange` | `MCServicePool.cfg` | `LatestStats()` reads `_slot_index` twice in one expression (`service_pool.h:109`); when it wraps in between, the index is -1 |

Read and not run: an asynchronous call of a client that was stopped ends with "not
in running", and its closure is posted to the callback threads, which are reset
(`simple_rpc_channel_impl.cc:178`, `rpc_client_impl.cc:118`). `Start()` of the server goes on after the maintenance threads
failed to start, to dereference the group it has reset (`rpc_server_impl.cc:97`,
160). A connection accepted between `start_listen()` and `_is_running = true` is
closed. `ResetOptions` of the client changes the slice quota only
(`rpc_client_impl.cc:146`) and never resets the pool, so that from no limit to a
limit nothing is limited and from a limit to none the pool is no longer
recharged; `rpc_client.h:71` makes the same promise as the server's
documentation. An unlive server of a dynamic channel whose channel was never
created is never probed (`Recovers` speaks of the others), and a call that fails
on a removed context demotes the one that was added again under its address
(which `MapsPartition` allows). `erase()` of a repeating timeout returns false
between its expiry and its reinsertion, and the timeout goes on.
`StartCancel()` of a call is an empty TODO (`rpc_controller_impl.h:100`).
A `ThreadGroup` started again after a stop runs no handler, as its io service is
not reset. `_list_service_last_count` of the builtin service is compared and never
updated (`builtin_service_impl.cc:166`).

## 8. Not modelled

`Start()` of the client, which shares nothing with what follows, and a `CallMethod()`
that passed its check of `_is_running` and uses objects that `Stop()` resets: a null
pointer rather than an order of steps; no sample, test or document stops a client
that another thread is calling through. The dispatch of a request, which shares no state between
requests but the count of pending ones. The input side of the compressing streams,
whose only state is the chunk it decodes, and the algorithms themselves. Web
pages, JSON, profiling, the mock support, the agents and samples: formatting and
separate programs. Locks, atomics, condition variables: the primitives that the
models take as atomic steps. Closures and smart pointers: generated code.

In the modelled parts: SCHECK failures unless a property is about one (the
process aborts), most statistics counters, logging, the ticks used by keep alive,
the contents of messages, changes of the options while streams exist other than
those in `FlowControl`, and weak memory (each access to a `volatile` variable is
taken as atomic and sequentially consistent, as on the x86 builds the project
targets).
