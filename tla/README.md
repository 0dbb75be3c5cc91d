# TLA+ model of the OCPP client engine (ev-client-ocpp-pazzk)

This directory holds TLA+ models of the message engine in `src/src/ocpp.c`.
It also holds the TLC configurations that check them. `PROJECT.json` lists:
- the components,
- the runs,
- the mutants,
- the map from every definition to the source lines it models,
- the findings,
- the hazards.

## The system

`ocpp.c` is a single-threaded engine behind a lock. The host calls
`ocpp_step()` periodically. Other threads may call the public API, and so may
the event callback.

| Part | Code | State | Operations |
|---|---|---|---|
| Message pool | `m.tx.pool`, `alloc_message`, `new_message`, `free_message` | `OCPP_TX_POOL_LEN` slots holding role, type, id, expiry and attempts | allocate the first free slot; free a slot (this sends a `MESSAGE_FREE` event, then zeroes the slot) |
| Queue set | `m.tx.ready`, `wait`, `timer`, the `list_*` helpers | three intrusive lists through the slots | append, "put in front" (which actually appends, `ocpp.c:68`), delete, count |
| Dispatcher | `ocpp_step`, `process_queued_messages`, `send_message`, `process_tx_timeout`, `process_periodic_messages`, `process_timer_messages` | `m.tx.timestamp` | see below |
| Ingress router | `process_incoming_messages`, `process_central_response`, `find_msg_by_idstr` | `m.rx.timestamp` | see below |
| Public API | `ocpp_init`, `ocpp_push_request`, `ocpp_push_request_defer`, `ocpp_push_response`, `ocpp_get_type_from_idstr`, `ocpp_count_pending_requests` | none of its own | each call takes the lock |
| Type registry and stringify | `get_typestr_array`, `ocpp_get_type_from_string`, `stringify.c` | constant tables | table lookups |
| Engine lock | `ocpp_lock`/`ocpp_unlock` in `ocpp_step`, `process_incoming_messages`, `dispatch_event` and every entry point | the holder | taken and released around callouts |
| Transport, configuration and event callback | `ocpp_send`, `ocpp_recv`, `ocpp_get_configuration`, the callback | external | implemented by the host |

**Dispatcher.** One step runs these stages in order:
1. The timeout sweep. Every expired message in `wait` is dropped or moved back to `ready`, according to `should_drop`.
2. The busy gate. Nothing is sent while `wait` is non-empty.
3. Sending the head of `ready`. On success a CALL goes to `wait` and anything else is freed. On failure the message is kept for a retry or freed.
4. A heartbeat, if one is due. Creating it runs `process_queued_messages` again.
5. Moving expired deferred messages from `timer` to `ready`.

**Ingress router.** It receives one frame with the lock released. A CALLRESULT
or CALLERROR is matched to the waiting request by its id. A CALLERROR to a
transaction message, with attempts left, puts that message back in `wait` with
a back-off expiry and does not resend it. Any other matched response frees the
request and sets the TX timestamp.

Functions declared but not implemented under `src/`:
- `ocpp_drop_pending_type`,
- the snapshot functions in `ocpp.h`.

## Module `OcppCore` (with `MCOcppCore`)

**State.** The module's VARIABLES correspond to the code as follows:

| Variable | Code |
|---|---|
| `pool` | the slot array; ids are abstracted, see the module header |
| `ready`, `wait`, `timer` | the three lists, as sequences of slot numbers |
| `txElapsed`, `rxElapsed` | `now - m.tx.timestamp` and `now - m.rx.timestamp`, capped at `HeartbeatInterval` |

Expiries are kept relative, as `expiry - now`. The environment has three
variables:
- `net`: frames on their way to the client;
- `delivered`: ids of CALLs the server has received and not yet answered;
- `inbox`: central CALLs the application has seen and not yet answered.

Two ghost variables record what the last step did:
- `freed`: the slots it freed, and why;
- `heartbeat`: whether it created a heartbeat.

**Operations.** Every helper of the engine is an operator on a record `W` of
the whole state, named after its C function. Each action composes the helpers
in the order the code calls them and commits the result. The list wrappers have operators too:
- `PutMsg` is `put_msg_ready`, `put_msg_wait` and `put_msg_timer`;
- `DelMsg` is the three `del_msg_*`;
- `CountMessages` is the three `count_messages_*`.

So the guards read as the code's, for example `count_messages_waiting() > 0` in the busy gate.

| Action | What it models |
|---|---|
| `StepBegin` | `process_queued_messages` |
| `StepEnd` | `process_incoming_messages`, then `process_periodic_messages`, then `process_timer_messages` |
| `PushRequest` | `ocpp_push_request`, where `force` runs `remove_oldest` and retries the push |
| `PushRequestDefer` | `ocpp_push_request_defer` |
| `PushResponse` | `ocpp_push_response` |
| `Tick` | one second of wall-clock time |
| `ServerRespond`, `ServerIgnore`, `ServerCall`, `FrameLost` | the central system and the link |

The step is split into two halves because `ocpp_recv` runs with the lock
released. Application calls therefore interleave between the halves as well as
between steps. `ocpp_send` may succeed or fail (`ok`). `ocpp_recv` may return:
- any frame in `net`;
- no message;
- an I/O error;
- an unparseable frame.

**Bounds.** The full instance (`MCOcppQueueRefinement.cfg`, run `safety`) uses these values:
- 2 slots;
- `TxRetries` = 1 and `TransactionMessageAttempts` = 2, so the retry limits differ;
- timeouts and intervals of 1 second;
- request types BootNotification, StartTransaction (transaction), MeterValues (transaction but not eviction-protected) and DataTransfer (droppable);
- one central CALL type and one central id;
- defer times {0, 1};
- at most one frame in flight to the client.

These bounds cover the cases that matter:
- a full pool, and eviction;
- a retry versus a drop, for every class of message;
- a late answer racing the timeout;
- a CALLERROR back-off;
- a heartbeat;
- a deferred message.

Attempts saturate at `max(TxRetries, TxMsgAttempts)`, which is exact for every
comparison the code makes. Instance sizes of the liveness runs:
- `liveness` checks every request class and the defer times, but not central CALLs: 54,824 states, about 2 minutes for the four properties. Central CALLs bear on these properties only through the response slots they take. Deferred requests alone can fill the pool, so the heartbeat's -ENOMEM case is still reachable.

**Fairness.**
- `StepBegin` and `StepEnd` are weakly fair. The host calls `ocpp_step()` periodically and `ocpp_recv()` returns.
- `Tick` is strongly fair. Time passes whatever the program does, and it is enabled again after every step.
- The application, the server and the link have no fairness. Sends may fail for ever.

**Fairness as checked.** `WF_vars(StepEnd)` is written as `WF_pc(RecvReturns)`. `RecvReturns` is `pc = "recv" /\ pc' = "idle"`, and the two conditions are the same:
- StepEnd is the only action that leaves `pc = "recv"`;
- StepEnd is enabled in every state with `pc = "recv"`, because `ocpp_recv` may return ENOMSG.

The `pc` form lets TLC recognise a StepEnd step without evaluating the whole step. This took the liveness runs from minutes to seconds.

## Module `OcppApi` (with `MCOcppApi`)

`OcppApi` extends `OcppCore` with an application thread, `app`, and two operations.

- **`ocpp_get_type_from_idstr`.** It is two actions. `GetTypeFromIdstrLookup` runs `find_msg_by_idstr` on the wait list under the lock and records the type found (`want`). `GetTypeFromIdstrRead` reads `pool[slot].type` after the unlock (`got`). Engine steps, pushes and the server can run between the two.
- **`ocpp_init` called again (`OcppInit`).** It runs between steps. It zeroes every slot and list without `free_message`, and resets both timestamps.

`ReinitSpec` is `ApiSpec` plus re-initialisation. `ocpp_count_pending_requests` is an atomic read under the lock that changes nothing, so it is not an action.

## Module `OcppIdMatch` (with `MCOcppIdMatch`)

`OcppIdMatch` extends `OcppCore` with `ServerRespondEmptyId`: the link delivers a CALLRESULT or CALLERROR whose id is empty. `process_incoming_messages` starts from a zeroed `struct ocpp_message` (`ocpp.c:447`), so a frame whose id the transport did not fill arrives with id "". `OcppCore` models the comparison of `find_msg_by_idstr` as `IdPrefixMatches`: the empty id matches every stored id, and distinct full ids never match.

## Module `OcppTypes`

This module covers the type registry:
- the action-name table `get_typestr_array`, as a sequence;
- `ocpp_stringify_type`;
- the linear search of `ocpp_get_type_from_string`, as the RECURSIVE operator `SearchFrom`.

The enum is declared in `ocpp/type.h`, which the repository does not contain. Its values are taken as `0 .. MsgMax-1` in the order spec.md §6 lists, which is also the order of the table's designated initialisers. The variables `t` and `s` are the inputs of an application that converts values. Each state is one input pair: every enum value plus two past the end, and every action name plus five non-names. `RegistryRoundTrip` compares the search with a reference definition (`ParseRef`) and checks the round-trip laws of spec.md §8.

## Modules `RequestQueue` and `OcppQueueRefinement`

`RequestQueue` is the abstract promise about the order in which requests are served. `queue` is the sequence of outstanding requests, the one in flight first. In one step:
- requests may depart, from any position;
- the front request may go to the back, as a retry, when `RetryAtTail` holds;
- new requests join at the back.

Nothing else reorders the queue, and nothing vanishes without a departure. `gone` records the departures of the step, so that a reused slot may rejoin.

`OcppQueueRefinement` maps the engine onto the abstract queue:
- `queue <- ServiceOrder`: the CALLs of `wait \o ready`;
- `gone <- Departed`: the CALL slots in `freed`.

It instantiates `RequestQueue` twice. `Code` has retries at the tail, as the code does. `Documented` has retries keeping their priority, as spec.md §5 says.

## Module `OcppClock`

`OcppCore` keeps time as small elapsed counters, which cannot wrap. `OcppClock` looks at the arithmetic of the clock and configuration shim instead:
- `time()` values are absolute;
- configuration values are any `uint32_t`;
- every conversion to `uint32_t` is a reduction modulo `2^Width` (`U32`).

TLC's integers stop at 2^31, so the runs use a 3-bit word (`Width = 3`). In it, the product of `get_next_period` and the difference of `should_send_heartbeat` wrap as they do at 32 bits.

The module models two functions as operators: `GetNextPeriod` (all three branches) and `ShouldSendHeartbeat`. A state is one evaluation on inputs the engine can see at a step. A step is the next evaluation, with the clock and the configuration read again, which spec.md §5 allows to change between reads. A TX timestamp later than `now` is a clock that was set back after the timestamp was taken. Configuration reads are taken to succeed, so the heartbeat run has a single cause. The timestamp is the `now` of the step that received the answer. spec.md §4.3 defines a step by that single `now`.

## Module `OcppLock`

The lock discipline, as control only. Its actors:
- **The driver thread.** It runs `ocpp_step()`: the lock, `process_queued_messages`, the unlock around `ocpp_recv`, the rest, then the unlock. The event callback also runs on this thread. `dispatch_event` releases the lock around the callback, and the callback may call the API again.
- **An application thread.** It calls any entry point that takes the lock.

`ocpp_send` is called from both locked phases, with the lock held. `ocpp_lock()` is a port function outside `src/`; the module takes it as a blocking mutex.

## Runs

| Run | Expect | What it shows |
|---|---|---|
| `safety` (`MCOcppQueueRefinement.cfg`) | pass | `SerializedInFlight`: at most one CALL is in `wait`, through late answers, CALLERROR back-offs, evictions and pushes between the halves of a step. `PoolListsConsistent`: between engine calls, every list entry is a live slot on exactly one list, and every live slot is on a list. The callback window inside `free_message` is not modelled (see Not modelled). `NeverDropsUndroppable`: neither a send failure nor a timeout frees a BootNotification or a transaction message, and the eviction of a forced push never frees a BootNotification, StartTransaction or StopTransaction (spec.md invariant 6). A `remove_oldest` that takes the head of `ready` whatever its type breaks it. `ServesInPushOrder`: the engine implements `RequestQueue` with retries at the tail. The run takes about 3.4 minutes over 224,938 states. |
| `liveness` | pass | `ReadyEventuallyLeaves`: a message in `ready` is eventually sent or evicted, even behind a BootNotification whose sends always fail. This holds because retries go to the tail (`ocpp.c:68`). `DroppableEventuallyFreed`: a droppable message eventually frees its slot, whatever the server does. `HeartbeatEventuallyWhenIdle`: once `HeartbeatInterval` has passed with the ready and wait lists empty, a Heartbeat is eventually created, unless a request comes first. Deferred requests can fill the pool and make the heartbeat's `new_message` fail with -ENOMEM. That case is reachable, and it only delays the Heartbeat. `InFlightEventuallyResolved`: a CALL in `wait`, which holds the busy gate shut, never stays there untouched. It is eventually answered, dropped, moved back to `ready`, or resent or backed off with a new deadline. This also holds after a CALLERROR has put a transaction message back into `wait` without resending it. It is stated with an action (`[]<><<...>>_vars`), because a timed-out undroppable CALL leaves `wait` and is resent within one step. |
| `registry` | pass | `RegistryRoundTrip` over 1,804 input pairs. |
| `retry_priority` | violation | `RetryKeepsPriority` fails. In the trace a BootNotification is sent and times out. It is retried rather than dropped, but `add_first_to_list` (`ocpp.c:68`) appends it behind a second request pushed after it. A DataTransfer cannot show this, because with `TxRetries = 1` it is dropped at its first timeout. Any request that is retried (BootNotification or a transaction message) can. spec.md §5 promises it priority. |
| `idstr_race` | violation | `TypeFromIdstrStable` fails. The application finds a waiting request. Before it reads `req->body.type`, the central system answers and the next step frees the slot, so the call returns the type of a zeroed slot (`ocpp.c:614`). |
| `reinit` | violation | `PayloadReleasedOnFree` fails. `ocpp_init` with a request pending zeroes its slot without MESSAGE_FREE, so its payload buffer is never released (`ocpp.c:708`). |
| `id_prefix` | violation | `OnlyOwnResponseAnswers` fails (module `OcppIdMatch`, in which the link may deliver a response with an empty id). The comparison of `find_msg_by_idstr` covers only `strlen` of the incoming id (`ocpp.c:208`), so the empty id matches the waiting request and frees it as answered. spec.md §4.4 makes the stored id the authoritative length. |
| `evict` | violation | `remove_oldest` frees an unanswered MeterValues. spec.md §3 says transaction messages are never freed by capacity pressure. |
| `heartbeat_rx` | violation | `should_send_heartbeat` ignores received traffic. A Heartbeat is created in the same step that received a central CALL, which the RX-timestamp tests in `core_test.cpp` forbid. |
| `backoff_wrap` | violation | `BackoffNeverShrinks` fails (module `OcppClock`). `get_next_period` computes `TransactionMessageRetryInterval * attempts` in `uint32_t` (`ocpp.c:282`). With a configured interval of 4 in the 3-bit word (2^31 at 32 bits), the back-off is 4 at attempt 1 and 0 at attempt 2. spec.md §5 promises a linear back-off. |
| `clock_back` | violation | `HeartbeatOnlyWhenDue` fails (module `OcppClock`). When `time()` is below the last TX timestamp, `(uint32_t)(now - m.tx.timestamp)` (`ocpp.c:256`) wraps to a large value. A Heartbeat is then created before `HeartbeatInterval` has passed on the clock. spec.md does not say what a clock set back should do. |
| `send_lock` | violation | `ApiNotBlockedByTransport` fails (module `OcppLock`) after 3 steps: `ocpp_step` takes the lock, `send_message` calls `ocpp_send` with it held (`ocpp.c:309`), and an application thread then calls the API and waits. spec.md §5 says the lock is released across send and recv so that they may block. With a non-recursive lock, a transport that calls the API from `send` deadlocks. |

Every property of a passing run has a mutant in `PROJECT.json` that TLC
catches. Examples:
- a busy gate removed;
- an evicted slot left on `ready`;
- a retry queued at the head;
- a drop decision that ignores the message class.

## Not modelled, and why

- **`stringify.c`:** three status, error and firmware tables with no state. Their enums are in `ocpp/type.h`, which is missing, so their domains are unknown. Nothing under `src/` calls them. The missing bounds check cannot be reached from any code in the repository.
- **`ocpp_drop_pending_type`:** declared in `ocpp.h` and described in spec.md §4.5, but nothing implements it.
- **Message payloads (`messages.h`):** opaque to the engine.
- **Snapshot:** no implementation exists under `src/`.
- **Clock:** in `OcppCore` it never steps backwards or jumps. Only `OcppClock` has a clock set back. Time does not pass inside a step, as in the code, which reads `time()` once, before taking the lock. So the `now` stored with an answer after a blocking `ocpp_recv` is the step's `now`, as spec.md §4.3 defines it. This is listed as a hazard without a property.
- **Configuration reads:** they never fail. `ocpp_get_configuration` is outside `src/`, so its failure contract is unknown. On failure, `should_send_heartbeat` reads an uninitialised interval (`ocpp.c:253`). That hazard is listed without a property: adding it to the `clock_back` run would mix two causes in one trace.
- **The callback windows:** `dispatch_event` (`ocpp.c:150-152`) releases the lock around every application callback. `OcppCore` has no state for this. Each engine call, including `free_message` and the rest of a step after `ocpp_recv` (where an event is dispatched at `ocpp.c:485`), is one atomic action. Inside `free_message` the slot is live and on no list during the callback. `PoolListsConsistent` does not hold there. `ocpp_count_pending_requests` undercounts there, and a push from the MESSAGE_FREE callback can fail with -ENOMEM while the count says a slot is free. `PoolListsConsistent` is therefore a claim about the states between engine calls only, and the callback hazard (`ocpp.c:150`) has no property. Modelling the window would split `free_message` and every walk that calls it at the unlock. `OcppLock` has the window, but as control only.
- **Lock:** in `OcppCore` it is the atomicity of actions. `OcppLock` models it as a resource, with control only.
- **Ids:** the only prefix id modelled is the empty one (`EmptyId`). A non-empty prefix of a request's id matches that request, as the full id does. It behaves differently only against another request whose random id shares the prefix, and that is not modelled.

## Plan

Done:
- the `get_type_from_idstr` race;
- the type registry;
- the request-queue refinement;
- heartbeat liveness with a full pool;
- re-initialisation;
- the empty-id prefix match;
- `uint32_t` wrap-around in the back-off and the heartbeat clock;
- the lock discipline around the transport and callback;
- liveness of the busy gate (`InFlightEventuallyResolved`);
- the eviction exemption of spec.md invariant 6 (`NeverDropsUndroppable`);
- the list wrappers and the timestamp updates as operators of `OcppCore`.

Left:
1. Configuration that changes between reads (spec.md §5) inside `OcppCore`, for example `TransactionMessageAttempts` lowered while a transaction message is backing off. `OcppClock` already reads the configuration afresh at every evaluation.
2. A passing run for `OcppLock`: every API call returns while callbacks re-enter the API. It needs a run slot; the project keeps at most 12 runs, and all 12 are in use.
3. A liveness property that a BootNotification is eventually sent and answered under a fair server.
4. A 3-slot pool for the safety run. On the full instance it passes 2 million distinct states within 2 minutes and is still growing, so it needs a narrower set of request types. The refinement with 3 slots (MeterValues and DataTransfer only, no central CALLs) passes in about 2.7 minutes over 263k states, and a head-of-queue timer promotion breaks it. It is not a standing run because it repeats the question of `safety`.
