# A verification project for the Mbed OS Bluetooth integration test suite

The repository has two programs. `ble-cliapp` (C++, on Mbed OS) runs on a board
and offers the BLE API as a command line on a serial port; `test_suite`
(Python, pytest) runs on a host and drives one to three boards with it. This
directory holds TLA+ modules that model the part of them where the order of
things matters, the TLC configurations that check them on small instances, and
proofs for TLAPS. Paths below are relative to `src/`; `source/` stands for
`ble-cliapp/source/`.

## 1. Inventory

### The board

The board has one thread. `main` (`source/main.cpp`) calls `dispatch()` of one
event queue for ever. Two interrupts come between its steps: the receive
interrupt of the serial port and the ticker of the event queue. A critical
section is a stretch with interrupts disabled. Three parts are external: the
command interpreter (mbed-client-cli: `cmd_char_input`, `cmd_next`), the BLE
stack, and Mbed's `Ticker`, `Timer` and `UnbufferedSerial`.

| Component | State | Operations | What makes it correct |
|---|---|---|---|
| Event queue, `EventQueue/EventQueueClassic.h` | events in order of remaining time; ticker, timer, a flag that a timed event is pending | `post`, `post_in`, `post_every`, `cancel`, `dispatch`, ticker interrupt | events run once, in the order in which they became ready, not early, never forgotten, never after a cancel |
| Priority queue, `EventQueue/PriorityQueue.h` | two linked lists over one array of nodes, and a count | `push`, `pop`, `erase`, `update`, `clear` | no node is lost or linked twice; the list stays ordered and is stable; calls return |
| Serial receive path, `main.cpp`, `util/CircularBuffer.h` | `rxBuffer`, the posted consumer | `whenRxInterrupt`, `consumeSerialBytes` | bytes reach the interpreter once and in order; the consumer is woken exactly when there is something to consume |
| Command execution, `CLICommand/` | the lines waiting, the command running, its procedure, the timeout of that procedure | `commandHandler`, `AsyncProcedure::start`, `terminate`, `whenTimeout`, `whenAsyncCommandEnd`, `cmd_ready_cb` | one command at a time; each is answered once and then reported; a procedure is ended once, by a callback or by its timeout |
| Command response, `CLICommand/CommandResponse.cpp` | status, result, a JSON document being written | `setStatusCode`, `getResultStream`, `success`, `faillure`, `close` | an answer is one JSON object with a status |
| Command suites, `Commands/` | the event handlers of the stack; a few globals | 161 commands, 30 of them procedures | they use the two components above as these expect |
| Callbacks, in the suites of Gap, GattClient, GattServer and SecurityManager | the event handlers and chains of callbacks of the stack | constructors, `doStart` and destructors of procedures, timeouts, events of the stack | only the procedure that is alive is called; it takes only its own answer; events are printed when no procedure hears them |
| Service declaration, `GattServerCommands.cpp`, `Commands/util/` | the service being declared, the list of services of the server, a callback for the shutdown | `declareService`, ..., `commitService`, `cancelServiceDeclaration`, shutdown | each service and attribute has one owner, is freed once, and reaches the stack as it was declared |

They interact as follows. The receive interrupt posts the consumer; the
consumer feeds the interpreter, which runs a line by calling the handler of its
command. A handler answers, or starts a procedure, which posts its timeout and
calls the BLE stack. The stack posts `BLE::processEvents`, in which it calls the
procedure back. The end of a procedure cancels its timeout and closes its
response, which posts `cmd_ready`, which lets the interpreter go on. Procedures
register themselves with the stack as event handlers while they live; services
outlive the commands that declare them and are freed by the shutdown of the stack.

### The host

| Component | State | Operations | What makes it correct |
|---|---|---|---|
| Serial device, `test_suite/common/device.py`, `serial_device.py` | two queues, two threads | `send`, `flush`, `wait_for_output`, `stop` | no line that somebody waits for is lost; `stop` returns |
| BLE device, `ble_device.py` | command results parsed on demand, a list of events | commands, events | an answer goes to its command; events are kept |
| Allocator, `fixtures.py` | which board is whose | `allocate`, `release` | a board has one owner and one pair of threads; an allocation ends |

### What is hard

The hazards are listed in `PROJECT.json`, each at its line. They are: interrupts
between two steps of the main loop; time truncated to milliseconds; a bounded
queue whose `post` may fail and whose callers do not look; timeouts that race
callbacks; procedures that delete themselves; answers written piece by piece
along several callbacks; answers that come after a timeout, or for another
connection; handlers that replace each other; services handed from a builder to a
list and to the stack; on the host, two threads per device, a `flush` before every
command, events in the middle of answers, and retries that leave threads behind.

## 2. Modules

| Module | What it is |
|---|---|
| `EventQueue` | abstract: what the event queue promises |
| `EventQueueClassic` | the event queue as it is implemented |
| `EventQueueClassicProofs` | theorems about it; it implements `EventQueue` |
| `OrderedQueue` | abstract: a list ordered by insertion |
| `PriorityQueue` | the linked nodes |
| `PriorityQueueProofs` | theorems about them; they implement `OrderedQueue` |
| `CircularBuffer` | the buffer, as operators used by the next module |
| `SerialRx` | the receive interrupt and the consumer; EXTENDS `CircularBuffer` |
| `SerialRxProofs` | theorems about it |
| `CommandLine` | abstract: what the board promises of the lines sent to it |
| `CommandResponse` | the response, as operators on a record |
| `Commands` | the form in which suites describe commands |
| `GapCommands`, `GattClientCommands`, `SecurityManagerCommands`, `OtherCommands` | the tables of the suites |
| `CommandExecution` | the interpreter, handlers, procedures and the event queue composed |
| `CommandExecutionProofs` | theorems about it |
| `StackCallbacks` | which procedure hears what the BLE stack calls back |
| `StackCallbacksProofs` | theorems about it |
| `GattDeclaration` | abstract: what is declared and what the stack is given |
| `ServiceDeclaration` | the builder, the list of services and their objects |
| `ServiceDeclarationProofs` | theorems about it; it implements `GattDeclaration` |
| `SerialDevice` | the host: a test, the two threads of its devices, and a board |
| `SerialDeviceProofs` | theorems about it |
| `FiniteInduction` | induction over positions, used by the proofs |
| `MCCommandExecution`, `MCStackCallbacks`, `MCServiceDeclaration` | instances for TLC |

`PROJECT.json`, "map", gives the lines each definition stands for.

**EventQueueClassic.** A method body is one critical section, hence one action;
`dispatch` leaves it to run the callback, hence `Dispatch` and `Return` (`busy`
in between). Callbacks post and cancel while `busy`; interrupts post without
delay at any time. Time goes by ticks, `TicksPerMs` of them to a millisecond, as
`get_time` truncates; `due` is a history variable, the ticks left before the
instant the poster asked for. `IsrLatency` is by how much a critical section may
delay the ticker's interrupt. `cancel` uses `PriorityQueue::erase`, which does not
return for a node behind the second: `hung` is that state. The list is kept as a
sequence of nodes here, and as links in **PriorityQueue**, which implements
`OrderedQueue`, a sequence.

**SerialRx.** The interrupt is split at each byte (`IsrEnter`, `IsrRead`, `IsrExit`)
and comes between any two steps of the consumer (`ConsumerStart`, `PopChunk`,
`Feed`, `LoopOrExit`). Byte *i* is the number *i*. `error()` is `halted`.

**CommandExecution.** Lines are counted, not told apart: the command of a line is
chosen when the line is begun, among those of the constant `Table`. `ready` has
the ready events in order; the timeout of the procedure waits behind them
(`waiting`) until `TimeoutRipens`. Where an event stands decides whether it can be
cancelled (`Erases`). `thread` is the callback that the main loop runs; a callback
of the stack happens while it is `"ble"`. `fault` is where the code has no defined
continuation: `"hung"` in `erase`, `"freed"` for the use of a deleted procedure,
`"twice"` for its second deletion. The model ends there (`Stopped`).

A command is a record (see `Commands`): what its handler may say, and the steps of
its procedure. "Saying" is a call to the response; `CommandResponse` keeps of JSON
the nesting, the keys without value, and whether what was written is sound. The
tables of the suites were read from each handler and each callback: what the BLE
stack returns is a choice, what the code does with it is not.

**StackCallbacks** is what `CommandExecution` leaves out of the callbacks: to whom the
stack speaks. `registered` holds, for each place where the stack takes a callback, the
procedures that are there: a chain (`onDataRead().add(...)`) holds any number, a handler
(`setEventHandler`) one. The kinds of procedures are a table again, with where they
register, the event they wait for, what that event must agree with, whether they ask the
stack for it and whether their destructor takes the request back. The stack keeps the
`requests` it has not answered and answers those on a connection in their order; it
answers a request whose procedure timed out, too. Peers cause events at any time
(`Report`, `Connected`, `Disconnected`). `result` and `late` are history variables: what
the procedure that ended last reported, and the procedures for whose sake an answer may be
mistaken. `seen` is what a host knows of the connections from the events printed.

**ServiceDeclaration** has an object per address, and pointers: the three of the builder,
those of children, those of the list of services. A destructor deletes a family, as
`~RAIIGattService` does. `registered` is what the stack was given when it took a service.
The counts of children have 8 bits in the code: `CountLimit` is where they wrap to zero, and
`lost`, a history variable, has the children forgotten then.
It implements **GattDeclaration**, where a service is a sequence of sequences of lengths.

**SerialDevice** is one test with one board, from `allocate` to `release`. `place` is where
the main thread is; `reader` and `writer` are the threads of each `SerialDevice` that was
created, as a retry creates another while the threads of the one before live on and take
lines from the same connection. `send` is one action with its `flush`, because the queue is
emptied without waiting; `wait_for_output` is one action for each line it takes. Times
are left out: a wait may be over whenever the code allows it (`WaitRunsOut`,
`WaitTimesOut`). The board answers commands in their order, possibly in two pieces with an
event between them (`JSONEventStream` writes whole lines at any time), possibly not at all.
The commands of `allocate` and of `release` are counted (`SetupCommands`,
`RestoreCommands`), as the code sends a fixed list of them.

## 3. Runs

| Run | Question | Bounds | States |
|---|---|---|---|
| `event_queue` | order, earliness, coverage by the ticker, time lost, refinement of `EventQueue`; do events become ready and leave | 3 events, delays up to 2 ms, 2 ticks to a ms, interrupt 1 tick late; no symmetry, for the liveness | 136748 |
| `priority_queue` | are the lists whole, refinement of `OrderedQueue` | 4 nodes, 3 priorities | 7344 |
| `priority_queue_erase` | does `erase` return: **no** | the same | |
| `serial_rx` | bytes, wakeups, refusals | buffer of 4, chunks of 3, 13 bytes, an event queue of 2 | 2762 |
| `commands` | are lines run, answered and reported, with every command of every suite | 2 lines waiting, an event queue of 4 | 23297 |
| `procedure_lifetime` | is a procedure left alone once deleted: **no** | the same | |
| `response_format` | does `readPhy` answer in JSON: **no** | the same, that command alone | |
| `stack_callbacks` | who hears the stack, whose answer is reported | all 17 kinds, 3 procedures one after the other, 2 connections, 2 attributes | 68656 |
| `other_connection` | is a result about the connection asked for: **no** | the same | |
| `services` | who owns what is declared, refinement of `GattDeclaration` | 6 objects, counters that wrap at 3, values of up to 1 byte | 12171 |
| `serial_device` | answers, events and allocation on the host | 2 devices, 1 command to set up and 1 to restore, 2 of the test, 1 event | 107627 |
| `serial_device_stop` | does `stop()` return: **no** | 1 device, no event | |

Why the bounds are enough. Three events are what it takes for one to be cancelled
between two others, for two to be ready at once while one waits, and for `erase`
to loop; two delays differ or not; two ticks to a millisecond give a fraction to
lose. Four nodes let `update` move a node across two others. Thirteen bytes go
round a buffer of four three times, chunks of three split at each of its places,
and the queue of two leaves one slot, which is what `SerialAssumption` asks for.
In `commands` at most three events are ever queued (`NeverFull`), so that four
slots stand for the ten of `main.cpp`; two lines waiting behind the one that runs
are enough for `cmd_ready` to find some or none. Commands with the same record
behave alike, so that one of them stands for all (`DistinctCommands`): 30 of 161.

Three procedures are what it takes for the answer to the first to be taken by the second
and that to the second by the third; two connections and two attributes differ or not.
With six objects one service may have two characteristics and three descriptors, or two
services and a third one being declared exist at once, and a third child makes a count wrap
to zero, as the 256th does in the code; lengths 0 and 1 are above, at or
below each other. Two devices have one retry, which is enough for lines to be taken by
threads left over; `fixtures.py` retries three times. Two commands of a test are enough for
one to be asynchronous while another is sent, before or after it; one event can come before,
within, between and after the pieces of an answer.

What the properties say:

- `Sorted`, `NeverEarly`, `TickerCovers`, `PostNeverDelays`: the list is sorted by
  remaining time although remaining times are rewritten in place; an event is never
  ready a millisecond or more too early; the ticker is attached exactly while an
  event waits, early enough for it and never for nothing; a step that leaves the timer
  going and the waiting events in the queue (a post above all) does not set it later.
- `OnlyFractionsLost`: whatever is posted, dispatched or cancelled, a waiting event gets
  later only by the fraction of a millisecond that an update of time drops as it restarts
  the timer.
- `ImplementsEventQueue`: with the front of the list as the ready events, every step
  is one of `EventQueue`. Users of the queue are modelled against that.
- `ReadyRuns`, `TimedBecomesReady`: liveness. The second needs cancels to end, as these
  fractions would else add up for ever.
- `NodesConserved`, `ImplementsOrderedQueue`: of the linked lists.
- `InOrder`, `OneWakeup`, `NeverEmpty`, `BytesFed`: what is on its way to the
  interpreter is exactly what it has not had; one wakeup is pending while there are
  bytes, none otherwise; the "sanity check" of `consumeSerialBytes` never fires.
- `TimeoutOwned`: a procedure has a timeout, and no timeout is left of a procedure
  that is gone. `ReadyOnce`: the interpreter waits exactly while a procedure lives or
  `cmd_ready` is posted. `NeverFull`: no event is queued twice, so that no `post` fails;
  no caller of `post` looks at its result, so all of them depend on it.
- `AnswersParse`: the answer is an object with a status, and has an error exactly when
  it failed, for all commands but those of `KnownMalformed` (below).
- `ImplementsCommandLine`: with the fairness below, each line is begun, answered and
  reported, one after the other, unless the board stops (`fault`).

- `OnlyLiveRegistered`: no callback is left to a deleted procedure and the one alive is
  heard, whatever the ways its predecessors registered and ended, although destructors
  reset handlers without looking whose they are.
- `AnswersRequest`: a result is the answer to the procedure's own request, or to an older
  one whose answer cannot be told from it (`Confusable`: of the same event, connection and
  attribute; of the same event and any connection for the phy and the MTU). The latter
  happens only once a procedure like that has ended without its answer, by its timeout or
  by a report it had not asked for, and only while an answer to one of them is due. This is
  what the code can promise, and it is less than a host may think: once a read timed
  out, each later read of that attribute reports the answer to the one before it, for
  as long as an answer is due. An MTU change asked for by a peer ends `negotiateAttMtu`.
  `OwnConnection`, that a result is at least about the connection named, does not hold (4).
- `DiscoveryConnected`, `EventsReported`: a discovery ends with its connection, although the
  end is heard only through the default handler of Gap; connections and
  disconnections are printed, but for those that come while a procedure that waits for
  something else is the handler (`Hidden`).
- `OneOwner`, `StackServicesAlive`, `CleanupDue`: each object is owned once, but those that
  a count of children forgot as it wrapped (`lost`), which nobody owns or frees; the stack
  has no service that was deleted; the shutdown that frees them is asked for, once.
- `LengthsFit`, `ImplementsGattDeclaration`: values fit their attributes; the stack is
  given what the commands declared, with pending characteristics and descriptors, in order
  (and nothing of what a wrapping count forgot: `WithCharacteristic`, `WithDescriptor`).
- `AnswersOwn`: the result of a command is the board's answer to that command, whole and
  with its return code, whatever the commands before it left unread; `EventsKept`: the
  events between its lines are kept, in order. Both are about the last command that was sent,
  when the answers to those before it had come, on the first device (`OfLastCommand`): an
  answer still on its way is not told from the next one by anything in the code, and after a
  retry the threads of the abandoned device steal lines. What a `flush` drops of earlier
  events and asynchronous answers is outside of both.
- `AllocationEnds`: an allocation succeeds or fails, with a board that is silent, too.
  `StopReturnsIfLate`: `stop()` returns if the output thread has not yet taken the last command.

Each property of a passing run has a mutant in `PROJECT.json`, a plausible bug in a
definition of the code with which TLC finds it violated.

**Fairness.** The main loop dispatches for ever and callbacks return (WF on `Dispatch`,
`Return` and the steps of the consumer), the hardware clock runs and interrupts are
taken (WF on `Tick`, `TickerIsr`, `IsrExit`, `TimeoutRipens`), the interpreter begins a
line that it can begin (WF on `Execute`). Nothing is assumed of the BLE stack, of the
host or of users of the queue: a procedure ends by its timeout if by nothing else. On the
host, threads run and waits come to an end (WF on `Main` and on the steps of each thread);
nothing is assumed of the board. A test may end at any time, but does not have to:
`AllocationEnds` and `StopReturnsIfLate` need only what comes before and after it.

## 4. Findings

1. `PriorityQueue::erase` does not return for the third element of the queue or one
   further down (`EventQueue/PriorityQueue.h:291`): `current` never advances. The
   program reaches it: a procedure that ends while `consumeSerialBytes` and
   `BLE::processEvents` are both queued ahead of its timeout hangs the board with
   interrupts disabled (`ProcedureEnds` with `~Erases`). `erase` returns in the models
   for the first two, and the other runs go on from there.
2. Procedures are used after `terminate`: by `startProcedure` when their constructor
   terminated them (`GapCommands.cpp:1150`, `1269`, `1542`), by `whenTimeout` when
   `doWhenTimeout` did (`GapCommands.cpp:592`, `SecurityManagerCommands.cpp:226`), and
   by the stack when a timeout ended a procedure that left it a callback (`ble init`,
   `gattClient discoverAllServices`, `discoverPrimaryServicesByUUID`).
3. Answers that are not what a host expects (`KnownMalformed`): `gap readPhy` sets its
   status between the key of the result and its value; the three discoveries of
   services leave their array open when a disconnection or a timeout ends them; a
   pairing command that the stack refuses writes four values under one key
   (`BLE_SM_TEST_ASSERT_RET`), and one that times out, like
   `generateWhitelistFromBondTable` and `discoverAllCharacteristicsDescriptors`, gives
   the reason of the failure as `result`, where the host looks for `error`.
4. `stop()` of a `SerialDevice` does not return (`test_suite/common/serial_device.py:79`):
   it joins the output thread, which has written the last command and waits in `oq.get()`
   for another, and looks at `run` only after that.
5. `gap readPhy` and `gattClient negotiateAttMtu` report the answer for another connection
   (`GapCommands.cpp:730`, `GattClientCommands.cpp:1083`): the callbacks do not compare the
   connection with that of the procedure, and the request of a procedure that timed out is
   not taken back. The run `other_connection` shows it with two commands, on two connections.

Met while reading, outside of what a property says: a service of 256 characteristics, or a
characteristic of 256 descriptors, forgets them all (`RAIIGattService.cpp:47`,
`RAIIGattCharacteristic.cpp:103`), which the models do as the code does; `enableUnsolicitedHVX` adds its handler
each time it is called (`GattClientCommands.cpp:1029`); security events are lost while no
pairing procedure is alive, as nothing else is the handler; an asynchronous result that is
never accessed is flushed unread, return code and all; `BleDevice.flush` passes its timeout
to `device.send` (`ble_device.py:401`; no test calls it); a result of `None` from
`wait_for_output` is not looked at by `allocate`, and an `AssertionError` in it leaves the
board taken (`fixtures.py:136`).

## 5. Proofs

TLAPS proves for every value of the constants what the runs check on small ones.

**EventQueueClassicProofs**: `TypeOK`, `Sorted`, `NeverEarly` and `TickerCovers` are
invariants, for any set of nodes, any delays, any resolution of the clock and any
latency of the interrupt, from `ClockAssumption`. None is inductive by itself. The
invariant `IInv` adds to them, for each event that waits, that the milliseconds
counted by the timer and its remaining time bound what is left of its delay from both
sides: `NeverEarly` needs it when `UpdateTime` takes the counted time off, `TickerCovers`
when a later event becomes the first. `GoodList` speaks of any list and any remaining
times, so that one lemma for an insertion and one for an update of time serve all
actions. The action properties `PostNeverDelays` and `OnlyFractionsLost` follow from the
same invariant. The premise of the first, that the timer goes on and that what waits goes on
waiting, leaves out the steps that restart the timer; the second speaks of all steps.

`QueueImplementsEventQueue`: `EventQueueClassic` implements `EventQueue` (which has no
fairness). The ready events are the front of the list that has no time left
(`ReadyFront`, an initial segment because the list is sorted), the waiting ones the rest.
An insertion of an event without delay extends that front, any other leaves it alone; an
update of time makes a batch of events ready, in the order of their times, which is what
`Batches` allows. Two facts are added to the invariant: the period of an event is one of
the delays, and what is not queued has no remaining time.

**SerialRxProofs**: `TypeOK`, `NeverEmpty`, `OneWakeup` and `InOrder`, for any sizes of
buffer and chunk and any number of bytes, from `SizeAssumption` and `SerialAssumption`.
The strengthening (`IInv`) ties the consumer's place to the buffer: at `"pop"` it is not
empty, which is what makes the exit decision taken inside of the critical section good
after it; `GoodBuffer` says that the contents are the consecutive bytes after those
popped; and the posts find room because at most `MaxOthers` slots are others'.

**PriorityQueueProofs**: `TypeOK`, `NodesConserved` and `ImplementsOrderedQueue`, for any
number of nodes and any priorities (`CapacityAssumption`). `Inv` says that the links from
`head` and from `free_nodes` make two lists that share no node and leave none out (`Linked`),
and that the first is sorted; each is needed for the other, as an insertion finds its place
by the order and would otherwise cut the list. `Path(p, links, s)` says that links lead from
`p` through `s`; the lemmas say what one changed link makes of a path, and that the walk
`Chain` computes is the only path there is. Each call is then an insertion into or a
removal from a sequence, which is what `OrderedQueue` does; a call that does not return
(`looping`) stutters.

**CommandExecutionProofs**: `TimeoutOwned`, `ReadyOnce`, `NeverFull`, `TypeOK`,
`AnswersParse`, and that `CommandExecution` implements the safety part of `CommandLine`: for
any table of commands that meets `TableAssumption`, any number of lines waiting, and an
event queue of three places or more (`CommandsAssumption`; `main.cpp` has ten). The first
three depend on each other: a procedure has its timeout because the post of it finds room,
there is room because no event is posted twice, and `cmd_ready` is not because a procedure
ends once, which it does because it has one timeout. `IInv` is their conjunction with what
the interrupt and the consumer share (`ConsumerPosted`): the consumer is queued exactly when
there are lines and it does not run already. `LenFacts` turns "no duplicates" into a bound
of the length.

`AnswersAlwaysParse` takes the commands apart from what goes on around them. Its hypothesis
is about each command alone (`AnswersAlone`): there are sets of responses, one for each state
of its procedure, that are closed under what its callbacks say and that lead to an answer
that parses. The theorem says that then no interleaving spoils an answer: a late timeout, an
event or the next command never writes to it, and it is never closed early. The hypothesis
holds for the tables of the suites, which `HandlersAnswer`, an assumption of
`MCCommandExecution`, has TLC compute. It does not for the commands of `KnownMalformed`,
which are left out as they are in the run. That a response keeps its type (`TypeOK`) is
proved of any sequence of things said.

**StackCallbacksProofs**: `TypeOK`, `OnlyLiveRegistered`, `DiscoveryConnected`, and the action
properties `AnswersRequest` and `EventsReported`, for any connections, attributes and number of
procedures, from `CallbacksAssumption`. `OnlyLiveRegistered` is inductive with `TypeOK`, by
cases on the places of a kind; `AnswersRequest` is not: it needs that numbers of procedures
grow (`Numbered`) and that each request that has outlived its procedure looks like one of
`late` (`Accounted`).

**ServiceDeclarationProofs**: `TypeOK`, `OneOwner`, `StackServicesAlive`, `CleanupDue` and
`LengthsFit`, for any set of addresses, any lengths and counters of any width, from
`DeclarationAssumption`: no address is `Null` or the name of a place. `CountLimit` is where a
counter of children wraps, 256 in the code; the number of objects is not bounded by it.
`Owned(h, s, c, d, g, l)` says that in the heap `h` the three pointers of the builder, the
list of services and the children account for all that is allocated but `l`, once, and that
`l` was forgotten and belongs to nobody; it is stated of any heap, as most commands pass through heaps between two states (`commit()` adds two
children before a service is deleted). One lemma each for what is allocated, given to an
owner or forgotten by it, handed over to the server, and deleted. `DeleteOwned` is the core: what destructors
delete is closed under children, so that nothing that remains has lost a child.

`ServicesImplementDeclaration`: `ServiceDeclaration` implements `GattDeclaration`. What is
declared is the content of the service together with what is pending in the builder
(`InBuilder`); `CommittedContent` says that `commit()` changes nothing of it, wherever a
count wraps, and each command is then a change of the last characteristic. When a count has
wrapped there may be none: what the builder points to is then out of the declaration, and
the command stutters.

**SerialDeviceProofs**: `TypeOK`, `AnswersOwn` and `EventsKept`, for any number of retries, of
commands and of events (`HostAssumption`), the last two with the premise `OfLastCommand`. Neither of the last two is inductive. The
invariant has three parts. `TInv` has the types and where the main thread is when there is a
device. `OInv` follows the events: those in `events`, in what `wait_for_output` has read, in
`iq` and on the connection have growing numbers, in this order (`InOrder`), although other
threads drop lines and a `flush` empties a queue. `AInv` follows the answer to the last
command, while its result may be asked for (`Live`): the command is in `oq`, with the board,
executed, answered, or was lost while the board booted (`Course`), and what the board has
told since, wherever its lines are (`Stream`), is the corresponding part of an answer.
`EventsHeard` says that the events written meanwhile are ahead of the return code, so that
they have been read when it is. `Alone` says why no other thread interferes: threads exist
only for devices that were created, and the first is alone until a retry. `OnlyConcat` and
`OnlyElems` say what the filter of lines makes of a sequence.

**Recursive definitions.** `Chain`, `Only` and `Say` are recursive functions over positions.
The induction theorems of the library take an operator as parameter, which no backend
instantiates; `FiniteInduction` states induction for a set of positions instead, proved
from the cardinality of intervals. With it one shows that the function a definition describes
exists and is unique, and then what it gives for any length.

Only model-checked: liveness (`ReadyRuns`, `TimedBecomesReady`, `BytesFed`, `AllocationEnds`,
`StopReturnsIfLate` and the liveness in `ImplementsCommandLine`), as the prover does not treat
fairness. All other properties of the passing runs are theorems.

## 6. Not modelled

- The text of answers and events, the parsing of arguments, the serializers: conversions
  without state. A bad argument is an answer of `HandlerAnswers`.
- What the BLE stack does, beyond returning an error or not and calling back or not. It
  is taken not to call back from within the call that starts a procedure.
- `EventQueueMinar.h`, an alternative that `main.cpp` does not use; `Thunk` and
  `SharedPointer`, storage of C++ values.
- The text of events. That the default event handler of Gap prints them is modelled
  (`Printed`), what it prints is not.
- The state of the BLE stack itself: `gattServer read` and `write`, `gap connect` and the
  parameters of advertising and scanning are calls to it and answers from it.
- On the host: the decoding of lines, failures of the serial port, flashing, the choice
  among boards, clock times, the test scripts and their helpers. These run against radios,
  and have no state that outlives a test.

## 7. Plan

In order of importance; all of it is done.

1. `EventQueueClassic` with `EventQueue`; `PriorityQueue` with `OrderedQueue`.
2. `SerialRx` with `CircularBuffer`.
3. `CommandExecution` with `CommandLine`, and the tables of the suites.
4. Proofs of the invariants of the three, and of the safety part of `CommandLine`.
5. `StackCallbacks`, with its proofs.
6. `ServiceDeclaration` with `GattDeclaration`.
7. `SerialDevice`.
8. Proofs that `EventQueueClassic` implements `EventQueue`, of the invariants of 6, and that
   it implements `GattDeclaration`.
9. Proofs of what rests on recursive functions: `PriorityQueue` and its refinement, the
   response in `CommandExecution`, the invariants of `SerialDevice`.

Next would be a model of the two sides together: a board of 3 behind the serial line of 7.
