# Verification of the PRG repository

The repository holds one student's code of the PRG course: small homework
programs (01 to 07), programs for a Nucleo board (08, 09, 11), the distributed
computation of homework 10 and of lab 10, a client of a signal generator
(`10/bab36PRGA-hw9`), and the semester project in `SEM/`, which draws Julia sets
on a PC from values that a board computes. `SEM/` is where three threads, an
interrupt-driven board and an unreliable line meet; most of the project is about it.

TLC checks the models on small instances, TLAPS proves what is said of every
instance. All source paths below are relative to the repository.

## The system and its parts

```
 keyboard -> input_thread --+                          board (main.cpp)
                            v                            main loop, button
                       event queue --> main --------+     ^         |
                            ^       (computation,   |     |         v
      serial_rx_thread -----+        image, window) |  rx ring    tx ring
             ^                                      +--> line       |
             +------------------------- line <----------------------+
```

| Part | State | Operations | What is hard | What makes it correct |
|---|---|---|---|---|
| Event queue (`SEM/event_queue.c`) | ring, `in`, `out`, one mutex, one condition variable | push, pop, cleanup | two kinds of sleepers on one condition; spurious wake-ups; `queue_cleanup` reads `in` and `out` unlocked | a bounded FIFO; no lost wake-up; cleanup does not block |
| Host threads (`SEM/prgsem-main.c`) | `data`, `mtx`, the messages on the heap | keys, received messages, the event loop, quit, cleanup, joins | pushes made while `mtx` is held; two kinds of EV_QUIT; reuse of the event of a message | `q` ends the program and stops the board; every message is freed once |
| Computation (`SEM/computation.c`) | `comp`: chunk number, corner, flags, grid | set, compute, abort, reset, resize, store | the number and the corner of a chunk move separately; flags set in five functions | a value is stored at its own pixel; done means complete |
| Firmware (`SEM/main.cpp`) | chunk, `i`, `j`, `pixel`, `computing`, `abort_request` | messages, one pixel per round, button, reset | the button interrupt; a request while computing | pixels row by row; a chunk is left only with a report |
| Line, both directions (`main.cpp`, `prgsem-main.c`, `messages.c`) | two rings, interrupt flags, two receive buffers | send, interrupts, read, discard, `receive_message` | the interrupt stops itself; messages longer than the ring; a wait without a timeout; lost bytes; an unknown first byte | the messages arrive whole, once, in order, until a byte is lost |
| Image (`computation.c`, `gui.c`, `xwin_sdl.c`) | the sizes of grid, chunks, picture, window | change of size and of c, refresh | four copies of the size; bytes that overflow | the copies agree; the chunks tile the image |
| Homework 10 (`10/b3b36prg-hw10`) | three threads, queue, a toggled flag, the board's tasks | keys, messages, tasks, quit | MSG_OK toggles the flag: which request it answers is guessed | the flag is the board's |
| PRGA homework 9 (`10/bab36PRGA-hw9`) | three threads, queue, two pipes | set, request, abort, receive, quit | chunks of two signals look alike; a discarding pause; a read error in a loop | what is drawn is one signal; `q` ends the program |
| Lab 10 (`10/prg-lab10`) | three threads, a condition variable | count, show, key | waits and signals without a predicate | a key ends the program |
| Homework 9 (`09/HW09`) | four threads, characters both ways, a ticker | keys, characters, display | a timeout is taken for a character; an uninitialised one is handled; the same display loop | no light counted twice; `q` ends the program |
| Homework 6 and 7 | ring that grows, two linked lists | push, pop, insert, erase, clear | long sequences of legal calls | a FIFO; a sorted list; entries owned once |
| Homework 1 to 5 | nothing beyond a run | read, compute, print | the order in which the calculator reads and computes | the answer is the one the task defines, which the factors of homework 2 are not beyond its sieve |

The hazards of each part, at the line where they bite, are listed in
`PROJECT.json` with the properties that cover them.

## Modules

| Module | Models | State and actions |
|---|---|---|
| `BoundedFifo` | what the event queue promises | a sequence of at most `Bound` events; put, get, close |
| `EventQueue` | `event_queue.c` | one step is one passage through the critical section: it falls asleep, or works and broadcasts; `pc` says where each thread is; `CleanupTest` is the unlocked test |
| `HostThreads` | the three threads of `prgsem-main.c` | the queue is the sequence of `BoundedFifo`. A section under `mtx` is one step unless it contains a `queue_push`, which may wait with `mtx` held (`KeyAccepted` then `InputPush`, `HandleDone` then `MainPushCompute`) |
| `Computation` | `computation.c` | operators on a value of `comp`, one per function; the specification calls them in any order. `asked` is what chunks were asked for, at which size: data of any of them may come at any time |
| `HostImage` | the sizes kept in `computation.c`, `gui.c`, `xwin_sdl.c` and what t, u, +, -, d do | one action per event of main; `ChangedImageSize` is the chain of cleanups and inits |
| `Nucleo` | the loop of `main.cpp` | a round is `Check` (button), then a message, a pixel, or MSG_DONE; `Button` and `Restart` may come at any time |
| `SemSystem` | everything above the line | instances of `Computation` and `Nucleo`, the event queue joined with the link from the board, the handler of each key and each message |
| `MessageLink` | what the line promises | messages on the way, whole and in order, until it breaks; what comes before the receiver listens is missed, not taken |
| `SerialToHost` | `send_buffer`, `Tx_interrupt`, `serial_rx_thread` | bytes that know their message and place |
| `SerialLine` | both directions at once | `SerialToHost` with `send_message` of the host, `Rx_interrupt` and `receive_message`; one main loop either sends or receives, one interrupt is masked by both |
| `TaskHost` | homework 10, host and firmware | as `HostThreads`, with the content of the messages, over a link of whole messages; a key that reads as 0 ends the keyboard's thread as in the code |
| `PipeClient` | PRGA homework 9 | three threads around a queue, two pipes, a generator assumed to answer each request with its chunks or to break off with MSG_ABORT |
| `CounterThreads` | lab 10 | three threads; a condition variable with one waiter |
| `LedClient` | homework 9, client and board | four threads, characters both ways, the ticker's interrupt |
| `RingQueue` | homework 6 | the array with its indices and sizes; `due` is what `queue.h` promises |
| `LinkedList` | homework 7, list of ints | reachable nodes as a sequence; `last` is a place in it, NULL, freed or stray |
| `GenericQueue` | homework 7, queue of pointers | the same, with the two callbacks, set one by one, and the owner of each entry; implements `LinkedList` |
| `ListNodes` | the loops of `erase()` in homework 7 | what they leave of the nodes; shared by the two lists |
| `MatrixCalc` | homework 5 | one round of the reading loop is a step |
| `SmallPrograms` | homework 1 to 4 | each program an operator from its input to what it prints |
| `MCQueue`, `MCParts`, `MCPrograms` | | instances for TLC of several components that share nothing: a variable says which one a behaviour is about, so that one run checks them all |
| `*_proofs` | | the theorems |

How the code maps to them, where it is not obvious:

* **Grain of the host.** `main` handles an event with `mtx` held and pushes at
  most one event while doing so. In `SemSystem` a handler is one step; in
  `HostThreads` it is one step or, if it pushes, two. The push in
  `EventQueue` is one passage through `q.mtx`. `BoundedFifo`, which
  `EventQueue` implements, is what `HostThreads`, `TaskHost` and `PipeClient` use as
  their queue: a sequence with its guards. The three programs carry copies of the same
  `event_queue.c`.
* **Wire and queue in one.** `SemSystem` keeps the messages on the wire and the
  events in the queue in one sequence. A key can thus come before or after any
  message; a message still on the wire behaves as one the board has not sent.
  `SerialLine` shows each direction of the line to be the ordered link that this needs
  (`LinkSpec`, `BoardLinkSpec`), as long as no byte is lost. What the host's thread
  discards when it starts (prgsem-main.c:372) is missed, in the terms of `MessageLink`; `SemSystem`
  begins when it listens. The discard loop ends at the first timeout, and `DiscardEnd`
  presumes that the timeout meets silence: one in the middle of a message would shift
  the framing as a lost byte does.
* **A reset of the board.** `Restart` of `Nucleo` takes away what the board knew and what was on the
  way to it up to some message, but no message on the way to the host, although `tx_buffer`
  is lost too. The host cannot tell the difference: a board that stood still before the first message
  that is lost, and was then reset, has shown it the same (the reset takes the
  orders it would have read from then on). A message cut on the wire is one that lost bytes,
  which is the subject of `SerialToHost`, not of `SemSystem`.
* **A key that is 0.** `getchar` may return 0, which ends the loop of `input_thread` (prgsem-main.c:285)
  without `data.quit`: main leaves its loop and joins a serial thread that nobody tells to end.
  `ReadZero`, `PressZero` of `TaskHost`, are that key, `Untold` the wait.
* **Complex numbers.** `chunk_re` and `chunk_im` move in the same statements as
  `cur_x` and `cur_y`, so the pixel stands for both. An iteration count is
  represented by the pixel and the image size it was computed for, which is
  what the properties need: a value stored in the wrong place can be told.
* **What a grid element is worth.** `SemSystem.grid` holds `unset`, `good`,
  `unprepared` (right pixel, but computed without MSG_SET_COMPUTE for this
  image) or `alien` (a value of another pixel).
* **Idle board.** `sleep()` (main.cpp:192) is not a state of its own: a message
  has two bytes or more, so that the interrupt of the second one wakes the CPU
  even if the first came just before `sleep()`.
* **Undefined values.** On an unknown first byte `serial_rx_thread` compares a
  `len` that was never set; `SerialFailUnset` lets either happen. A message that
  did not parse has an uninitialised type; it may be any of `Messages`. The
  uninitialised `c` of homework 9 may hold any of `Leftovers`.
* **Pointers to freed nodes.** `LinkedList` and `GenericQueue` do not let the program
  crash on one: a node pushed behind it is linked to memory that nobody reaches,
  and is counted in `cutOff`.

## Runs

| Run | Instance | What it shows |
|---|---|---|
| `queues` | `EventQueue`: two pushers, main, 4 slots, 2 events; `TaskHost`: a queue of 2, 2 keys, 2 messages on the link | no lost wake-up, no common sleep, cleanup does not block, and the ring implements `BoundedFifo` with its liveness; homework 10 and its board agree on who computes, and it ends when asked to, up to the jams and the wait after a key of value 0 |
| `host` | queue of 2, 2 keys and `q`, 3 messages | the heap is exact, `q` aborts a running computation, main is told when a thread has gone, and `q` ends the program unless a full queue jams it in one of the three ways `Jammed` names; so does the key value 0, unless the serial thread is `Untold` |
| `host_mtx_deadlock` | queue of 3 | a thread waits for room holding the mutex that main needs (violation) |
| `parts` | `Computation`: images of 6 x 4 and 8 x 6 in 2 x 2 chunks, changed to and fro, with data of every chunk ever asked for; `HostImage`: the sizes of the code, 640 x 480 changed by 160 at a time up to a width of 2800 and down to no height; `Nucleo`: chunks of 2 x 2 and 3 x 1, 2 messages on the way | the corner follows the chunk number and values of the present size are stored in place, whatever is called; the four copies of the size agree, no change is carried over to the next, and the chunks tile the image up to where a byte wraps; the board sends row by row, inside the chunk, and never ends silently; no deadlock |
| `sem` | a user who waits before `s`, `1`, `r` and `c`, and presses `a` and `l` at any moment, 4 keys, two presses of the button; explored while `Uncrossed` | done means complete; the host does not stay in the belief that it computes; an abort sticks; a computation that was set ends or is aborted |
| `sem_wild` | 3 keys at any moment, a button press, a reset of the board, a new size when all is quiet | nothing is ever stored at a foreign pixel |
| `sem_resize` | as `sem_wild`, the size changed at any moment | data of the old size are stored at foreign pixels (violation) |
| `sem_abort_restart` | `s`, `1` and `a` at any moment | after an abort the computation restarts by itself (violation) |
| `serial_line` | rings of 3 bytes, messages of 2 and 3, two each way, one byte lost in either direction | each direction is one stream of bytes, the transmitter is never off with bytes waiting, and each direction implements `MessageLink`, liveness included |
| `serial_lost_byte` | board to host only, ring of 4 | after a lost byte a message that did not parse is pushed (violation) |
| `programs` | homework 6: a ring of up to 6; homework 7: lists of up to 5; homework 5: expressions of up to 5 matrices; homework 1 to 4: numbers up to 50 over the primes up to 6, inputs at the limits of the others; `PipeClient`, `CounterThreads`, `LedClient`: queues of 2, 2 or 3 keys, one message dropped, signals the generator breaks off | homework 6 is a FIFO and its last loop ends; the lists of homework 7 stay sorted and own each entry once; the calculator computes what arithmetic says; the small programs answer what their tasks define, but for the last factor; each program with threads ends when asked to, up to the waits that the property names; PRGA homework 9 draws no mixture of two signals; homework 9 counts no light twice |
| `prime_factors` | the numbers of `programs` | no ` x ` stands before the factor left beyond the sieve, 14 being answered `27` over a sieve of 6, and that factor need not be a prime (violation) |

**Why the bounds are enough.** The ring of 4 slots wraps many times, is full with
three events, and both kinds of waiters meet. A queue of 2 makes each push of
the host wait in some interleaving, and some behaviours never fill it. Two by two
chunks are the least with a next chunk in the row, a next row and a last chunk; the
images have chunks of one row and of several. For the sizes the numbers are those of
the code, since a byte is part of the question. Chunks of 2 x 2 and 3 x 1 tell
rows from columns. Keys, button presses, resets and messages are bounded by counters
(`MaxKeys`, `MaxButtons`, `MaxRestarts`, `MaxMsgs`, `MaxTyped`, ...): each
property needs at most three of them to break in its mutated form. In `serial_line`
a message of 3 does not fit a ring of 3, which holds 2: `send_buffer` and the Rx
interrupt have to wait inside a message. A ring of 6 in homework 6 is reached by growing
from 1 or 3 and wraps before and after it grows. Lists of 5 have a first, a last and
inner nodes with equal keys. With a sieve of 6, 14 is the least number that shows the missing sign and 49 the
least with two prime factors beyond it. `sem` stops exploring where an abort crosses a report (`Uncrossed`, a
constraint of its cfg): from there on `sem_abort_restart` shows what happens. Five matrices
allow every order of `*` between `+` and `-` that the look-ahead of the loop tells apart.
`CHECK_DEADLOCK FALSE` stands where the system may stop: with the bounds used up,
when the programs have ended, or in the deadlocks that `Jammed`, `host_mtx_deadlock` and the
`...QuitEnds` properties name.

**Fairness.** A thread of a host, the loop of a firmware and an enabled
interrupt go on when they can (weak fairness of their steps): the scheduler, the
hardware and the mutexes give that much. In `SerialLine` the two interrupts and the
board's receiver share the CPU and the mask; each pending interrupt is taken
when it is unmasked again and again, which is strong fairness (`LineTx`,
`Rx_interrupt`, `Receiver`). `getchar`, the buttons, the reset, the tickers, the loss of
bytes and the sending of messages have no fairness: nobody has to press a key.
In `HostThreads` a read of the line times out after `SERIAL_READ_TIMOUT_MS`, which
makes `SerialQuiet` a step of the thread. In `SerialToHost` the discard loop at the
start ends when the board has been silent for a timeout (`DiscardEnd`). In
`RingQueue` only the loop at the end of main has to go on.

## Proofs

| Theorem | Statement | Idea of the invariant |
|---|---|---|
| `EventQueue_proofs`: `TypeCorrect`, `NoWakeupIsLost`, `CleanupIsSafe`, `SomeThreadIsAwake` | for any threads, events and capacity above 1 | every step that makes the ring not full or not empty broadcasts, so nobody is asleep then; while `queue_cleanup` runs, only main takes events out, so what it saw stays |
| `EventQueue_proofs`: `ImplementsFifo` | initial states and steps map to those of `BoundedFifo` | the contents are `Count(in, out)` slots from `out`, modulo the capacity; a push appends, a pop takes the head |
| `Host_proofs`: `QuitStopsBoard`, `NobodyLeavesUnheard`, `MessagesFreedOnce` | for any capacity and number of keys and messages | see below |
| `Computation_proofs`: `ChunkInImage`, `CursorFollowsCid`, `DataInPlace` | for any `Divide`, and image sizes that are its multiples and whose chunks fit a byte | the image is tiled exactly by `Divide * Divide` chunks; while computing, `cid` is below that number; `(cur_x, cur_y)` is the corner of chunk `cid`, so `Index` is the place of the pixel; what was asked for at the present size was asked for at that corner |
| `Host_proofs`: `SizesAlwaysAgree`, `NeverCarriedOver` | for any sizes, steps and bounds | each of the four functions leaves an agreeing image or has ended the program; what is counted belongs to a change being made |
| `Host_proofs`: `ImageIsTiled` | for any sizes and steps that are multiples of `DivideConstant`, if the image starts no higher than wide | the sizes and the change being made stay such multiples, and the height is at most the width |
| `Nucleo_proofs`: `BoardTypeCorrect`, `PixelsStayInOrder`, `NoSilentEnd` | for any set of chunks and any number of messages on the way | the messages of both links are well formed, and `pixel = j * n_re + i` with `i < n_re` |
| `SemSystem_proofs`: `SystemTyped` | for any image, keys, buttons and resets | the grid is as large as the image; at most one change of the size is on the way |
| `SemSystem_proofs`: `AbortIsFinal` | if `start` waits until all is quiet, in the behaviours that are always `Uncrossed`; `abort` and all other keys, the button and resets at any moment | one chunk: it is wished for, asked for, or computed, never two of these at once (`OneChunk`); nothing comes behind an abort (`AbortLast`); after an accepted abort nothing leads main to ask again, and what the board was asked for a MSG_ABORT follows (`Stopping`) |
| `SemSystem_proofs`: `WritesAreAligned` | if `resize` waits | chunks and data on the way are of the present tiling, their pixels inside a chunk |
| `SemSystem_proofs`: `HostIsInSync` | if `start`, `abort` and `resize` wait, without resets of the board | the data of a chunk come before the report of its end; at the last chunk the pixel that ends it is still to come |
| `SemSystem_proofs`: `PartsKeepTheirWord` | for any image, keys and resets: what `Nucleo` and `Computation` promise alone holds in the system too the pixels of the data on the way lie inside the chunk they name, whoever asked for it |
| `SemSystem_proofs`: `DoneIsComplete` | if `start` and `abort` wait, without changes of the size and resets of the board | see below |
| `SerialLine_proofs`: `TransmitterStaysOn`, `LineTransmits` | of `SerialToHost` and of `SerialLine`, for any ring and message lengths | the ring is empty or `send_buffer` is at work whenever the interrupt is off |
| `SerialLine_proofs`: `BytesStayInOrder`, `LineStaysInOrder` | the same, for any number of messages | buffer, wire and ring are one sequence; its last byte is the one put last, or the end of a message, so the next one put follows; what the host has of a message is a beginning of it, of fewer than `len` bytes |
| `SerialLine_proofs`: `OrdersStayInOrder` | for any ring, lengths and number of messages to the board | the same chain from `serial_putc` over the receive ring to what `receive_message` has read |
| `SerialLine_proofs`: `ImplementsLink`, `LinesImplementLinks` | initial states and steps map to those of `MessageLink`, in one direction and in both | the first byte of the sequence is from the message after the last that is gone, or, while the host discards, from that one; what is gone before the host listens was missed (`Gone`); an empty sequence means that all that was sent is gone |
| `Programs_proofs`: `LightsCounted` | for any number of keys, lights and characters on the line | the `x` counted, on the line, and read but not handled, are together at most the `x` sent and the one the variable may hold at first |
| `Programs_proofs`: `PlotIsOfOne` | for any number of requests, chunks and lost messages, unless a signal was requested while another was on its way | every chunk on the way is of the last request; a request that the generator has not taken is the next thing it takes, with nothing of a signal anywhere |
| `Programs_proofs`: `FlagFollowsBoard` | for any number of keys and tasks and any bounds, unless a command crossed MSG_DONE | the flag, run through the event in hand, the queue, the message read and the reports on the line, ends as `working` |
| `Programs_proofs`: `RingHolds` | for any values and capacity | element `k` lies `k` places after `first`, modulo the capacity; growing keeps that if `first` is the first of the array |
| `Homework_proofs`: `ListStaysSorted` | for any values and length | insert finds the place of the value whatever the capacity says, and what erase leaves keeps its order |
| `Homework_proofs`: `EntriesHaveOneOwner` | for any entries and keys | the capacity counts what was given and neither popped nor cleared; with `last` NULL nothing of it is in the list |
| `Homework_proofs`: `QueueImplementsList` | initial states and steps of `GenericQueue` map to those of `LinkedList` | the keys of the entries are the list; erasing entries by their key erases the keys, and `last` comes to the same place |
| `Homework_proofs`: `CalculatorIsRight` | for matrices of any sizes and inputs of any length | while the input is read, m1 is the value of the terms before the last, m2 the product of the factors of the last, or m1 of all |
| `Homework_proofs`: `ProgramsAnswerSoundly` | for any inputs and any sieve whose limit is no prime | what each program prints is the answer to its input, as far as `AnswersSound` claims it; see below |

`QuitStopsBoard` is the least obvious. `q` sets `data.quit` and pushes EV_QUIT, on
which main sends MSG_ABORT; the serial thread, seeing `data.quit`, pushes an EV_QUIT
of its own, on which main leaves without MSG_ABORT. The invariant: `mtx` is held
from the one to the other (`PushUnderMtx`), so once the serial thread can see
`data.quit`, the keyboard's EV_QUIT is in the queue, in main's hands or handled
(`QuitTold`, `LeavesOnQuit`), and each EV_QUIT of the serial thread has it in front
(`QuitFirst`). It is stated for a serial thread that has not failed: a failed
one ends the program by itself, and then main does not abort.
`NobodyLeavesUnheard` follows the EV_QUIT of either thread through the queue into main's hands.
`LineTransmits` and `LineStaysInOrder` take the proofs about `SerialToHost` over to the whole
line: the other direction leaves those variables alone, masks the same interrupt, and
throws bytes away once the host's thread has ended.
`MessagesFreedOnce` counts the queued messages by their positions: a push adds one
position or none, a pop moves the others down one to one.

The theorems about `SemSystem` say in their hypotheses which keys a user presses only when
all is quiet (those not in `Hasty`). They are the conditions under which the properties are
true of the code: with a hasty `start` an abort is undone, and so it is when it crosses
the report of a chunk (`sem_abort_restart`); a new size during a computation stores data at foreign
pixels (`sem_resize`), and a reset of the board leaves the host waiting. `sem` satisfies those of
`AbortIsFinal`, and goes beyond `HostIsInSync` and `DoneIsComplete`, whose hypotheses leave no
`abort` for a computation that runs: within its bounds the two hold with it as well, while `Uncrossed`.
`sem_wild` satisfies that of `WritesAreAligned`.
`AbortIsFinal` is about the abort by key while the board computes or has just been asked to, which
the user cannot know. Without `Uncrossed` it is false; with it, what is shown is that no other order of
requests, pixels, presses of the button, `r`, resets and keys restarts the computation.
A key that waits is alone in the system when it is handled (`Patient`), from
which the one token follows (`OneToken`). `DoneIsComplete` is the longest proof. Its invariant (`Flow`): as long as the image is
not complete, the chunks before the present one are stored, and the present one is asked for,
or computed with the pixels before `pixel` stored or on the way, or reported with
all of them stored or on the way, in the order of the pixels. So when the last pixel of the last chunk
is stored, which sets `done`, the others have been. It rests on
`Computation_proofs`, where every element of the grid is shown to be the place of exactly one pixel of
one chunk (`SpotInside`, `SpotFound`), and the invariant of `Computation`
holds for each value of `comp` here.

`CalculatorIsRight` compares two orders of evaluation: the code multiplies and adds from the left as it
reads, `Value` takes the whole input, multiplies each term from the right and sums over
the set of terms. It needs that the product is associative (`MultiplyAssociates`, from
`DotSwap`, the exchange of two sums), that a sum over a finite set does not depend on the order in
which it is taken (`SigmaSplits`), and that `ProductOf` is what its recursive definition says
(`ProductIs`). Its integers are unbounded: that an element overflows an `int` is not modelled.

`ProgramsAnswerSoundly` has one proof for each program. Of the house, the drawing is read row by row
(`HouseRows`), the pattern and the planks by their parity. Of the factors: after the primes up to
`p` have been tried (`OneTried`, an induction over `p`) the number is the product of what is printed
times what is left, and that has no divisor from 2 to `p` (`Found`). The sieve crosses out only
products (`CrossedAre`). The theorem claims neither that the rest beyond the sieve is prime nor that its
sign is printed: neither is so (`prime_factors`). Of the cipher: `shift_letter()` is addition modulo
52 on the letters (`ShiftLetterIs`), so the rotations are the texts tried. Of grep: the
comparison from each place whose letter is the first one finds the pattern wherever it
occurs (`FindMatchIs`), and the lines printed after `k` lines are the ones selected from them
(`Selected`, an induction over `k`). The integers are unbounded here too.

What a loop computes (`erase()`, the factors, the flag after a number of events, a sum) is shown by induction
over a set of numbers, `Nat` being included in the set of those that have the property
(`SetInduction`), from the least one that has not; or likewise over the subsets of a finite
set (`SubsetInduction`).

The assumptions on the constants (`...Assumption` in each module) are evaluated by
TLC in the runs of their modules. `SizeAssumption`, which `SemSystem` has for its images too
(`ImageAssumption`), is the strong one: 640, 480 and
the step of 20 are multiples of 10, and an image whose chunks do not fit a byte is
excluded from `Computation` (what happens there is in `HostImage`). `ImageIsTiled` has the hypothesis
that the image starts no higher than wide, as 640 x 480 does: the
property speaks of images whose width in chunks fits a byte, and in a higher one
`chunk_n_im` could wrap instead. The others bound nothing but the bounds of the models
(`OrderBoundAssumption`, `ListAssumption`, `TaskAssumption`, ...), `InputsAssumption` says what can be
typed into homework 1 to 4 (integers, positive numbers, words of letters, any lines), and `CalcAssumption` says what a
matrix is: rows of one length, at least one of them (a matrix of no rows has
columns in the code, and none as a sequence of rows).

**Only model-checked:** the liveness properties, because temporal proofs under fairness are out of
the prover's reach: the fairness of `FifoSpec`, `LinkSpec` and `BoardLinkSpec` (their initial
states and steps are proved), `QuitEnds` and its relatives, `Completes` and
`DrainReachesEnd`. Every invariant and every action property of a passing run is
stated by a theorem.

## What the code does that its texts do not say

* `host_mtx_deadlock`: prgsem-main.c:350 pushes with `mtx` held. With 15 events in
  the queue it waits for a pop, main waits for `mtx`, and the three
  threads stand still. `event_queue.c:66-67` speaks of a wait for a pop.
* `sem_abort_restart`: prgsem-main.c:232-243 asks for the next chunk on any
  MSG_DONE. One that the board sent before it got MSG_ABORT undoes the abort: the
  event main pushes clears `comp.abort`, and since `comp.computing` is false it starts
  from chunk 0.
* `sem_resize`: prgsem-main.c:160 applies a new size while data of the old one are on the way;
  computation.c:210 compares the chunk number alone, does not say that it "cannot align data to
  the grid properly" (222-223), and stores them in the new grid.
* `prime_factors`: main.c:127 of homework 2 prints what is left beyond the sieve
  as "case for prime as an input": without the ` x ` of the reference outputs
  (`data/pub05-m.out`: "2 x 7"), so that 2 * 1000003 is answered with `21000003`, and also when it is
  a product of two primes.
* `serial_lost_byte`: prgsem-main.c:391-395 reports that a message does not parse, and
  pushes it all the same.

Seen while modelling, without a run of their own. In `SEM/`:

* main waits for itself: MSG_DONE with a full queue makes main, the only reader,
  push (line 238). It is one of the three ways in `Jammed`.
* A message pushed after `queue_cleanup` (line 264) is not freed; the process ends.
* Two start keys read before the first is handled both pass the test of
  `data.computing`: the second makes `compute` step to the next chunk while the board
  answers for the first, whose data are then refused (`AlignedWrites` holds).
* After a reset of the board `comp.computing` stays set: `s` is refused and
  the next start asks for chunk `cid + 1`, without parameters on the board.
* A new size applied during a computation sets the chunk number to 0 but leaves
  `comp.computing`: the next request is chunk 1. The new grid is not initialised either.
* `c` pressed right after an abort clears `comp.abort` (line 121) while the board still sends. A last
  pixel that comes then sets `done`, although the chunk it ends is not complete in the grid (`calc_on_pc`
  fills the picture, not the grid). In `sem` the user therefore waits before `c`.
* A key of value 0 (line 285) ends the keyboard's thread and main's loop, not the serial thread: main's
  join waits for ever (`Untold`). Homework 10 has the same loop (hw10-main.c:223).
* A width from 2560 on makes `chunk_n_re` wrap: at 2560 the number of chunks is a
  division by zero, above it they are far too many. A height below 10 divides by zero too.
* `calc_on_pc` starts at index -3, so each pixel is stored one place to the left and the
  first one before the array; and it takes t = k / n where the board takes k / (n + 1).
* The board waits for the rest of a message without a timeout (main.cpp:268): one byte lost
  on the way to it stops the computation and the button until the next message
  comes, which is then read as the rest. An unknown first byte is never
  taken out of the ring, and the board computes no more (`deaf`).
* After a timeout the host keeps the bytes it has read, so a message may be put together
  from two.

In the other programs:

* Homework 2: `arr[N]` has the indices up to N - 1; lines 67-69, 73 and 86 of main.c write and read
  `arr[N]`. The model has that element, and not what the write destroys: with N = 10^6, which is
  crossed out, it sets some other variable, or padding, to 1.
* Homework 6: the ring grows in place, so that growing while it wraps loses the oldest
  elements (`damaged`); shrinking calls itself without end (queue.c:79 and 123); a capacity of 0
  frees the array twice.
* Homework 7: erasing the last element of `linked_list.c` leaves `last` pointing to the freed
  node, and a push behind it is lost while `size()`, for linked_list.h:51 "the number of stored items",
  counts it. `getEntry` of queue.c answers `(void *) -1` for an index out of range, where queue.h speaks of NULL.
* Homework 9: `start()` of the firmware waits while there IS a character
  (`while (serial.readable());`), so a key typed early hangs it, and drops the first command
  otherwise; the answers are attributed to the last command sent, whichever it was.
* PRGA homework 9: pipe_io.c:81 overwrites `end`, so that a read error is reported in a loop
  until `q`; `queue_cleanup` frees only events of the type it tests first and leaks the
  others; `signal_param` is read without the mutex (prga-hw9.c:169).
* Homework 10: the serial thread looks at `end` on a timeout only; a MSG_OK does not parse
  but is pushed; the flag set by the button's interrupt is shadowed (main.cpp:68).
* Lab 10 and homework 9: the thread that prints waits without testing anything. If the last
  signals come while it prints, nobody signals again and main's join waits for ever; the
  `...QuitEnds` properties name that state.

## Not modelled

The plotting library `10/bab36PRGA-hw9/otk_lib` is third-party drawing code
of 11 500 lines, more than a third of the repository's source, and the same homework
is often there several times (lab 10, homework 7, 9 and 10, the drafts
`petrmain.c`, `mainfirst.cpp`, `hw10old.c`): a copy is not modelled again. For
these two reasons most lines of the repository stand for nothing here.

Of the programs modelled: `update_image` and the arithmetic of `calc_on_pc` and of the
firmware (floating point, one pixel at a time, no state); the drawing and the SDL
window but for its size; calls of the operating system; reading and formatting of
characters in homework 1 to 5; the generator of PRGA homework 9, which is not in the
repository, beyond its answers and its MSG_ABORT; the counters and the period shown by
homework 9. The practice and exam programs and the demos of 08 and 11 keep
no state that outlives a call.
