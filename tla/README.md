# Verification of bmos in TLA+

bmos is a small real-time kernel for Cortex-M micro-controllers with the
drivers, libraries and applications around it.  This directory holds TLA+
models of it, the TLC runs that check them, and proofs that TLAPS checks.
Paths below are relative to `src/modules/`.

## 1. Inventory

| component | state | operations | who calls it | what makes it correct |
|---|---|---|---|---|
| task switcher `os/bmos/src/task.c`, `hal/cpu/arm` | run list, per task state, sleep, status, next_waiter; CURRENT, NEXT; PendSV pending | task_init, task_start, task_delay, task_wake, schedule, SysTick, PendSV, task end | every task; semaphores and mutexes | only a ready task executes; the highest priority runs; peers take turns; sleeps end |
| waiter lists `task.c:306-360` | first, last of each object, next_waiter of each task | add, remove, wake first | semaphores, mutexes | a list holds the waiters, once, in order |
| semaphores `sem.c` | count, waiter list | post (tasks, interrupts), wait with timeout | queues, drivers, USB glue | no unit lost or made up, no wakeup lost, timed waits end |
| mutexes `mutex.c` | count, owner, waiter list | lock with timeout, recursive, unlock | USB glue | mutual exclusion, the asserted owner |
| queues and pools `queue.c`, `op_msg.c` | linked list, semaphore or counter, callback | put, wait, get, return | every task and driver | no message lost, doubled or used while queued; get never meets an empty list |
| registry `reg.c` | table of kernel objects | register, print | kernel, shell | - |
| circular buffer `std/src/circ_buf.c` | next_in, next_out | write, read, space | UART receive | first in first out, never overrun |
| UART drivers `hal/stm32/core/src/stm32_usart_{a,b}.c`, rp2040 | message in transmission, TXEIE, ring, pool, counters | open, put callback, pool callback, interrupt | shell, esp_at, onewire | transmission never stalls, received bytes in order, lost ones counted |
| output and shell input `std/src/io.c`, `appl/shell/src/mshell.c` | output queue, static message of _xgetc | xputs, _xgetc, io_set_output | all tasks that print | a text is printed to its end, no deadlock on the system pool |
| telnet server `prot/net/lwip/apps/test/src/lwip_test.c` | connection | accept, receive, close, put callback | network task, tasks that print | messages come back to the pool, lwIP called with a connection only |
| shell `appl/shell/src/shell.c` | line, history | input of a character | mshell | the line shown is the line executed |
| system log `appl/xslog` | ring of entries, two messages, missed counter | xslog, log task | all | every entry logged or counted |
| fast log `std/src/fast_log.c` | ring, index | log, dump | all, interrupts | entries whole |
| CAN `stm32_can.c`, `stm32_fdcan.c` | transmit slots, queues | open, put callback, interrupts | can_test | every queued message sent, in order |
| I2C, SPI | shared transfer record, semaphore | transfer, interrupt | clock and display tasks | one post per transfer |
| key-value log `lib/kvlog` | two flash stores of records, which is in use, the next free slot | set, get, delete, erase, copy, start | esp_at, shell | a call that returned keeps its effect over loss of power, no word programmed twice |
| flash `hal/stm32/core/src/stm32_flash.c` | the sectors | erase, program | kvlog, boot loaders | only what is erased is programmed |
| XMODEM and boot loaders `appl/xmodem`, `appl/prod/proto-boot` | packet state, timeout, retries; blocks programmed | byte, silence, block callback; command, boot | user, sending program | flash holds the beginning of one image; success only for a whole one; transfers end |
| allocator `lib/libc_min/src/malloc.c` | free list | malloc, free, realloc | all | blocks disjoint |
| ESP and one-wire clients | line buffer, connect state | task loops | products | answers matched to requests |

The rest is pin tables, register sequences, drawing, the C library, and
third-party code (lwIP, TinyUSB, dlmalloc, vendor headers).

**How the parts interact.**  Tasks call the kernel; interrupt handlers call
sem_post, msg_get, msg_put and msg_return.  A queue is of one of two kinds: a
task queue has a semaphore on which a task waits; a driver queue has a counter
and a callback, by which a put starts the device.  A pool is a queue to which
messages return.  Everything that is shared is protected by disabling
interrupts for a few lines.

**What is hard.**  One core, but three kinds of preemption: SysTick (highest
exception priority), device interrupts and PendSV (both the lowest; PendSV has
the smaller exception number and goes first).  schedule() does not switch, it
makes PendSV pending, and the switch happens when interrupts are enabled.
Wakeup and taking of what one was woken for are separate critical sections, so
are the two halves of a put and of a wait.  Timeouts make a waiter ready
without taking it off the waiter list.  `PROJECT.json` lists the hazards with
their lines.

## 2. Modules

| module | models | state and actions |
|---|---|---|
| `BmosTaskList` | task_init, task_start: the construction of TASK_LIST | the list as pointers; one action per creation |
| `BmosTask` | task.c: scheduler, handlers, delay, wake, end, waiter lists | the fields of bmos_task_t, bmos_task_list_t and sched_data; one action per critical section and per handler |
| `BmosWait` | the wait loop sem.c:100-114, mutex.c:75-88 | the frame of a task in the loop: which object, which timeout |
| `BmosSem` | sem.c | `sem_wait_ms` up to its first sleep, `sem_wait_resume` for every later round, `sem_post` |
| `BmosMutex` | mutex.c | the same for lock, and `mutex_unlock` |
| `Bmos` | tasks and interrupts on the kernel | composes the three; the constants say which calls a task makes, the order is open; states all properties |
| `Semaphore` | nothing in the code: what a semaphore promises | queue of sleepers, woken and expired tasks |
| `Subsequence` | nothing in the code | the elements of a sequence that are in a set, without recursion |
| `MCBmos` | - | three tasks and idle, two semaphores, one mutex; the call sets of the runs |
| `BmosProofs` | - | theorems about `Bmos` |
| `BmosTaskListProofs` | - | the theorem about `BmosTaskList` |
| `InductionLemmas` | - | induction, linked lists, subsequences: what the proofs about lists rest on |
| `BmosQueue` | queue.c | pointer lists and counters; put and wait in their halves |
| `BmosMessages` | tasks and handlers exchanging messages | who puts and gets where, who can run when; the properties |
| `MCMessages` | - | three messages, a pool, a task queue and a driver queue, two tasks and one handler |
| `BmosMessagesProofs` | - | theorems about `BmosMessages` |
| `CircBuf` | circ_buf.c | operators on the record of array and indices |
| `ByteFifo` | nothing in the code: what a circular buffer promises | a bounded queue of bytes: a write takes the first of the bytes offered, and only those, a read gives the oldest |
| `CircBufUser` | any user of one buffer | the buffer `ring`, the bytes `offered` to a write, how many it has `taken`, what a read `got`; the refinement of `ByteFifo` |
| `CircBufProofs` | - | what the operators do to the content; the refinement proved |
| `Usart` | stm32_usart_b.c, with and without FIFO, its users and the USART | uart_t, the flags of the USART, the pools' and queues' sizes; the handler, the two callbacks, the line |
| `MCUsart` | - | one or two tasks, short messages; the constants of the three UART runs |
| `UsartProofs` | - | theorems about `Usart` |
| `KvMap` | nothing in the code: what the key-value log promises over loss of power | what reads return, and the values in limbo after a call that was cut off |
| `KvLog` | lib/kvlog/src/kvlog.c for the STM32F4, flash_erase, flash_program | flash as words, kv_data, the locals of a call; one action for the start of a call, one for each write |
| `MCKvLog` | - | two keys, two values, stores of three records |
| `KvLogProofs` | - | theorems about `KvLog` |
| `Xmodem` | xmodem.c and xmodem_small.c, the block callback of the loaders | xmodem_data_t, xmodem_bd_t, the application's flash; operators for a byte and for a second of silence |
| `ProtoBoot` | main.c and main_small.c of proto-boot, a sender, a line | composes `Xmodem` with both; the properties |
| `MCProtoBoot` | - | two images, one longer than there are packet numbers |
| `ProtoBootProofs` | - | theorems about `ProtoBoot` |
| `Console` | io.c, mshell.c, xslog.c, the telnet server | the system pool as a number, the queues, each task's text and message; also its own run |

`Bmos` extends `BmosSem` and `BmosMutex`, these extend `BmosWait`, which
extends `BmosTask`.  `BmosMessages` extends `BmosQueue`.  `Usart` uses the
operators of `CircBuf`; `UsartProofs` extends `CircBufProofs` for its lemmas, and
the variables of `CircBufUser` that come with them play no part in it.
`Console` takes of the queues what `BmosMessages`
establishes: a whole put or get is a step of it, and a message is not lost.

## 3. Runs

| run | shows | distinct states |
|---|---|---|
| `MCBmos` | the kernel under any order of calls, interrupts, ticks and switches: only ready tasks run, mutual exclusion, assertions, waiter lists, no lost wakeup; semaphores and mutexes implement `Semaphore` | 301395 |
| `MCBmosLive` | the top task runs, the top locker is served, a timed call returns though another task takes the mutex it was woken for, or loses to others for ever, peers take turns when no higher task intervenes | 24357 |
| `MCBmosTurns` | violation: the round robin of peers stops when a higher task runs in between (section 5) | 10 (to the counterexample) |
| `MCTaskList` | tasks created in any order, with any priorities, end up in order of priority, those of one priority in the order of their creation, idle last | 5426 |
| `MCMessages` | queues and pools in their halves: lists, counts, one place for each message, a get that took a count finds a message, every message is fetched | 31531 |
| `MCCircBuf` | the ring implements a bounded queue of the bytes offered to it; two reads empty it | 4416 |
| `MCUsart` | the driver without FIFO, its handler late by any time: order both ways, also when a message is put while one is partly sent; overruns counted, handshake | 2828362 |
| `MCUsartFifo` | with FIFO: overruns and empty pool counted, pool conserved, flushing of the FIFO | 693486 |
| `MCUsartLive` | without FIFO: every byte put is sent, every byte received is delivered or counted as lost, nothing is held back on an idle line once the pool has a message | 8364 |
| `MCKvLog` | the key-value log implements `KvMap`, with the power failing between any two writes; no word is programmed twice; a restart finds the store in use | 933326 |
| `MCProtoBoot` | both loaders and a sender over a line that loses and garbles bytes and stalls: one image, ends at its end, done means whole, transfers end | 1383952 |
| `MCConsole` | a text that a task prints is printed to its end, while the shell, the network and the log share the pool | 361682 |

## 4. Bounds, assumptions and fairness

*Bounds.*  Three tasks, two of them peers, are the least with which a waiter
list has an inner element, a post can be stolen by a third, and a higher task
can come between two peers.  A semaphore count of two lets two posts pile up
before the first waiter runs; a mutex depth of two tells the last unlock from
an earlier one; a tick can fall on either side of a post within a timeout of
one.  Three messages give a list with an inner element while another process
holds one in the middle of a put.  The bounds are the constants `MaxCount` and
`MaxDepth` and the call sets of `MCBmos`; the proofs have none but these
constants, with any value.

For the UART: a ring of four bytes, which holds three, wraps around within seven
bytes and overflows; a pool of one message runs empty; a receive FIFO of four
with a threshold of three lets bytes wait below the threshold until the line is
idle; messages of five bytes do not fit into the transmit FIFO.  Three bytes to send
in messages of one or two let a second message be put while half of the first
is sent (`MCUsart`).  `MCUsartLive` has a ring of two and three bytes: one
delivered, one in the ring, one in the receiver; there the ring fills while the
pool is empty, the message that comes back flushes it, and the line goes idle
before and after (`NothingHeldBack`).  The UART's runs end when all bytes have come and all users are out
of the driver, and `MCTaskList` when all tasks are created, so they do not
check for deadlock.

For the key-value log: three records in a store and two keys let the store
fill with live records, with deleted ones, and with one of each; a sequence
number up to three takes copies to the second store and back to the first; the
power fails once, between any two writes, and what it leaves behind meets every
later call (a start only reads).  For any number of failures there are the
proofs, which have no bounds.  All records have one length: which slot comes
next depends on lengths in the code, on nothing else.  Keys are interchangeable
and so are values (symmetry).

For the boot loader: packet numbers modulo 8 wrap around within an image of ten
blocks, and, as with 256, the number and the complement of a packet can be the
byte EOT.  Two faults lose a packet and then something of its repetition, or let
the line stall within a packet and then garble what follows; three
transfers leave each outcome behind for the next; a second image of two blocks
is shorter than what it overwrites.  Blocks of 128 and 1024 bytes are one and
two blocks here.  A checksum belongs to one content only: what 16 bits of CRC
let through is not modelled.  Garbled bytes are none of the protocol's.  A byte of
data or of a checksum has any value where a packet should start (`looksLike`):
it may be EOT, SOH or STX.  After the last two the bytes behind it are read as a
packet number, and never as the right one; if they were, the packet would fail
its checksum.  A transfer of the large loader starts on a quiet line (`Start`):
its command comes over the same line behind whatever was sent before, the
loader then waits for two seconds (`main.c:283`), and a sender that waits for C
sends nothing meanwhile.  `Mod` is
256 in the code and may be anything above 6 here: then no number or complement
of a first packet is EOT.  An image has a first block that is not erased, since
that holds the entry address (`app_entry_valid`).

For the console: a pool of two with texts of two pieces lets each of two
printing tasks hold one message while the other wants more, and input of two
messages empties it.  Two connections let output that was started for the
first meet the second.

These three runs end when their bounds are used up, and do not check for
deadlock; `TransferEnds` and `OutputGoesOn` are about being stuck.

*The handler's time.*  `Prompt` says that the handler is done before the line
can change again, about ten microseconds at the fastest baud rate of the
products.  Order and counting without the FIFO do not need it
(`MCUsart`).  `NothingHeldBack` without the FIFO does: IDLE is handled
before RXNE, so if both are set a last byte goes into the ring after the flush
and stays until another one comes.  `RxInOrder` with the FIFO does when the
pool has two messages: IDLE and RXFT both set run rx_fifo twice on the same
status word, the second time on a FIFO already emptied, and a byte that nobody
sent is delivered.

*Timed waits.*  With several tasks in timed waits on one object, waiter lists
can break: an expired waiter hides those behind it, and _waiters_remove leaves
`last` stale.  `WaitListOK` and `NoLostWakeup` are false there.  No product
does it: the callers of timed waits (`lwip.c:75`, `tusb_cdc.c:67`,
`onewire.c:133`, `esp_at.c:313`, `mshell.c:106`) are the only consumers of
their objects, and the USB glue locks without a timeout.  `TimedWaitsAlone` of
`Bmos` says so: an object with timed waits has one caller of `sem_wait_ms`, or
two tasks that lock it.  The theorems about waiter lists have it as their
hypothesis, the others do not, and `MCBmos` has TLC confirm it of its three
sets of calls (`WaitsAreAlone`).

A timed wait is not bounded by its timeout: a task that is woken and finds its
unit taken by another waits again for the whole of it (`sem.c:100-113`,
`mutex.c:75-88`).  If that happens for ever the call never returns, as
`TimedCallReturns` says.  It happens in `MCBmosLive`, where a task with a timeout
and one of higher priority without share the mutex.

*Fairness.*  SysTick comes every millisecond (SF of `Tick`: it can be masked by
a handler, not forever), PendSV when it is pending and nothing else is (WF),
and handlers return (WF).  A task that gets the CPU again and again reaches the
end of its current kernel call: a time slice is thousands of instructions (SF,
because it can be preempted).  `ClientFairness`: who locked unlocks.  In
`BmosMessages`, fairness lets every call end and every consumer come back to
its queue, as the loops of the tasks and the device interrupts do.  In `Usart`
the interrupt is taken while it is pending, the transmitter drains, the line is
found idle when nothing comes (WF of `usart_isr`, `Sent`, `Idle`), and a task
ends its put and returns what it took.  Some reader, not each, serves the
receive queue.  Nothing makes bytes come or users transmit.

In `ProtoBoot` the loader is a polling loop and the line is a wire: bytes that
arrive are received, seconds pass, and the sender reads and times out (WF).
Nobody makes a user start a transfer.  In `Console` all tasks get the
processor (WF); a task that waits for a message of the pool gets one when they
come again and again (SF), which `Semaphore` gives for waits without a timeout,
since no task prints all the time.  The key-value log's properties are safety.

*What is not promised.*  The runs hold with these limits, which are those of
the code; each is named in a guard or a property.

* kvlog: the header of a copy into the first sector is two writes.  If the
  power fails between them, the erased sequence number reads as the largest, a
  restart chooses that store and takes it for one without a header
  (`kvlog.c:278-288`, 375), in which no value is found.  What happens then is
  left open (`void`).
* kvlog: an erase that is cut off after the first sector can bring old values
  back from the second (`kvlog.c:332-340`; `Fail` of `KvMap`).  A set that is
  cut off before its value is written reads as an erased word (`Torn`).
* kvlog: `kv_set_data` returns 0 also when `kv_write` found no space
  (`kvlog.c:643`; `Refuse` says when that happens).
* xmodem.c: a byte that is read where a packet should start is taken for the end
  if it is EOT (`xmodem.c:96-111`), and the transfer ends with success in the
  middle.  It can be the number, or its complement, of a packet whose first byte
  was lost: packet 4 and its repetition are enough.  It can be a byte of data,
  after a second of silence within a packet (`Stall`), after lost bytes, or when
  a small loader gave up within a packet, for which one garbled byte is enough,
  and started anew.  These are the exceptions of `EndsAtEnd`; it has one more,
  the EOT of a sender whose packets a small loader acknowledged by mistake, in a
  transfer in which nothing was programmed.
* xmodem_small.c: that mistaken ACK (`mistaken`) goes to a sender that takes it
  for its packet and goes on.  So a sender of a small loader can be done with
  nothing programmed, and an ACK too many can leave the loader waiting for a
  sender that is done.  `DoneIsWhole` and `TransferEnds` except this.
* xmodem.c: once it has asked again the receiver sets no timeout
  (`xmodem.c:62-86`).  Its error -6 is unreachable, and without a sender it
  waits for good; `TransferEnds` supposes one.  A sender that repeats a packet
  whose ACK was lost is answered with error -4.
* xmodem.c: the receiver knows packets by their numbers alone, and takes any SOH
  or STX for the start of one (`xmodem.c:92-142`). A header that is left of a
  packet whose other bytes were lost, and a complement that happens to be the
  number of the next packet, can join to a packet that nobody sent, or one of
  another size, chosen anew for a repetition, takes the place of a lost one. It
  needs several lost bytes: with packet numbers modulo 10 a block is programmed
  twice after five of them and a late answer. So `OneImage` and `DoneIsWhole`
  do not hold for every number of lost bytes; TLC checks them for `MaxFaults`
  faults, and the theorems are about a line that loses none and does not stall
  (`LineKeepsUp`).
* main_small.c: `try_boot` follows a transfer however it ended (line 259-260),
  so a beginning of an image is started.  `outcome` has it so.
* The block callback does not compare with APP_LEN; images are supposed to fit
  (`ProtoBootAssumption`).
* Console: telnet input can take all messages of the pool while the shell
  prints (`AllUnread` in `OutputGoesOn`); and output to a client that has gone
  calls lwIP without a connection, an assertion there (`halted`).

## 5. Finding

`MCBmosTurns`: the comment `task.c:223` promises a "round robin of tasks at this
priority level".  schedule() looks for the next peer behind CURRENT.  When a
task h of higher priority wakes at every tick and sleeps again, CURRENT is h
each time the choice is made, and the walk ends at the first ready task of the
lower group.  Its peer never runs.  `MCBmosLive` shows that the round robin
works as long as no task of higher priority runs in between.

## 6. Proofs

`BmosProofs` proves of `Spec`, for all values of the constants that meet the
assumptions named in the modules:

* `TypeCorrect` (`TypeOK`), `BlockedNeverRuns` (`RunningIsReady`),
  `MutualExclusion` (`MutexExclusion`), `AssertsHold` (`WaitLoopAsserts`).

The inductive invariant is `IInv`.  `RunningIsReady` is not inductive by
itself: whether the task that PendSV switches to is ready was decided by an
earlier call of schedule(), and other calls may have come since.  `SchedInv`
adds what ties them together: idle is always ready, so that a walk finds
somebody; NEXT is always ready; and CURRENT is NEXT unless a switch is pending.
Lemma `ScheduleSafe` shows that schedule() keeps it from any task states in
which nobody but CURRENT stopped being ready, which is what all callers have in
common.  `WaitInv` says of each task in a wait loop that, when it is awake, it
was told why, and that without a timeout its `sleep` is negative, so no tick
ends it.  `MutexInv` says that a mutex has an owner exactly when its count is
not zero, and that only the owner has lock calls it has not undone.  The proof
has a lemma for each change of state that several calls share (going to sleep,
waking the first waiter, giving up, acquiring) and one step for each action.

For timed waits that are alone (`TimedWaitsAlone`, section 4) there are four
more: `WaitListsProper` (`WaitListOK`), `WakeupsKept` (`NoLostWakeup`),
`SemaphoresAsPromised` (`SemaphoresKeepPromise`) and `MutexesAsPromised`
(`MutexesKeepPromise`).  Their invariant is `WInv`.  `ListsInv` says that for
each object some sequence exists that the pointers link, from `first` to
`last`, and whose elements are the tasks that are asleep on it or timed out.
The sequence is a witness, not a history variable: a step of the proof shows
what becomes of it (`BlockLinks` appends, `WakeLinks` takes the first,
`GiveUpLinks` is left with the empty one) and that the lists of other objects
are not touched.  `CallInv` says which call led a task into its loop and that
owners of a mutex are not in the loop of it, from which `AloneInv` follows: two
tasks in one loop wait without a timeout.  So who timed out is alone on its
list, which is what fails without the hypothesis.  `WakeupsKept` adds
`NoLostWakeup` itself: the first on the list is asleep if anybody is, so each
post wakes somebody.

The refinement follows from `QueueInv`, a consequence of `WInv`: the queue of
the abstract semaphore is the whole list, or nobody is asleep; and from
`ZeroInv`, that a call with a timeout of zero is never asleep.  One lemma for
each change (`BlockPromise`, `PostPromise`, `LeavePromise`, `GiveUpPromise`,
`TakePromise`, `TickPromise`) names the abstract action that the object in
question performs, and shows that all others stand still; semaphores and
mutexes share them, by `Value`.

`BmosTaskListProofs` proves `TaskListSorted` (`ListInOrder`), by the same kind
of witness (`ListInv`): the tasks created so far, sorted.  What `TaskAssumption`
takes for granted about `Pos` is established there.

`InductionLemmas` has what both need (and, of it, `KvLogProofs` the least member of
a set of numbers).  The induction theorems of the library
take an operator, which the provers cannot instantiate; `NatSetInduction` states
induction of a set, and is proved by the pigeonhole principle for finite sets.
From it follow the least member of a set of numbers, where a walk along
pointers leads (`WalkAlong`, `WalkCollects`), and what linking in and out
changes.

`BmosMessagesProofs` proves `MessagesTyped`, `ListsAreQueues`,
`MessagesConserved`, `CountsAddUp` and `GetNeverFails`.  The invariant is
`MsgInv`: the lists describe the contents, every message has one place, and the
counter of a queue plus its unfinished puts and gets is its length.
`GetNeverFails` follows: a process that took a count is itself one of the
terms.  The history variable `content` is what makes an argument about linked
lists possible without induction along the links.

`CircBufProofs` proves what a write and a read do to the content, for every
length of the buffer: a write appends what it took, and takes nothing only from
nothing or into a full ring; a read takes off the front what it returns.  The
remainder is met in one lemma (`Wrap`: indices wrap around at most once); from
there on it is linear arithmetic.  From that follow `RingIsFifo`
(`BufferIsFifo`) and `TwoReadsSuffice` (`TwoReadsDrain`).

`UsartProofs` proves, of transmission and the pool, `DriverTyped` (`TypeOK`),
`TransmitsInOrder` (`TxInOrder`), `TransmitterNeverForgotten` (`TxHandshake`)
and `PoolKept` (`PoolConserved`), for any users, pool, FIFO and lengths of
messages.  Its invariant `IInv` is the conjunction of these: the order of what
is to be sent is inductive once the message in transmission and the queue are
read as one sequence, and the pool's count once the receiving part of the state
is treated as one record that each call of the handler maps to another (`RxOK`).

Of reception it proves `ReceivesInOrder` (`RxInOrder`), `GapsAlwaysCounted`
(`GapsCounted`) and `FlushedWhenIdle` (`NothingHeldBack`).  `RxInv` adds to the
first two that with the FIFO the ring is empty, that no byte follows a lost one
until the overrun was seen, so that a gap is at the end of the stream when it
is counted, and that the line does not go idle while a prompt handler still has
something to do.  The first two have the hypothesis `NoEmptyRead`: no FIFO, or a
prompt handler, or a pool of one message; section 4 says what happens otherwise.
`FlushedWhenIdle` has `Prompt`.

`KvLogProofs` proves `RestartFinds` (`RestartFindsCurrent`) and
`NeverProgrammedTwice` (`ProgramsErased`), for any number of records, keys and
values and any number of failures of the power.  What has to be an invariant is
what a restart reads: the records of a store are in its first n slots and all
words behind them are erased (`Layout`), also in the store that a copy was
going to when the power failed; a store with a sequence number has its magic
word; and of two stores with headers the one in use has the larger number.
`CurrentOK` ties `current` and `pos` to that, except in the slot that is being
written, and `HeaderOK` the locals of a copy.  The half written header of
section 4 is the one state in which a restart would choose another store, and
the invariant `IInv` is claimed as long as no failure fell there.  Lemmas
say what a write to a header changes (`ProgramMagic`, `ProgramSeq`), what one
to a record changes (`SlotChange`) and what an erasure does (`EraseStore`), and
each action has one that it keeps the invariant.  Both theorems follow from it.

`LogKeepsPromise` (`KeepsPromise`) is the refinement: for any keys, values,
length of the stores and number of failures the log implements `KvMap`.  The one
assumption (`KvAssumption`) is that an erased word can be told from all that the
code writes, and `NULL` from values and calls.  `MaxSeq` and `MaxFail` are any
numbers, so they limit nothing.  The proof needs, besides `Sound`, what a read
rests on (`DataSound`):

* `CallOK` and `NewOK`: at each write, which call is being made, and where its
  record is: behind all others of its key, and not among those that the call
  is going to invalidate.  So the value of a set is the last one left, and a
  delete leaves none.
* `CopyOK`: the records copied so far, read in the order of the copy, give for
  each key the value and the values in limbo that the original gives.  A copy
  may come in the middle of a set, after a failure, and of a store with several
  records of a key.
* `ExtraOK`: each failure leaves at most one valid record that is not the first
  of a key, whether it was cut off before its key was written or spared by an
  invalidation that did not come to its end; and a copy takes none along that was
  not there.  This is what bounds a refusal: a store that has no room after a
  copy holds a value for each of its records, or one of these (`FullStore`).

Each action has a lemma (`SetKeeps` to `RestartKeeps`) that it keeps `DataSound`
and is a step of the map or none (`MapStep`): writing a header or a copy changes
no read, except that the second word of a copy's header makes the copy the
store in use; writing the key may tear a first value, writing the value may let
it be seen, an invalidation lets a value in limbo surface, and an erasure of the
store in use empties the map at once.  The abstract actions are met in six
lemmas (`MapCalls`, `MapEffects`, `MapReturns`, `MapRefuses`, `MapFails`,
`MapStands`).

`ProtoBootProofs` is about a line on which no byte on its way to the receiver is
lost, and none comes more than a second behind the one before it in its packet
(`LineKeepsUp`, that is `[][~LoseByte /\ ~Stall]_vars`).  Bytes may be garbled,
answers lost or late, packets and images sent again, transfers given up by
either side and started again.  Section 4 says what lost bytes and stalls do.
With any images, sizes, numbers of retries, transfers and faults, it proves
`NeverMixed` (`OneImage`), `EndsOnlyWhole` and `DoneMeansWhole` (`DoneIsWhole`) of
both loaders, and of the large one `EndsAtTheEnd` (`EndsAtEnd`), without use of
any exception.  They claim nothing of a small loader from the moment it takes a
byte of data for the end (`small /\ mistaken`, in the proof `Astray`), which a
garbled byte can bring about on this line too.  `WithinPacket` shows that the
large loader never does: a transfer of it that is given up has the sender told,
and a byte read where a packet should start is the first of one, or garbled
(`AtStart`).

The three properties speak of the flash; what makes them true is on the line.
`LineInv` says that a transfer is in one of five states: nothing was sent
(`Idle`), the receiver expects the packet that was sent last (`Expecting`), it
has that packet and the sender does not know (`Acknowledged`), it has all
(`Ending`), or it is about to read the number of another packet and gives up
(`Failing`).  In each of them the flash holds the first `bd` blocks of the
sender's image, and `bd` and `pktnum` are tied to what the sender takes for
sent.  `Current` describes the bytes under way while the receiver expects a
packet: they are copies of that packet, the first perhaps read in part, and any
byte may be garbled, so that each checksum is followed by a header and the same
number again, or by nothing.  This is why a repetition is never taken for the
next packet: after the checksum comes a number that is not the next one
(`NextNum`).  That at most one ACK is under way (`Once`) is what keeps the sender
from taking one acknowledgement for two packets.  Between transfers `ShellLarge`
says that the sender will read CAN or has stopped waiting, and `ShellSmall`, for
the loader that does not tell the sender, that it is still at its first packet.
Lemmas `ReceiveCases`, `SilenceCases`, `SendCases` and `SenderReadsCases` reduce
the state machines to what a step does, and each action has a lemma that it
keeps `LineInv`, or that a small loader is mistaken by it.

Only model-checked: liveness (the provers have no fairness reasoning), with it
all of `Console`, and the boot loaders over a line that loses bytes or stalls.

## 7. Plan

Done: the kernel, the queues, the circular buffer, the newer UART driver; the
key-value log with loss of power; the boot loaders; console, telnet and log.

Done of the proofs: the kernel with its lists and its refinement of
`Semaphore`, the queues, the circular buffer, the UART driver, the key-value log
with its refinement of `KvMap`, the boot loaders over a line that keeps the
sender's bytes.

Worth having next: how many lost bytes the loaders bear, for which the invariant
would have to count the remains of packets on the line; and a pool's messages in
`Console`, which are free, queued or in somebody's hands.

## 8. Not modelled

* The older UART driver and the RP2040's are shorter variants of `Usart`.  The
  older one has no callback on its pool, so `NothingHeldBack` would be false of
  it, and nothing in the repository says otherwise.
* CAN, I2C, fast log, allocator, registry, line editor and the ESP and
  one-wire clients would each be a module like those here; their hazards are in
  `PROJECT.json`.  The allocator and the fast log have no protection for use
  from several tasks, and promise none.
* Register sequences (clocks, pins, power, DMA, displays), board tables and
  polled drivers have no state of their own between calls; whether they are
  right is a question for the reference manuals.
* Formatting and string functions are data, not control.
* lwIP, TinyUSB, dlmalloc, vendor headers and graphics data make up most of the
  lines of the repository.  They are not part of this program.
