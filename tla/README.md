# A TLA+ model of the RTTnew firmware

The firmware runs RT-Thread on an STM32H743. Its own code is three applications
(an IMU on each of several UARTs, an AD7606 converter on SPI, a GO motor on
RS485) and the drivers under them; the kernel, the HAL and most of
`rt-thread/components` are third-party. This directory models the parts where
threads, interrupts, failures and shared state meet, the kernel services they
rest on included, checks them with TLC and proves with TLAPS that the safety properties hold for
every value of the constants.

To check a module: `tlc -config Ad7606.cfg MCAd7606.tla`. To check a proof:
`tlapm SpiProofs.tla`. `PROJECT.json` lists runs, theorems, hazards, findings
and, for every definition, the lines it stands for. Operators marked
*mutation of X* are no part of the system: each is a deliberate mistake in X that
makes one of the properties fail, and so shows that the property has teeth.

## 1. Inventory

| Part | Source | State | Operations | What is hard about it |
|---|---|---|---|---|
| IMU frame parser | `drivers/drv_imu_uart.c` 72-251 | parser state, index, length, frame buffer, latest report | feed one character | overlapping headers, an uncleared buffer, one length character that bounds all accesses |
| IMU UART driver | `drivers/drv_imu_uart.c` 20-70, 253-382 | table of channels, semaphore, thread, `running` | init, deinit, receive callback, receive thread | four ways to fail in init; a deinit that does not wait for the thread |
| IMU application | `applications/imu_app.c` | `imu_inited`, `imu_print_*`, printer threads | start, show, print_start, print_stop | a flag read by sleeping threads; one handle for several threads; a period that no timer takes |
| Serial framework, interrupt mode | `rt-thread/components/drivers/serial/dev_serial.c` | ring buffer with `is_full`, `rx_indicate` | interrupt pass, read, open, close | handler against reader; overflow; a length that is 0 when the buffer is full |
| Device layer | `rt-thread/components/drivers/core/device.c` | reference count | open, close, read | reads on a device another thread closes |
| Scheduler, threads, timers | `rt-thread/src/scheduler_*.c`, `thread.c`, `timer.c` | status, priority, error field and timer of each thread | suspend, resume, time out, change priority | a timeout against a resume at the same tick |
| Semaphore | `rt-thread/src/ipc.c` | value, waiting threads | init, take, release, detach | tokens handed to waiters that time out, use after detach |
| Mutex | `rt-thread/src/ipc.c` | owner, hold count, priority, waiting threads | init, take, release | inheritance along chains of owners, given back after timeouts |
| USART driver | `drivers/drv_usart.c` | data register, interrupt enable | getc, uart_isr, CLR_INT | order of disabling and freeing |
| AD7606 application | `applications/ad7606_app.c` | `ad7606_spi_ready`, latest sample; outside it the converter | init, reset, sample | a busy wait that gives up and reads all the same; a readiness kept apart from the bus |
| SPI framework | `rt-thread/components/drivers/spi/dev_spi_core.c` | bus lock, owner, configuration per device | attach, configure, transfer, send_then_send, send_then_recv | configuration and first owner are set outside the lock; errors that are not negative |
| SPI driver | `drivers/drv_spi.c` | peripheral set-up, message length, chip select | configure, xfer | chunks counted in frames and addressed in bytes, failures in the middle, a refusal that is a positive number and not without effect |
| GO motor ping | `applications/go_motor_min.c` | UART registers, direction pins, counters | `go_ping_min` | half duplex, timeouts, late and damaged answers |
| GPIO / EXTI driver | `drivers/drv_gpio.c` | one table entry and mask bit per line; EXTI and NVIC | attach, detach, enable, disable, the interrupt handlers | ports share a line, lines share an interrupt |
| Shell, board, HAL, other drivers and components | see `PROJECT.json` | | | third-party, straight-line or not enabled |

How they interact. The UART interrupt runs `rt_hw_serial_isr`, which fills the
serial buffer and calls `imu_uart_rx_indicate`; that looks the channel up in the
table and releases its semaphore. The receive thread (priority 15) drains the
buffer through `rt_device_read`, feeds the parser, and sleeps on the semaphore.
Shell commands (priority 20) start channels and printers; the printers
(priority 25) read what the parser published. The AD7606 commands and the GO
motor command run in the shell, the first through the SPI framework and its
mutex, the second on USART2's registers directly, beside the serial driver. Pin
interrupts are a service without a caller in the repository.
Nothing in the repository calls `imu_uart_deinit`; its header exports it, and
the models treat it as an operation a caller may use.

What makes each part correct:

- *serial buffer*: a reader sees arrivals in order and without a gap, also
  around an overflow; a pass that does not signal has left the buffer full;
- *parser*: it finds exactly the frames of the stream, never accesses beyond
  `frame_buf`, and publishes only what an intact, contiguous frame carried;
- *driver*: a channel that is stopped, or failed to start, holds nothing; no
  wake-up is lost; nothing is used after it was freed or detached;
- *printer*: printing that is on is done, the handle is live, a stop ends it;
- *threads, mutex, semaphore*: an owner runs at least at the priority of those it
  keeps waiting; a timer that can expire belongs to a suspended thread; a call's
  result tells what happened, so that no token and no lock is lost or made up; a
  mutex goes to the most urgent waiter, and the most urgent thread gets through;
- *SPI*: a device transfers only under its own configuration, only the device
  whose thread holds the bus is selected, a full length means that every chunk
  went through, and the chunks are the buffer;
- *AD7606*: what is published was read completely and under the application's own
  configuration, and is of the command's own conversion unless it said otherwise;
- *GO motor*: a command goes out whole, every "ok" is an answer of its own, the
  host does not hear itself, and the command ends and leaves the line free;
- *pin interrupts*: an interrupt is enabled exactly while one of its lines is, an
  enabled line listens to the pin attached to it, and its edges are answered.

The hazards, each at its line and with the properties that watch it, are in
`PROJECT.json`.

## 2. Modules

| Module | Models | Uses |
|---|---|---|
| `LossyQueue` | abstract: a queue that forgets all its characters when it overflows | |
| `SerialRxFifo` | the ring buffer of `dev_serial.c`, handler against reader | implements `LossyQueue` |
| `ImuFrameParser` | `imu_uart_feed_byte`, `imu_uart_parse_frame` | |
| `ImuFrameStream` | reference: the reports of a whole stream, block by block | extends `ImuFrameParser` |
| `ImuUartDriver` | a channel's life: application, driver, device layer, serial open/close, semaphore, interrupt | |
| `ImuPrint` | print_start, print_stop and the printer threads | |
| `ThreadSched` | the scheduler, the status and the timer of threads | |
| `KernelMutex` | `rt_mutex_take`, `rt_mutex_release` and the inheritance of priorities | extends `ThreadSched` |
| `KernelSem` | `rt_sem_take`, `rt_sem_release` | extends `ThreadSched` |
| `KernelIpc` | threads that use both, with timeouts and interrupts | composes `KernelMutex`, `KernelSem`; implements `PriorityLock` |
| `PriorityLock` | abstract: a lock that goes to the most urgent waiter | |
| `GpioIrq` | the pin interrupts of `drv_gpio.c` with EXTI and NVIC | |
| `SpiXfer` | the chunk arithmetic of `spixfer`, as operators | |
| `SpiBus` | attach, configure and calls of one or two messages of several devices on one bus | extends `SpiXfer` |
| `Ad7606` | the AD7606 application and its converter beside other users of the bus | extends `SpiBus` |
| `GoMotor` | `go_ping_min` with the transmitter, line and motors beside it | |
| `MC*` | constants for TLC | |
| `*Proofs` | theorems | |

**SerialRxFifo.** `IsrGetc(ch)` is one turn of the handler's loop, `IsrIndicate`
its end, `ReadEmpty`/`ReadChar` one locked region of `_serial_int_rx`. A reader
is a thread, so it does not run while a pass is in progress. `arrived` is
history. The buffer's contents are the function `Unread` of indexes and flag;
it is also the refinement mapping to `LossyQueue`.

**ImuFrameParser.** One action per value of `parse_state`. Payloads stay raw
characters; the conversions to `float` are left out. `ImuFrameStream` says
without a state machine what the counters and payloads must be.

**ImuUartDriver.** `caller` is the program counter of the thread that starts and
stops the channel, `rx_thread` that of the receive thread, `isr` the length of
the handler pass in progress. Between two steps an interrupt may come. Of the two
threads the one of higher priority runs whenever it can (`RxRuns`,
`CallerRuns`), which is what one processor with strict priorities does.
`CallerPreempts` says which one that is: FALSE for the shell, TRUE for instance
for the main thread (priority 10). Characters are counted, not named. A use of a
detached semaphore or a freed buffer sets `fault`, where the code would stop in
an assertion (`RT_DEBUGING_ASSERT` is on) or read freed memory. When `rt_malloc`
has no room for the receive buffer, an assertion stops the caller for good
(`halted`); the receive thread, whose priority is higher, goes on.

**ImuPrint.** A command is one step, since the shell has the higher priority and
does not wait in it; a printer is interrupted anywhere. `Cast`, `Clamp`, `Ticks`
and `Sleepable` are the way of the argument from `atoi` to the timer: cast to
`rt_uint32_t`, raised to the minimum, taken for `RT_WAITING_FOREVER` when it is
negative as `rt_int32_t`, and then refused by an assertion of `rt_timer_control`,
which fails with interrupts disabled. `Delay` is that step; after `asserted`
nothing happens any more.

**ThreadSched, KernelMutex, KernelSem, KernelIpc.** Inside `rt_spin_lock` the
scheduler does not switch and inside `rt_sched_lock` no interrupt comes, so a call
is cut only where it sleeps: `TakeWait` is `rt_mutex_take` up to `rt_schedule`,
`TakeGranted` and `TakeExpired` are what follows it; likewise `SemWait` and
`SemReturn`. The timeout and the release of the same thread exclude each other
because the tick interrupt has the highest priority and takes the timer off its
list in the same interrupt that calls `_thread_timeout`; `sched_flag_ttmr_set` is
cleared where the wait begins and says no more than `timer` does. `UpdatePriority`
is the loop of `_thread_update_priority` along pending mutexes as a function of the
number of its turns; lemma `UpdateSettles` shows that the loop ends within as many
turns as there are mutexes, so that the bound cuts nothing off.
`PriorityLock` knows neither lists nor timers nor inheritance.

**GpioIrq.** The four operations turn interrupts off, so each is a step, of a
thread or of a handler that is running (`CallerRuns`). The interrupt handler looks
at its lines one by one (`IsrLine`) and edges come in between. `HAL_GPIO_Init` and
`HAL_GPIO_DeInit` are modelled as far as they set up a line. `careless` remembers
lines whose users broke the rules that the table's design supposes: to act for a pin
only while its attach stands, and to disable it before detaching it. Such users
stay in the model; only `EnabledPinListens` excuses their lines.

**SpiBus.** One thread per device, preempted anywhere. `lock` is the bus mutex;
the stored configuration and the test for the first owner lie outside it, as in
the code. `hw` is what the peripheral was last set up as, `handle` the Mode and
Direction in the driver's handle, which the HAL reads at every exchange. A
configuration the driver refuses (a data width other than 8 and 16) leaves `hw` alone,
because `stm32_spi_init` returns before `HAL_SPI_Init`, but it has changed `handle`
by then; `refused` remembers that. A handle that says slave makes an exchange time out,
since only a master starts the clock (`Exchanging`); an accepted configuration is
always that of a master, whatever it asks for. That `HAL_SPI_Init` itself fails, which
only wrong arguments make it do, is not modelled. `ready` is what the
device's thread takes for ready, set by `rt_spi_configure`'s RT_EOK and never
cleared; `call` the messages a call has left, `cs` the selected chips, `last` the
call that ended last. A call stops at a negative result only, as the code does.

**SpiXfer** cuts a message as `spixfer` does: lengths and chunks count data frames,
as the HAL does, while starts count bytes. `FrameBytes` (1, or 2 at a width of 16)
tells how much of the buffer an exchange really covers.

**Ad7606.** The shell's thread uses the device `Adc`; all the others do as they
like. `step` is where the command is, and it enters the bus through the actions of
`SpiBus`. The converter (`busy`, `output`) is external: a conversion ends at any
time, a start pulse during one is ignored, a reset ends it. Conversions are told
apart only as of this command or of an earlier one, which is all the properties
ask and keeps the state finite.

**GoMotor.** Each step of the command is a loop turn or a pin write. `tx` is the
data and shift register of the transmitter, `rdr` the one-character receiver,
`line` what the motors hear, `reply` what they will send. Motors answer late, not
at all or damaged. The CRC is taken to tell a whole answer from everything else.
TXE and TC time out only when the transmitter is stuck: 10000 polls take far
longer than the 2.5 us of a character at 4 Mbaud.

## 3. Runs

| Run | Shows | States |
|---|---|---|
| `serial_fifo` | the buffer implements `LossyQueue`; unread characters are the latest arrivals; a silent pass means a full buffer | 25 449 |
| `imu_parser` | over all short streams the parser agrees with the reference | 1.1 M |
| `imu_driver` | no fault, no lost wake-up, no leak after any failure or stop; unread characters are drained; a stop ends the thread | 6 902 |
| `imu_print` | printing that is on has a printer, the handle is live, a last stop ends all printers unless a period was asked for that no timer takes | 6 908 |
| `spi_bus` | the application beside another device: own configuration, one chip selected, chunks that cover the buffer, whole and fresh samples | 3 511 689 |
| `go_motor` | whole commands, an answer per "ok", no echo, an end with the line released | 44 236 |
| `kernel_ipc` | owners inherit, timers exclude wake-ups, results tell the truth, hand-over implements `PriorityLock`, the most urgent thread gets through | 132 820 |
| `gpio_irq` | interrupts and lines agree, enabled lines listen, edges are answered | 82 736 |

Runs that find a disagreement (see "findings" in `PROJECT.json`):

| Run | Disagreement |
|---|---|
| `serial_fifo_overflow` | a character that does not fit costs all unread ones; the comment says one |
| `imu_print_two` | a start soon after a stop leaves two printers |
| `spi_then_recv` | `rt_spi_send_then_recv` answers RT_EOK although an exchange failed |
| `mutex_priority_left` | after a timeout of a waiter that was boosted itself, an owner keeps the inherited priority with no mutex taken |

The models also contain behaviour that has no run of its own:

- a caller of `imu_uart_deinit` more urgent than the receive thread detaches the
  semaphore that thread then takes (`CallerPreempts = TRUE` breaks `NoFault`);
- `rt_spi_configure` answers -RT_EBUSY or a refusal once, and RT_EOK to the same
  configuration the next time, without configuring anything: `ready` then says
  nothing about `hw`, which `PublishedIsWhole` shows to be harmless for the
  AD7606 because the take-over before a transfer configures the bus;
- `rt_spi_transfer` returns the driver's positive RT_EIO as if it were a length;
  a message of exactly that length is mistaken for whole, and
  `FullLengthMeansSuccess` excepts that one case;
- a refused configuration changes the Mode and Direction under which the device that
  stays owner exchanges: `OwnConfig` and `PublishedIsWhole` promise both only while
  `refused` is FALSE (a published sample was exchanged by a master in any case);
- a message of 16-bit frames that needs more than one chunk is sent from overlapping
  pieces of its buffer, and `rt_spi_sendrecv16` asks for 2 frames where it means
  2 bytes; `ExchangesCoverBuffer` claims nothing of the first, and of the second
  only that the one chunk covers the frames asked for;
- once a chunk has failed, the ones after it start below the buffer (`SpiXfer!Start`
  wraps); `ExchangesCoverBuffer` speaks of the chunks up to the first failure;
- `imu print_start -1` passes the test of the minimum period and stops the system in
  the printer's first delay: without its hypothesis `StopEndsPrinters` fails;
- enabling or disabling a pin acts for the pin of another port attached to the same
  line (`careless`); `EnabledPinListens` makes no claim for such lines;
- after a busy wait that gave up, the following command may read the late
  conversion without a warning (the condition `quiet` of `SampleIsFresh`);
- the GO motor command accepts identifier 15, the broadcast, and 257, which
  narrows to 1; its message says 0 to 14.

**Bounds.** *SerialRxFifo*: 3 slots, 2 character values, 8 arrivals: the indexes
wrap twice and overflow from every position; the proofs cover every size.
*ImuFrameParser*: 5 values chosen to overlap in their roles (a head that is a
legal length, another that is too long, a function code that is too short a
length), frames of at most 7, all streams of 4 characters and from there streams
of up to 10 in which at most single zeros separate frames (`Focus`, an action
constraint): long enough for two frames in a row. *ImuUartDriver*: a buffer of 3,
passes of up to 2 characters, a table of one entry that another channel may hold,
3 starts, 6 arrivals: each failure path, then a clean start, then a stop, with
arrivals at every point. `BurstAssumption` (a pass never fills the whole buffer)
is timing: at 115200 baud a character takes 87 us and a pass a few. *ImuPrint*: 3
threads; periods below and above the minimum, one that is negative and the
shortest that no timer takes, with words of 12 bits (`TickModulus`), which leave all three
ranges room. *SpiBus*, *Ad7606*:
2 devices, both widths the driver knows, and of those it refuses that of a slave and
that of a master on one line; chunks of 3, messages of one chunk and of a full one
and a rest, with every set of failing chunks; the first of two messages is short. The
number of RT_EIO is a length of the run, so that the refusal that passes for success
occurs. *KernelIpc*: 3 threads of different priorities, so that there is
one between the owner and the waiter; 2 nested mutexes, so that an owner waits
itself and a chain has two links; a hold count of 2 and a semaphore of 1, so that both
reach their limits. *GpioIrq*: lines 5, 9 and 10, the first and the last of one
interrupt and the line beside them; pins of two ports on line 9; one mode, as the
proofs cover the others.
*GoMotor*: commands of 3 characters, answers of 2, 3 pings in one or more
commands: enough for an answer that arrives one and two pings late.

**Fairness.** *ImuUartDriver*: an enabled interrupt is taken, the ready thread of
the highest priority runs, a call that has begun goes on; nothing makes
characters arrive or calls begin. *ImuPrint*: each printer is weakly fair, since
the shell waits for input most of the time and a sleep ends. *GoMotor*: the
shell's step, and a transmitter that is not stuck; nothing of the motors, so that
`CommandEnds`, which wants the line released too, rests on the timeouts. *KernelIpc*: timers expire, a thread that runs
finishes a call that has its answer, and a mutex whose owner gets to run again and
again is given back, which is what a program that uses locks promises; nothing
makes calls begin or interrupts come, and a thread of middle priority may hold the
processor for ever. *GpioIrq*: handlers return, and an interrupt that is requested
again and again is taken. The other modules state safety only.

**Deadlock** is checked except where arrivals and starts are bounded and the
system then rightly waits for more (`ImuUartDriver`, `ImuFrameParser`), and in
`ImuPrint`, where the failed assertion stops it.

## 4. Proofs

For all values of the constants that satisfy the named assumptions:

| Theorem | States | Rests on |
|---|---|---|
| `SerialRxFifoProofs!TypeCorrect`, `UnreadSuffix`, `SilentPass` | the indexes stay in the buffer; unread characters are the latest arrivals; a silent pass left it full | the invariant `TypeOK`, `UnreadIsSuffix` and `PassHasStored` (a pass in progress has left something unread) |
| `SerialRxFifoProofs!Refinement` | `SerialRxFifo` implements `LossyQueue` | the same, and one lemma per step that computes the mapped queue |
| `ImuFrameParserProofs!TypeCorrect`, `FrameIsSuffix`, `OnlyValidFrames` | no access beyond `frame_buf`; the frame is the end of the stream; only intact frames are published | `Collected`: what each parser state has already stored. The code has no bounds check in its last state; `Collected` is why it needs none |
| `ImuFrameParserProofs!AgreesWithReference` | after any stream counters and payloads are those of a reader that goes block by block | `Heard`: however the stream goes on, the reference reports what was counted so far and then goes on from where the frame under construction begins |
| `ImuUartDriverProofs!TypeCorrect`, `NeverFaults`, `NeverLosesWakeup`, `StopReleasesAll` | nothing is used after it was freed or detached; what is unread has a token or a running thread; a channel that is stopped or failed to start holds nothing | `Held` (what the caller has taken at each of its points), `Threads` (where the receive thread can be meanwhile) and `Heeded` (a thread that sleeps has unread characters only of the pass in progress). All but the types suppose that the caller does not preempt that thread |
| `ImuPrintProofs!TypeCorrect`, `RunningPrints`, `LiveHandle` | the printer's invariants, for any number of threads | their conjunction is inductive; `ClampedPeriod`: a cast and clamped period fits its type |
| `KernelIpcProofs!TimersOfSuspended` | what `_thread_timeout` asserts: a timer that may expire belongs to a suspended thread | the lemmas `ReadyKeeps`, `SuspendKeeps`: status and timer change together, whoever is resumed |
| `KernelIpcProofs!TypeCorrect`, `ResultsTellOutcome` | kernel state keeps its types; no token and no lock is lost or made up | `Listed`, `Single` (who is on which list), `Nested` (waiting goes up the order of the mutexes), `Reasons` (what the error field means during a wait) |
| `KernelIpcProofs!NoInversion` | an owner is at least as urgent as all that wait for it, along chains of any length | `InOrder` (lists stay sorted although priorities change), `HeadBound` and `OwnerBound` (urgency grows from waiter to mutex to owner); within a step `Walk`, the invariant of the loop of `_thread_update_priority` |
| `KernelIpcProofs!Refinement` | `KernelIpc` implements `PriorityLock` | the same: the first of a sorted list is the most urgent waiter |
| `KernelIpcProofs!InheritanceExact`, `PriorityGoesBack` | while no thread waits for a mutex with a timeout, nobody is more urgent than it must be, and what was inherited goes back | `Exact`, and `WalkExact` within the loop. `dev_spi_core.c` takes its lock with `RT_WAITING_FOREVER`; with a timeout the run `mutex_priority_left` shows the contrary |
| `GpioIrqProofs!TypeCorrect`, `Serves`, `Listens` | interrupts and lines agree; enabled lines listen | the lemma `RangesMatchTable`: the table that enable reads and the ranges that disable tests describe the same sharing |
| `SpiProofs!TypeCorrect`, `OwnConfigAlways` | a device exchanges only with the registers set up for its own configuration, and with its own Mode and Direction unless one was refused since | `Calling` and `Remaining` (a thread that exchanges has messages left), `LockHeld` (the lock is held between its take and release), `Zeroed` (a device that is attaching has no configuration) and `OwnerConfigured` (the bus is set up for its owner unless the owner is about to set it up) |
| `SpiProofs!FullLength` | a full length means success, or is the number of RT_EIO | `Remaining` (nothing has failed before the first message) and the lemma `FailedLength` about `XferResult` |
| `SpiProofs!PiecesCover` | in bytes, the chunks of a message cover the buffer once and in order, for every length and limit with 8-bit frames, and for one chunk of 16-bit frames | the arithmetic of `SpiXfer` |
| `SpiProofs!OneSelected` | only the device whose thread holds the lock is selected | the lemmas `ResultIsLength` (a failed exchange is never negative, so a call always gets to the message that releases the chip) and `NextMessage` |
| `SpiProofs!AppUsesBus` | the application beside other users implements `SpiBus` | every step of it is one of the bus or leaves the bus alone |
| `SpiProofs!PublishedWhole`, `SampleFresh` | a published sample was read whole, as a master and with the registers of the own configuration, and is of this command's conversion unless it said otherwise | the invariants of `SpiBus`, through the theorem above, with `Configures` (what the device asks for is `AdcConfig`) and `Reads` (what it exchanges is the sample), and what the converter may be doing at each step of the command |
| `GoMotorProofs!TypeCorrect`, `CommandsComplete`, `OksAreAnswers`, `HearsOnlyMotors` | a command goes out whole, every "ok" is an answer of its own, the host does not hear itself | `Direction` (who may have characters on the way), `Loaded` and `OnLine` (the line has what the transmitter no longer holds), `HeardOnce`, `InOrder` and `Uncounted` (answers come in order, and intact characters belong to answers not counted yet) |

`OwnConfig` alone is not inductive: a device that is still the owner transfers
without setting the bus up again, so what holds for it must hold before; and the
first owner is set without setting the bus up, so it matters that its
configuration is still zeroed then.

The assumptions are named in the modules. Those that say something of the code or
the board: `BurstAssumption` (a pass of the serial handler never fills the buffer),
`WidthAssumption` (a length has the width of an address), `LengthAssumption` (the
frame buffer holds the shortest legal frame), `MutexAssumption` (finitely many
mutexes, numbered in the one order in which threads nest them, and threads more
urgent than 0xff) and, as a hypothesis of three theorems,
`~ CallerPreempts`: the shell (priority 20) starts and stops channels, not a thread
more urgent than the receive thread. Without the nesting order two threads can wait for
each other for ever, and the chain of owners the loop follows has no end to count on.

Every safety property that a passing run checks is also proved, the two refinements
included. Only model-checked are the liveness properties: `UnreadIsDrained`,
`StopEndsThread`, `StopEndsPrinters`, `CommandEnds`, `UrgentIsServed`,
`EdgeIsAnswered`, because fairness and ENABLED are out of the prover's reach.
Where a proof needs induction (the loop of `_thread_update_priority`, the reference
of the parser) it goes by a least counterexample in a set: `Induction` in
`KernelIpcProofs`, and over the positions of a stream in `ImuFrameParserProofs`.
That a recursively defined function exists is proved the same way before it is used
(`Iterated`, `EntriesExist`).

## 5. Not modelled

- `ad7606_app.c`: the conversion of a sample into channels and millivolts, a pure
  computation, and printing.
- `imu_app.c`: the show commands, the counting callbacks and the text. (The
  comment at its head names commands such as `imu_start_one 0`; the code parses
  `imu start 0`.) A printer reads values while the receive thread writes them, so
  a line may mix two reports; nothing in the code relies on the contrary.
- the SPI framework beyond attach, configure and calls of one or two messages:
  message lists, taking and releasing bus and chip by hand, detach, QSPI, CS pin
  variants. Nothing in the firmware uses them.
- the kernel's priority ceiling, the detaching and deleting of mutexes, and threads
  that end. A thread deleted while it owns a mutex is dead when
  `rt_thread_delete` releases it, and the release refuses because the caller is
  not the owner; no application deletes threads.
- `drv_gpio.c`: reading, writing and setting up pins, single register writes. The
  level modes fall through the switch in `stm32_pin_irq_enable` and hand
  `HAL_GPIO_Init` an uninitialised mode; no caller uses them and `Mode` leaves them
  out. An edge that is pending when a line is enabled stays so, and the newly
  attached handler sees it; that is in the model, and nothing claims the contrary.
- the refusal of `RT_DEVICE_CTRL_CONFIG` when a port is open with another buffer
  size, whose result `imu_uart_init` does not look at: the applications open each IMU
  port once and with one size.
- transmission, DMA, polling and termios of the serial framework.
- the shell; board set-up; the HAL beyond what is named above; components that
  `rtconfig.h` does not enable. They make up nearly all of the repository's lines.

## 6. Plan

In order of importance; 1 to 11 are done.

1. `SerialRxFifo`, `LossyQueue`, refinement and proofs.
2. `ImuFrameParser`, `ImuFrameStream`, proofs.
3. `ImuUartDriver`, proofs.
4. `ImuPrint`, proofs.
5. `SpiXfer`, `SpiBus` with calls of one and two messages, proofs.
6. `GoMotor`, proofs.
7. `GpioIrq`, proofs.
8. `Ad7606` over `SpiBus`, refinement and proofs.
9. `ThreadSched`, `KernelMutex`, `KernelSem`, `KernelIpc`, `PriorityLock`.
10. Proofs about `KernelIpc` and its refinement; exact inheritance.
11. `MatchesReference` for every stream.
12. An abstract bus (each call atomic, under its device's configuration) that
    `SpiBus` implements, with the proof.
13. `ImuUartDriver` with two channels, and its composition with `SerialRxFifo`
    and `ImuFrameParser` in place of counted characters, and with `KernelSem` in
    place of its own semaphore.
14. SPI message lists and detach; threads that end while they own a mutex.
