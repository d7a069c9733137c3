# A TLA+ model of the STM32 motion control board

The board (STM32F107, lwIP, Keil project under `src/Project`) drives four stepper
motors. A host sends UDP commands; the firmware turns each move into a ramp of step
delays, streams the delays by DMA into a timer whose output is the step pulse, and
watches two limit switches and a home sensor per axis. This directory holds the
specification kept beside that firmware: TLA+ modules, TLC configurations, and proofs
checked by TLAPS.

## 1. Inventory

The program's own code is `src/User/Main`; `lwip-1.3.1`, `STM32F10x_StdPeriph_Driver`
and `STM32_ETH_Driver` are vendored.

| component | state | operations | made correct by |
|---|---|---|---|
| axis motion, `hm_step_motor.c` | `s_axis_info[axis]`: state, direction, counters, two DMA buffers; timer and DMA registers | start homing / free run / fixed move, smooth and sudden stop, set and get position, DMA half/complete handlers | the position is exact, a stop is final, a move has its length, no `while(1)` is reached, every move ends |
| limit sensors, `hm_step_motor_limit_operation.c` | pins, EXTI pending bits, stop modes, `blast_hit_home` | EXTI handlers, 100 ms check, start-time checks, settings | a closed switch stops the axis that runs into it, in that sensor's mode |
| command execution, `hm_cmd_execute.c` | none of its own | `hm_cmd_exc_ck`: one case per command | a command changes what it names and nothing else |
| UDP command server, `hm_cmd_inter_netwk.c` | request slots, handler table, debug peer | UDP callback, dispatch, reply, debug print | every request is answered once and its slot, pbuf and pcb are given back |
| message queue, `hm_msg_queue.c` | ring, read and write index | add, read, advance | a bounded FIFO |
| software timers, `hm_timer.c` | tick counter, table of handlers | register, unregister, SysTick | every registered handler is called each period |
| UART command interface, `hm_uart.c`, `hm_cmd_inter_uart.c` (build with `HM_CMD_METHOD_UART`) | request slots, place of the next byte, time of the last one | receive interrupt, dispatch and answer in the main loop | only whole requests are executed, each is answered, the receiver finds its place after a disturbance |
| Ethernet driver and lwIP port, `ethernetif.c`, parts of `stm32_eth.c`, `ETH_IRQHandler` | two descriptor rings shared with the MAC's DMA, status bits | receive loop, send, resume | frames pass whole and in order, neither direction stalls |
| LEDs, GPIO, address, watchdog (`#if 0`), temperature (`TMP_ENABLE` is off: a function that returns 1), start-up, network configuration | pins and one-time set-up | - | - |

**Who runs when.** DMA and EXTI interrupts have preemption priority 0, sub-priority 0;
SysTick (and in it the limit check) preemption priority 0, sub-priority 1: none of them
interrupts another. The Ethernet interrupt has priority 2 and executes a command to its
end inside the UDP callback; the main loop is below all of them. The components meet in
`s_axis_info[axis]` and in the timer and DMA registers, which all these contexts write.

**What is hard.** A flag raised while a handler that changes the axis is running, and
served after it; the hand-over between two buffers by two flags; a stop that changes the
counters under buffers filled earlier; the edges of buffer and move lengths; refused or
early-returned commands that leave state behind; a command cut in two by an interrupt;
16-bit delays and integer recurrences; descriptors and slots handed between an interrupt
and whoever it interrupts; bytes that never arrive. `PROJECT.json` lists these hazards by
line, with the property that covers each, or why none does yet.

## 2. Modules

| module | what it is |
|---|---|
| `StepMotor`, `MCStepMotor` | one axis: software state, timer and DMA channel, sensors, interrupt handlers, commands; its properties and its inductive invariant; value sets for TLC |
| `StepMotor_proofs` | TLAPS: type correctness; `IndInv` is inductive and the safety properties follow |
| `RampShape` | where a ramp turns and ends, in closed form; used by the axis and checked by the ramp |
| `StepRamp`, `MCStepRamp` | the delays of the ramp, step by step, in the code's arithmetic |
| `StepPreempt`, `MCStepPreempt` | the axis at a finer grain: commands that interrupts cut in pieces |
| `MsgQueue`, `MCMsgQueue` | the message queue, an add step by step |
| `MsgFifo` | what the queue promises: a bounded FIFO of calls, and when it may be overrun |
| `Timer` | the software timers, SysTick, `hm_delay` |
| `CmdServer` | the UDP command server and the debug print |
| `EthDriver` | the Ethernet driver's rings against the MAC's DMA |
| `CmdUart` | the UART receiver, its request slots and the main loop's side |
| `StepPreempt_proofs`, `StepRamp_proofs`, `MsgQueue_proofs`, `Timer_proofs`, `CmdServer_proofs`, `EthDriver_proofs`, `CmdUart_proofs` | TLAPS: the inductive invariants of these modules and the theorems of section 4 |

`StepPreempt` extends `StepMotor` and shares its variables and handlers; `StepMotor` and
`StepRamp` share `RampShape`. The others share nothing and meet at calls: a queued timer handler fired by
`Timer!SysTick_Handler` and the reboot command are `Check` steps of `MsgQueue`; the
commands `CmdServer` dispatches are the command actions of `StepMotor`; the limit check
of `StepMotor` is a handler of `Timer`; a request of `CmdServer` is a frame that `EthDriver`
passes on, its reply one that `EthDriver` sends; a call of `CmdUart` is a message of
`MsgQueue`.

### StepMotor

The four axes share code and CPU but no data, so one axis is modelled.

* `axis` is the motion part of `hm_step_info_t` with the source's field names. A DMA
  buffer is the number of steps in it (`len`) and `valid`; the delays are abstracted.
  `run_state`, `accel_count`, `decel_val` and `decel_start` are abstracted to `stop_at`,
  the number of steps after which the ramp is in `rsSTOP` (`StopAt` is the closed form of
  what `hm_step_motor_move` sets up; it stands in `RampShape`, and `StepRamp` checks it
  against the loop). `first` and `gen` are history.
* `cfg` is the settings part, `chan` the registers (`tim`, `dma`, `cndtr`, the two
  interrupt flags, the direction pin). Two facts about the hardware matter and are
  modelled: CNDTR and CMAR of an enabled channel cannot be written, and a count of zero
  transfers nothing and raises nothing. `Tick` (external) is one timer update event with
  its DMA burst.
* `pins`, `exti`: sensors and pending edges. `hung`: the CPU is in a `while(1)`.
* `fed`, `out`, `late`: history, the true position, the steps since the last start, and
  whether a limit stop came late (below).

| action | code |
|---|---|
| `Tick`, `SensorChange` | hardware |
| `DmaHalf`, `DmaComplete` | `DMA1_Channel5_IRQHandler` and siblings: `hm_dma_fill_next_buf`, then `hm_dma_ck` |
| `ExtiIrq`, `LimitCheck` | `handler_extern_irq`, `hm_motor_limit_logical_check` |
| `FixMove` | `hmCmdFixMove` -> `hm_step_motor_move` |
| `KeepMove` | `hmCmdKeepMove` -> `hm_step_motor_start_homing` / `_start_free_run` -> `_start_run` |
| `StopSmooth`, `StopSudden` | `hmCmdStopMove` |
| `SetPos`, `ResetBoard`, `EnableAxis`, `SetAxisSetting` | the commands of these names in `hm_cmd_exc_ck` |

Each handler is one atomic step. That is exact for the handlers of priority 0. For
commands it is an abstraction: a command starts only when no priority 0 interrupt is
pending (`EthMayRun`) and is not interrupted half way; `StepPreempt` takes it back.

The axis starts as the board does, with every stop mode sudden
(`hm_step_motor_limit_operation.c:261-263`), and the host may change the modes at any time.
A limit handler sits in its debounce loops (5000 iterations per pin, `nLoop`) before it stops
the axis, so a transfer may complete meanwhile, whose interrupt, of the same priority, has to
wait. Nothing keeps the two apart, and in the model nothing does: `late` notes that a sudden
limit stop found a transfer-complete pending. What the firmware promises up to that moment is
stated and proved with `~late`; what follows it is `late_stop`.

### StepRamp

One action is one iteration of the loop of `hm_dma_update` (`Generate`); `Filled` and
`Refill` are its return and its next call, `Move`, `StartRun`, `StopSmooth` the set-up and
the stop, with the real sizes (buffers of 100, stops of 100 steps). `ramp` has the source's
fields. Delays are 16-bit and wrap, division truncates towards zero and by zero gives 0 (the
Cortex-M3 with its trap off); `mysqrt` is the code's bit-by-bit root. Which buffer is filled,
when it is played and where the axis is are left to `StepMotor`: the ramp does not read them.

`CurveWhileBusy` and `StopWhileDecel` open two things the code permits and under which the
ramp is not one (section 7): the curve changed under a running axis, and a smooth stop of a
ramp that already decelerates. `FALSE` keeps the host from them.

### StepPreempt

The commands run in the Ethernet interrupt, below DMA, EXTI and SysTick. `cmd.pc` is the next
access a command makes to what it shares with these handlers, and any number of handlers of
`StepMotor` may run before it: DMA interrupts, and limit stops of both modes, sudden ones too,
as `bStopImmediatelyCW` is at the time (`Setting` changes it between commands). A start has two
parts, since before the timer is on no handler touches the axis (`FixArm` or `FreeArm`, then
`Mark`); a sudden stop has five (`SuddenBegin` to `SuddenCount`), a smooth stop six
(`SmoothBegin` tests the state, `SmoothMark` stores `bstopping`), a position query three reads.
`lost` notes that a limit handler's sudden stop came after the host's had switched the channel
off and before it had marked the axis: the handler programs the counter again before it reads
it, and neither counts what was sent of the buffer (section 7).
`Window` bounds the steps the motor makes while a command is under way. A command takes
microseconds and a step at the top speed 250: two steps per command are already more than can
be. `StopFixed` permits a smooth stop under a fixed move, which can hang (section 7).

### EthDriver

`ETH_IRQHandler` is cut at every access to descriptors or status bits, which the MAC's DMA
(`Arrive`, `ArrivePart`, `Transmit`, `Suspend`, external) changes in between. A frame is a
number; a buffer holds a frame, a debug print (`Text`), a piece of a frame too long for one
buffer (`Part`), or nothing. Such a frame has its first and last segment in different
descriptors, or an error, and `ETH_GetRxPktSize` does not take it (`NoFrame`,
`stm32_eth.c:655-658`). `Input` stands for lwIP and `CmdServer`: an answer or none.
`env` is history: what was received and not copied, handed over and not sent, which descriptors
had their frame written over (`spoilt`), and whether driver and DMA have parted.
`LateFrames` is the number of frames that may arrive between the handler's last look at the
ring and its clearing of the interrupt, a few instructions later, while a frame takes at least
6 microseconds on the wire; the property needs it below the number of descriptors.

A print of a DMA, EXTI or SysTick handler may come between any two steps of a reply
(`h.nested`). It may then send from the buffer the reply was copied to, or leave the reply to
hand over the next buffer with whatever is in it. Once in a while it does worse: it finds the
reply's descriptor sent before the driver has moved on from it, and both move the driver on; or
the reply hands over a descriptor that the print has moved it to and that is still the DMA's.
Then the driver skips a descriptor at which the DMA waits (`env.parted`), and `WireIsExact` and
`EveryFrameSent` end (section 7).

### CmdUart

A byte is the request it belongs to and its place there, so a slot knows what it is made of.
Its value is left open where the code depends on nothing but the two marks: a mark has its own
value and never that of the other, a byte of payload any value, so that the test of the marks
(`hm_cmd_inter_uart.c:128`) may pass or fail on it (`MarksPass`, `MarksFail`).
`StoreByte` is the receive interrupt (`hm_cmd_uart_rcv_ck`): place, mark test, push, all of
it; `DropByte` is the same without an idle slot. `LoseByte` is the line, `Silence` a pause of
more than 300 ms. The main loop takes a call, executes and answers it, and gives the slot back
in two steps (`InitItem`, `ClearItem`), in this order, as the code does. `missing` counts the
bytes lost since the last silence; it is what the two properties about broken input depend on.

### MsgQueue

`hm_msg_queue_add` is six steps: `Check` (null function, full ring), `Reserve` (the part
with interrupts disabled), `Account` and `Note` (the low-water mark), `StoreFunc`,
`StoreParam`. `MayRun` is the NVIC: a step of a handler is possible only if every other
active handler has lower priority, so handlers nest and never interleave freely, and the
main loop (`GetRead`, `CallFunc`, `MoveNextRead`) runs when none is active. That is why a
slot whose index is published before it is filled is never read half filled. `Reboot` is
the call that does not return. The test for a full ring stands outside the section with
interrupts disabled (`hm_msg_queue.c:131`), and nothing restrains an add that comes in between:
`overrun` notes that a slot of a full ring was taken.

`ImplementsFifo` maps a reserved slot that is not yet filled to the message its handler
is about to store: the reservation is the moment the message enters the FIFO. `MsgFifo` lets
an add in while there is room (`Admit`) and gives it its place later (`Add`), as the code does;
when more are let in than there is room for, it may be `Overrun` and promises nothing until the
next reset. Any other loss, mix-up or reordering of calls is not a behaviour of `MsgFifo`.

### Timer

SysTick is one step: no handler of its own preemption priority interrupts it. The main
program, which it interrupts, registers in five stores (the order of the source), and
waits in the two loops of `hm_delay`. A tick counter is a number modulo `CountMod`. The
loop of SysTick is stated by its effect: all registered slots up to the first that is due
are counted down, that one is reloaded and called (directly or by a message, which makes
no difference to the table), those behind it are not touched. A registration arms its slot with
the store of `ms`; the handler is live from the store of `func`, two stores earlier, and counts
what the slot was left with. `used` (history) tells the slots that were ever armed.

### CmdServer

One callback at a time, in the Ethernet interrupt, from `Receive` to `Reply` or `Refuse`;
`IrqPrint` is a print of a DMA, EXTI or SysTick handler, possible between any two steps.
A request is its kind, its sender and the `ret` it arrives with. lwIP is external: a pool
of `PBUF_POOL_SIZE` buffers, of which a datagram takes one, and a control block that,
while connected, only hears its peer.

## 3. Runs

In the runs of `StepMotor` and `StepPreempt` buffers hold 3 or 4 steps instead of 100, so that
moves shorter than, equal to and longer than one and two buffers, even and odd buffer lengths
(half-transfer rounds), and several refills all occur within a few steps; the code compares
lengths only with the buffer size and with each other, so larger buffers add no new cases.
`LateTravel`, 0 in every run, bounds the position from which the axis is started again once it
is `late` or has `lost` steps. `StopSteps` is one buffer as in the code (100 and 100). `MaxTravel` bounds the position a
command may head for and cuts off free runs; these two are the only bounds on behaviours.

| run | asks | result |
|---|---|---|
| `axis_safety` | `TypeOK`, `ExactCount`, `NoTrap`, `StopHolds`, `PlaysInOrder`, `NoRunaway`, `MoveIsExact` for all commands, both stop modes and a limit switch, until a limit stop comes late | holds |
| `axis_liveness` | `EveryMoveEnds`, `FullBufferStopEnds`, `LimitStops` with fixed moves, free runs, smooth stops, stop modes that change | holds |
| `ramps` | `StopsWhereExpected`, `SpeedLimit`, `OneHill`, `EndsSlow`, `FullSpeedOnTime`, both curves, one motion after another | holds |
| `preempt` | `NoTrap`, `PlaysInOrder`, `LabelIsTrue`, `RestIsExact`, `AnswerIsNear` with commands cut at every shared access, limit stops of both modes and settings in between | holds |
| `queue_fifo` | `ImplementsFifo`, `EveryMessageHandled`, both handlers, up to a full ring and its overrun | holds |
| `timers` | `NeverEarly`, `DelayLasts`, `EveryTimerCalled`, registrations interrupted between any two stores | holds |
| `server_requests` | `BuffersAccounted`, `NoSendAfterFree`, `EveryRequestAnswered` | holds |
| `ethernet` | `NeverDeaf`, `CopiesInOrder`, `WireIsExact`, `EveryFrameTaken`, `EveryFrameSent`, both rings full at times, prints anywhere in a reply, frames too long | holds |
| `uart` | `ServedIntact`, `SlotsAccounted`, `OnlyWholeRequests`, `WholeRequestsArrive`, `EveryRequestAnswered` with lost bytes, payload that looks like marks, silences and unknown commands | holds |
| `late_stop` | `StopIsFinal` when a transfer completes during a limit handler | violated |
| `smooth_abrupt` | `SmoothStopDecelerates` for free runs | violated |
| `ramp_trap` | `SpeedLimit` with a speed slow enough to need no acceleration | violated |

Every module states its type invariant; `axis_safety` checks the one that is also proved, and
in the others it holds when added to the configuration, as does `NoTrap` of `StepRamp`. In `ramps` a trap would also be a deadlock, which TLC looks for.

The violated ones are disagreements between the code and its own comments; each is
described, with both lines, under `findings` in `PROJECT.json`. In short:

* **late_stop** - a sudden stop does not clear a pending transfer-complete, and
  `hm_dma_ck` does not look at `axis_state`: it switches a stopped axis on again.
* **smooth_abrupt** - a smooth stop sets the steps sent to 0 while a buffer is being sent;
  when that buffer completes its 100 steps fulfil the request, and the axis is switched off
  at full speed with the deceleration still in the other buffer.
* **ramp_trap** - a move that starts at full speed never sets `last_accel_delay`, from which
  its deceleration starts: another move's value or, after boot, 0, which is the `while(1)`.

Bounds of `ramps`: four requests that reach full speed after 4 to 1358 steps and nine lengths
around the buffer size, so that a ramp turns within the first buffer, at its edge and many
buffers later, with and without a stretch at full speed; smooth stops after any number of
refills. Other requests take the same paths; their arithmetic is not covered.
Bounds of `uart`: two slots run out, requests have 5 bytes (the code's
layout with one byte of input instead of more; its value takes part in the test of the marks
once the receiver is out of step), and the line loses up to 2 bytes, to which dropped ones add,
so that payload comes to stand where the marks are compared. Bounds of
`ethernet`: two descriptors each way (4 and 2 on the board) and one
late frame; three frames told apart are more than a ring holds.

Bounds of the other modules: a ring of 3 slots wraps, fills and is
overrun within a few adds; two
timers with a counter modulo 4 make each other miss ticks, wrap and reuse slots; 3 slots and
2 packet buffers keep the board's order (20 and 10): the pool runs dry
before the slots do.

Deadlock checking is off in `axis_liveness`: an idle axis with no more commands allowed by
the travel bound is a state the board may stay in. It is off in `server_requests`, where
commands without handler can use up all packet buffers, after which nothing is received.

**Fairness** (`FairSpec`). `WF(Tick)`: an enabled timer keeps counting. `WF(DmaIrq)`: a
pending DMA interrupt has the highest priority and is served. `SF(ExtiIrq)`,
`SF(LimitCheck)`: an EXTI line stays pending and SysTick fires every millisecond, and a
handler that has to wait for another is served next; strong fairness because each DMA
interrupt in between disables them for a moment. Nothing is assumed of commands or
sensors. In `MsgQueue` handlers that started finish and the main loop gets its turn
(strong fairness: other interrupts come in between, and return). In `Timer` SysTick keeps
coming. In `CmdServer` the callback runs to its end. In `EthDriver` the handler runs on, the
DMA sends, and frames keep arriving, which on a live network broadcasts alone see to: a frame
that came too late for one interrupt is served by the next. In `CmdUart` only the main loop is
fair; nothing is assumed of the host or the line. `EveryTimerCalled` depends on the
periods: with periods of at most the number of slots in front a timer can starve; the
board's (500, 1000 and 100 ms) are far from that, as are those of the run.

**Mutants.** Each property of a passing run has a mutated definition next to the original
in its module (marked "Mutated" or named after it with a suffix) that breaks the property, e.g. `hm_dma_setup`
with the channel disabled first loses the steps of the current buffer (`ExactCount`).

## 4. Proofs

`StepMotor_proofs` proves `TypeCorrect == Spec => []TypeOK` for every value of the
constants allowed by the assumptions (buffer size and stop length positive). The type invariant is inductive as it stands. The content is in
the buffer bounds: `FillCountFits` shows that `hm_dma_update` never writes past a buffer,
whatever the counters hold, also after a smooth stop has reset them.

The module also proves, for every buffer size, set of commands, move lengths, settings and
travel: `PositionIsExact` (`[]ExactCount`), `NeverTrapped` (`[]NoTrap`), `StoppedIsOff`
(`[]StopHolds`), `BuffersInOrder` (`[]PlaysInOrder`), `NeverFreeWheels` (`[]NoRunaway`) and
`MoveHasItsLength` (`MoveIsExact`). Nothing is assumed of when interrupts are served: limit
handlers run with a transfer-complete pending or not. Each property says itself that it ends
when a sudden limit stop leaves one pending (`late`); `late_stop` shows that it must.

None of these is inductive by itself. They follow from `IndInv`, proved once
(`Inductive`), which is `TypeOK` and, until `late`, `Motion`, whose parts are:

* `InvStoped`: a stopped axis has timer and channel off, no transfer-complete pending,
  and `pos` is the true position. Without it a transfer-complete left over from the last
  move could be served after the stop.
* `InvRunning`: a running axis sends the current buffer, `len` and `cndtr` agree with it,
  transfer-complete is pending exactly when the counter has reached zero, and the true
  position is `pos` plus what was sent of the buffer.
* `InvNextReady`: once half of the buffer is sent and the half-transfer served, the other
  buffer is ready; so the switch in `hm_dma_ck` never finds it invalid.
* `InvRamp`: the ramp stops no earlier than the requested steps (`StopAtBound`), so a
  refill never asks for a step after `rsSTOP`.
* `InvOrder`: the other buffer continues where the current one ends.
* `InvMove`: `steps_taken` is `steps_actual` plus what lies in the two buffers, and a
  short buffer is the last one; at the end of a fixed move this gives `MoveIsExact`.
* `InvFree`: a free run always has full buffers, so only a smooth stop or a zero move can
  leave a buffer of length 0.

The argument: view lemmas say what a buffer fill and a channel set-up do to the few
quantities `IndInv` speaks of; one lemma per action shows that it keeps each part it can
disturb; `Inductive` joins them, and each theorem is a corollary.

### The other modules

Every module with a `_proofs` companion ends with its inductive invariant, which TLC checked
on small instances before it was proved. All theorems hold for every
value of the constants that the named assumptions of the module allow; where a theorem has a
hypothesis of its own it is given here, with the reason. Each module's type invariant is
proved too (`ServerTypes`, `TimerTypes`, `DriverTypes`, `UartTypes`, `PreemptTypes`).

| theorem | property | hypothesis |
|---|---|---|
| `LabelsAreTrue` | `LabelIsTrue` | `ShortCommands` |
| `RestIsKnown`, `AnswersAreNear` | `RestIsExact`, `AnswerIsNear` | `ShortCommands`, `WholeBuffers` |
| `NeverTrappedHalfWay`, `PlayedInOrderHalfWay` | `NoTrap`, `PlaysInOrder` of `PSpec` | the same and `~StopFixed` |
| `StopsAtClosedForm` | `StopsWhereExpected` | |
| `QueueIsFifo` | `ImplementsFifo` | |
| `NoTimerEarly`, `DelayIsLongEnough` | `NeverEarly`, `DelayLasts` | |
| `BuffersHaveOneOwner`, `FreedIsNotSent` | `BuffersAccounted`, `NoSendAfterFree` | |
| `FramesInOrder` | `CopiesInOrder` | |
| `ReceiverHears` | `NeverDeaf` | `LateFrames < ETH_RXBUFNB` |
| `SentIsExact` | `WireIsExact` | |
| `ServesWhatWasQueued`, `NoSlotLost`, `NoMixedRequest`, `SilenceRecovers` | `ServedIntact`, `SlotsAccounted`, `OnlyWholeRequests`, `WholeRequestsArrive` | `Window <= HM_CMD_MAX_INPUT_SIZE` |

**StepPreempt.** `InvLabel` says, for each point a command can be interrupted at, how far
label, timer and channel may be apart: after `TIM_Cmd(ENABLE)` the axis is `asPreparing` and
the first buffer has at least as many steps as the command can still take; after the first
store of a sudden stop the channel is off and no transfer-complete is left, so no handler
switches it on again. A handler either changes nothing of this (`Quiet`), stops a running
axis completely (`Stops`), or hands over to the next buffer with everything on; three lemmas
show each keeps `InvLabel`. `ShortCommands` asks that a command takes fewer step pulses than
a buffer and than any move but the empty one: the instructions in question take microseconds
and the shortest delay is 250 us. It is needed; section 7 has what happens to a shorter move.
The proof reuses the type and view lemmas of `StepMotor_proofs`.

`RestIsKnown` and `AnswersAreNear` rest on `InvExact`, of an axis that is not hung (a hung one
serves no command). The difficulty is that a sudden stop and a query look up the current
buffer first and read the DMA counter later. `InvLookup` says what can have come between: the
buffer is still the current one, or its last step was sent since (`cmd.turned`), buffer and
successor are both full, and the pulses so far rule out another change. `InvSends` and
`InvOff` are the books: the true position is `pos` plus what was sent of the current buffer,
or, after the channel is off, plus what `SuddenCount` is going to add. `InvWhole` keeps every
buffer that is sent full, in free runs, moves and smooth stops, also with the counters of a
smooth stop half stored; `InvQuery` bounds what a query has counted by the pulses since it
began. The hypothesis `WholeBuffers` has three parts:

* moves fill whole buffers. Needed: in a move of 4 steps and buffers of 3, a sudden stop that
  looked up the full buffer and then switched the short one off counts 2 steps too many
  (section 7);
* `StopSteps <= HM_DMA_BUF_SIZE`, as on the board, where both are 100;
* `2 * (Window - 1) < HM_DMA_BUF_SIZE`: a command takes fewer pulses than half a buffer, for the
  reason given above for `ShortCommands`.

`NeverTrappedHalfWay` and `PlayedInOrderHalfWay` add `InvSafe`. `InvReady` and `InvInOrder`
are `InvNextReady` and `InvOrder` of the axis, kept also while a sudden stop has the channel
off and the timer still on. `InvSteps` is the new part: between its stores a smooth stop has
`steps_request` new and `steps_taken`, `steps_actual` or the ramp old, and a half-transfer
interrupt may fill a buffer by this mixture. It may do so once only (`Refilled`: the other
buffer is full, or the pulses left to the command do not reach the next half-transfer), and
for one buffer the mixture has enough steps. This argument needs the free run's `steps_taken`
of 1, so the host may stop only free runs (`~StopFixed`); a limit switch may stop any run,
because its handler stores everything at once and finds `bstopping` set when a command is
already stopping.

**StepRamp.** The counters decide where a move stops, whatever the delays are: `InvMove`
relates `steps_taken`, `accel_count` and `decel_val` in each `run_state` to the step at which
deceleration starts (`TurnsAt`) and to `StopAt`. Delays are left unconstrained, so the proof
also covers curves changed under way. With this the `stop_at` of `StepMotor` is justified for
every move, not only for those of the run.

**MsgQueue.** `Waiting`, what is in the ring with the half-finished adds completed, is the
abstract queue, and the adds between test and reservation are the ones let in. `InvFill` keeps
half-filled slots apart and `InvMain` the slot of the call being made; both hold until the ring
is overrun, after which `MsgFifo` waits for the reset. Each action is then an admission, an add,
an overrun, a call, a return, a reset, or a stutter of `MsgFifo`, shown action by action.

**Timer.** `InvArmed`: the ticks left in a slot and the ticks since it was armed make up its
period. `InvFresh`: a slot that was never armed has no ticks left, or wrapped from there
while it was being registered, at most as long ago as the registration lasts. `InvWaited`: the counter modulo its
width is the start of `hm_delay` plus the ticks waited, and the second loop is reached only
after the wrap.

**CmdServer.** `InvSlot`: the slot a reply frees is the one its request holds. `InvDebugBuf`,
`InvDebugOff`: the debug output never takes a second buffer, and a freed one is pointed to
only while `bdebug_on` is false.

**EthDriver.** `InvRx` and `InvTx`: the ring holds the frames owed from the consumer's
position on and without a gap, and all other descriptors are the producer's; `Ahead` counts
around the ring. `InvQuiet` bounds what is owed while no interrupt is pending by the frames
that came too late, from which `NeverDeaf` follows when the ring is longer (the board has 4
descriptors, and a handler's last look and its clearing of the flag are a few instructions
apart). `InvPart`: a piece of a frame too long never goes back to the DMA, so that `TooLong`,
which `NeverDeaf` excepts, lasts. `InvTx` holds until driver and DMA part, with prints anywhere;
`spoilt` and `h.nested` say which buffers it says nothing of.

**CmdUart.** `InvCalls`, `InvItem`: a slot in the queue is there once and keeps its bytes.
`InvLate`: what came in while a slot marked idle was being cleared. `InvSync`: the host is
ahead of the receiver by exactly the bytes missing, and a byte in its place has its request's
bytes before it. So one mark in its own place is enough for a whole request; a mixture has
neither, and passes only if both places hold payload (`PayloadForMarks`). The hypothesis bounds the bytes (24 on the board) that arrive within the few instructions of
a clear; a byte takes 260 us at 38400 baud (`hm_uart.c:79`).

### Only model-checked

* Liveness (`EveryMoveEnds`, `FullBufferStopEnds`, `LimitStops`,
  `EveryMessageHandled`, `EveryTimerCalled`, `EveryRequestAnswered`, `EveryFrameTaken`,
  `EveryFrameSent`): the prover does not reason about fairness.
* The numbers of the ramp (`SpeedLimit`, `EndsSlow`, `FullSpeedOnTime`, `OneHill`): each needs
  a bound on how far the delays grow in a deceleration, since beyond 16 bits they wrap (section
  7). The bound is a product along the recurrence, nonlinear and out of the solver's reach, and
  it rests on the first delay, that is on induction over the digits of `mysqrt`.
* `SmoothStopDecelerates`, which `smooth_abrupt` refutes, and `SmoothStopEnds` and
  `AcceptedMoveStarts`, which do not hold either (section 7).

## 5. Plan

All modules of section 2 and the theorems of section 4 are done; every safety property of a
passing run but the ramp's numbers is a theorem. Left:

1. What still holds after a late limit stop: by how much the position may be off, and that a
   sudden stop of the host always ends it.
2. A weaker `WholeBuffers`: moves with a short last buffer are exact as long as no sudden stop
   meets the change to it.

## 6. Not modelled

* Pulses the timer makes by itself between a completed transfer and the next one: the
  model counts steps fed by DMA. `hm_step_motor.c:792` is exposed to it.
* lwIP's own data structures, which prints from interrupts may enter while lwIP is active,
  and its periodic calls in the main loop.
* In `EthDriver`, the DMA's descriptor fetch and its setting of TBUS as two steps; frames with
  CRC errors, which the configuration of the MAC (`stm32f107.c:165-169`) drops before they reach
  a descriptor; one-time configuration of MAC and PHY.
* In `CmdUart`, a full message queue; registering and removing receive callbacks (there is one,
  registered once).
* `hm_tim_diff`, which reads no state (section 7).
* Request values for which the ramp's 32-bit numerators overflow, and timing against the real
  clock in every module.
* `hm_delay` when `s_tim_count + ms` is the largest count: the loop does not end.
* Position wrap at 2^31; the travel bound keeps far from it.
* Everything listed `not_modelled` in `PROJECT.json`, with its reason.

## 7. Seen beside the runs

**Confirmed by TLC**, and reproduced by changing the named configuration; the models have the
code's behaviour, and the runs' bounds or settings keep clear of it.

* Smooth stop in the last, short buffer of a fixed move (also by a limit switch in smooth
  mode): the counters are reset under it, the refills run dry and a buffer of length 0 leaves
  the timer running without an interrupt ever coming. `AxisLiveness.cfg` with
  `SmoothStopEnds`.
* A move of 0 steps starts the timer and never ends (`hm_step_motor.c:455` speaks of it).
  `AxisLiveness.cfg` with 0 among `FixSteps`.
* `bdo_home` is written before a command is accepted and is not reset when it returns early
  (`hm_step_motor.c:413`, `:285`): the next fixed move is answered true and does not move.
  `AxisSafety.cfg` with the sensor `"Home"` and `AcceptedMoveStarts`.
* The full test of `hm_msg_queue_add` is outside its critical section (`hm_msg_queue.c:131`):
  an add interrupted at the ring's limit empties the ring. In the run, as `overrun`, which
  `ImplementsFifo` and `EveryMessageHandled` name.
* A UDP command without handler keeps slot, buffer and connection
  (`hm_cmd_inter_netwk.c:269`). `ServerRequests.cfg` with the invariant `AllGivenBack`.
* `preempt` with moves of at most `Window` steps: the move ends before `asRuning` is stored
  and the axis is marked running for ever (`LabelIsTrue`). With moves that end in a short
  buffer, such as 4 steps, a sudden stop counts with the length of a stale `pdma_buf_cur`
  (`RestIsExact`). With `StopFixed` a smooth stop torn between its stores hangs (`NoTrap`).
* A limit handler's sudden stop, the board's default, in the middle of the host's sudden stop
  (`hm_step_motor.c:956-958`): the channel is off, so the handler's `hm_dma_setup` writes the
  counter, and both count 0 steps for the buffer. The position is short by up to a buffer.
  In the run `preempt`, as `lost`.
* After a late limit stop (`late_stop`) the transfer-complete counts the buffer that the stop
  has counted (`ExactCount` without `~late`), and the axis may run on, marked asStoped.
* `ramps` with `CurveWhileBusy`: a ramp that changes its curve has no hill (`OneHill`). With
  `StopWhileDecel` a smooth stop starts from a delay that is none (`EndsSlow`).
* `ethernet` with `LateFrames` not below `ETH_RXBUFNB`: all descriptors are full, no interrupt
  is pending, and none will come (`NeverDeaf`); `stm32f10x_it.c:155` says "Handles all the
  received frames". A send into a full ring overwrites a frame in flight and is answered
  `ERR_OK`; this one is in the run, as `spoilt`.
* A frame longer than `ETH_MAX_PACKET_SIZE` (1520, `stm32_eth.h:256`) takes two descriptors, and
  `stm32_eth.c:655-658` refuses both for ever: the ring fills behind them and the board hears
  nothing more until it is reset, again against `stm32f10x_it.c:155`. In the run, as `TooLong`.
* A print nested in a reply (`ethernetif.c:203-218`) may send the reply's bytes for its own, or
  have the reply send a buffer that is not its own; and it may make the driver skip a
  descriptor. With the board's two descriptors the DMA then waits at one that nobody hands over,
  or the driver at one that nobody sends: replies may come a frame late or stop. In the run, as
  `h.nested` and `env.parted`.
* `uart` with `Window = 2`: bytes that arrive while a slot already marked idle is being cleared
  (`hm_cmd_inter_uart.c:188`) are wiped out with it (`OnlyWholeRequests`). Once a
  whole request's worth of bytes is lost, a mixture of two requests passes the marks in its own
  places, and the property ends. With fewer lost, it takes two bytes of payload with the values 0x98 and 0x76 in the places of the
  marks (`:128`), and they are executed; in the run, as `PayloadForMarks`.
  A command without handler keeps its slot (`:205`); this one is in the run
  (`SlotsAccounted` names it).

**Found by reading.**

* In the ramp: an S-curve whose `n2` is below 100 first speeds up in a smooth stop; delays
  above about 5000 wrap 16 bits in one; `n2 = 0` divides by zero; large S-curve speeds overflow
  32 bits.
* The owner byte of a UART request is never checked.
* `hm_step_motor_start_homing` and `_start_free_run` write `bdo_home` before `start_run`
  refuses a busy axis (`hm_step_motor.c:233`): a refused command turns a homing run into
  a free run.
* `hm_cmd_execute.c:156-159` passes the CCW stop mode where the CW one is meant, and
  `hm_step_motor_limit_operation.c:399, 479` test the CW mode for every sensor.
* `hm_timer_register` stores `func` first, then `ms`, `once` and `bcall_direct`: a SysTick in
  between counts and calls by what the slot's last user left. `NeverEarly` has the early call
  (only in a slot used before, as `netwk_ck` takes the one `led_ck_net` gave back,
  `main.c:98`, `stm32f107.c:184-190`); the stale `once` and `bcall_direct` are in the model, and
  a once timer may be called once too often. No caller passes `once`.
* `hm_timer.h:19` says `hm_tim_diff` calculates the difference of two counts in ms; across the
  wrap it is one short (`hm_timer.c:87`). Its one caller in the build compares with 300 ms.
* `hm_debug.h:15` says a print is pushed to the main loop; it is sent at once, from one
  buffer that all contexts share.
* `hm_cmd_inter_netwk.c:176` says a refusal carries `ret = false`; the datagram is sent
  back as it came.
