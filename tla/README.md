# A verification project for yocto_layers

The repository is a set of Yocto layers for the boards of Tibbo and Sunplus.
Most of it is build metadata. Its own running code is

* a Linux driver for the Microchip MCP251xFD CAN FD controllers, changed from
  upstream (`meta-tibbo/recipes-kernel/linux/linux-sp/mcp251xfd-backport/mcp251xfd`,
  about 4000 lines),
* a rewrite of the SPI controller driver of the SP7021
  (`meta-sunplus/.../spi_backport/spi-sunplus-sp7021.c.new.patch`),
* patches of the UART driver (RS485 and flow control with a GPIO),
* a handful of kernel modules for tests, and shell scripts for the initramfs,
  for resizing the root partition and for configuring the hardware.

The CAN driver carries the difficult logic: three rings shared by an
unlocked transmit function, a threaded interrupt handler and a controller that
can only be asked over SPI, whose every access may fail; and a lifecycle in
which open, stop, bus-off and a delayed restart meet. It comes first.

Line numbers below are those of `mcp251xfd-core.c` unless another file is named.

## Inventory

| component | state | operations | hard parts | what makes it correct |
|---|---|---|---|---|
| transmit path | TX and TEF ring counters, `obj[]`, echo slots, queue stopped; in the controller the TX FIFO and the TEF | `start_xmit`, `tx_busy`, `handle_tefif` | no lock between `start_xmit` and the handler; asynchronous SPI; TEF read too early; unsigned counters | frames go out and complete in order, once; nothing is reused in flight; a stopped queue is woken |
| receive path | RX ring counters, `obj[]`; RX FIFO, overflow flag | `handle_rxif`, `handle_rxovif`, rx-int loop | the head is known modulo the ring only; reads in chunks; overflow while clearing | frames are passed on in order, once; no loss is forgotten |
| lifecycle, bus-off | `can.state`, what is acquired, carrier, restart work; mode and interrupt enable of the controller | `ndo_open`, `ndo_stop`, `chip_start`, `chip_stop`, `set_mode`, `handle_cerrif` | three threads; every access may fail; unwinding | state follows the controller; bus-off shuts it down; nothing leaks; no access without power |
| probe, registration, runtime PM | clock, vdd, PM count and status, SPI clock rate | `probe`, `remove`, `register`, `unregister`, `runtime_suspend/resume` | the interface is visible before registration ends; the worker suspends when it likes; every label of the error path | clock and supply balanced, there while used, given back at the end |
| controller faults | `ecc.cnt`, `ecc.ecc_stat`; mode, flags, corrupted objects of the controller | `handle_ivmif/modif/serrif/eccif`, `eccif_recover` | one fault is reported by up to four flags, over several passes of the handler, in any order | every TX frame is sent in the end, the mode restored, only a frame still in the ring reloaded |
| register map | none but the call on its way | read, write, update, with or without CRC | retries; the controller changes the register meanwhile; OSC is exempt from the CRC | a disturbed value is not returned; an update changes what it should and nothing else |
| RAM layout | ring sizes and addresses; FIFO setting of the controller | `ring_alloc`, `ring_init`, `chip_fifo_init`, the address helpers | the driver and the controller compute the addresses separately | both agree, all fits |
| interrupt test modules | GPIO, interrupt, handler, procfs entry | init, probe, remove, exit | error paths, state that survives a failed probe | released in order, whatever failed |
| SP7021 SPI controller | transfer cursors, completions, mutex | master transfer in chunks, slave transfer and abort, interrupts | time-out against late interrupt | all bytes once, in order; no hang |
| UART RS485 patches | RTS line | start and stop of transmission | line switched before the FIFO is empty | RTS encloses the bytes |
| shell scripts | partitions, files, mounts | mount retry, resize, reset of the configuration | interruption between two steps | can be repeated |

How they interact: the network stack calls `ndo_open`, `ndo_stop` and
`start_xmit`; the controller raises INT (and optionally rx-int), which the kernel
turns into a run of `mcp251xfd_irq`, the caller of all handlers; the
handlers and `start_xmit` share the rings; `can_bus_off` of can-dev schedules a work
that calls `set_mode`, i.e. `chip_start`, which initialises the rings again; all
register accesses go through the register map to the SPI core.

`PROJECT.json` lists all components, also those that are not modelled
(recipes, device trees, demos, patches that only log), and the hazards of the
code with the properties that cover them.

## Plan

1. `TxService`, `McpTx`, its invariant and proofs. Done.
2. `RxService`, `McpRx` and proofs. Done.
3. `McpLife` and proofs. Done.
4. `McpPower`: probe, register, unregister and runtime PM, with an open that
   comes in after `register_candev`. Done.
5. `McpEcc`: IVMIF, MODIF, SERRIF, ECCIF over the passes of the handler. Done.
6. `McpRegmap`, `McpLayout`, `IrqTests`: small components that share no state with the
   others; `MCLeaves` checks them in one run. Done.
7. `McpPowerProofs`, `McpEccProofs`. Done.
8. `StateTracksChip` and `AsleepWhenDown` in `McpLifeProofs`; `LeavesProofs`. Done:
   every invariant the runs check is a theorem.
9. Left: the composition of the end of `start_xmit` with the `ring_init` of a restart.

## Modules

| module | what it is |
|---|---|
| `TxService` | abstract transmit service: accept, send, report, in order |
| `McpTx` | `start_xmit`, SPI queue, TX FIFO, TEF, `handle_tefif` |
| `McpTxInv` | the inductive invariants of `McpTx` |
| `McpTxProofs`, `McpTxChipProofs` | theorems about `McpTx` |
| `RingLemmas` | lemmas about `%` and counters that wrap |
| `RxService` | abstract receive service: keep, lose, pass on, free, report the loss |
| `McpRx` | rx-int loop, `handle_rxif`, `handle_rxovif`, RX FIFO, and the inductive invariant |
| `McpRxProofs` | theorems about `McpRx` |
| `McpLife` | `ndo_open`, `ndo_stop`, `chip_start`, `chip_stop`, `set_mode`, the handler with `handle_cerrif`, and the inductive invariants |
| `McpLifeProofs` | theorems about `McpLife` |
| `McpPower` | `probe`, `remove`, `register`, `unregister`, the runtime PM callbacks and worker, with `ndo_open` and `ndo_stop` as the users of the power |
| `McpPowerProofs` | theorems about `McpPower` |
| `McpEcc` | one pass of the handler over MODIF, TEFIF, IVMIF, SERRIF and ECCIF, the ECC recovery, and a controller with faults |
| `McpEccProofs` | theorems about `McpEcc` |
| `McpRegmap` | one read, write or update of a register, on the bus with CRC and on the one without |
| `McpLayout` | the RAM addresses of the driver and those of the controller |
| `IrqTests` | probe, remove, init and exit of the interrupt test modules |
| `LeavesProofs` | theorems about `McpRegmap`, `McpLayout` and `IrqTests` |
| `MCMcpTx`, `MCMcpRx`, `MCMcpLife`, `MCMcpPower`, `MCMcpEcc`, `MCLeaves` | the instances for TLC; the values are in the `.cfg` files |

Definitions whose comment begins with "Mutant:" are wrong on purpose. Nothing uses
them; they stand for a plausible bug of the definition that follows, and each
property is known to fail when one of them takes its place (`mutants` in
`PROJECT.json`).

### McpTx

A frame is the number of its acceptance. `xpc` walks through `start_xmit`
(2477-2513) and `tx_busy` (2452-2475), one step per access to something shared:
look at the ring, stop the queue, look again, advance the head, stop, fill the
echo slot, hand the message to `spi_async`. `ipc` walks through `handle_tefif`
(1390-1471): read the tail of the TX FIFO, compute the TEF head, read one or two
linear pieces of the TEF, handle the objects, send the UINC commands, move the tail,
look at the free slots, wake. `SpiTransfer`, `ChipSend` and `ChipStoreTef` are
the SPI core and the controller: a frame leaves the TX FIFO before its TEF object
is visible, which is how the handler reads it too early (1413-1424). A message that
`spi_async` took may fail later in the queue (`SpiTransferFails`): it has no
completion callback, so the driver never learns of it. The
counters of the driver wrap at `Wrap` (2^32), sequence numbers are
compared modulo `SeqMod` (2^7), the RAM is zero at first as `chip_ecc_init`
leaves it. The one lock-free assumption of the code, that the network stack makes one
call of `start_xmit` at a time, is the single program counter `xpc`.

### McpRx

`ipc` walks through the loop on rx-int (2205-2218), the read of the interrupt
flags (2220-2237), `handle_rxif` (1498-1653) and `handle_rxovif` (1674-1724). The
controller stores a frame or, when the FIFO is full, sets RXOVIF. The driver sees
its head modulo the ring (FIFOCI) and takes head = head for a full ring
(1488-1490). `last` and `report` are history for the abstract service: a loss is `due`
to be reported until `handle_rxovif` has queued an error frame, or is `missing` because
the timestamp could not be read or no skb was there, for which the code returns 0
with RXOVIF already cleared (1712-1714). `RxService` knows both outcomes.

In `McpTx` and `McpRx` a failing transfer of the handler makes it `dead`: the write of
`out_fail` that masks all interrupts (2339) is taken to reach the controller. `McpLife`
has the write that fails.

### McpLife

`pc` has one entry per thread: `rtnl` (open, stop, restart by netlink), `irq` and
`work` (the restart work of can-dev). `chip_start` and `chip_stop` are procedures:
`cont[t]` is the label to return to. Every SPI access is one step that may
fail; a write that failed may still have arrived. The variables `pm`, `rings`,
`xcvr`, `offload`, `irqReg` say what `ndo_open` has acquired; the
labels `undo_*` are its `goto` targets (2559-2573), `stop_*` the steps of
`ndo_stop`. `chip` is the controller: mode, master interrupt enable, CERRIF,
any other flag, and the error states from which TREC is computed. The writes that
enable and disable the interrupts (1074-1087, 1095) are of the whole INT register with its
flags 0, which clears them: `missed` is history that says that the driver cleared a
CERRIF nobody had read. Errors come at any time in normal mode; until `ndo_open` starts the
queue, those of transmission only fall (`NothingSent`). `ring_init` on rings that were
freed is the label `oops`, which has no successor. The handler's other work (`IrqHandlers`) includes the request for the
normal mode that `handle_modif` makes (1955).

can-dev and the kernel are external: `open_candev` and `close_candev` (the latter
cancels the restart work or waits for it), `can_bus_off` (carrier off, schedule
the work if `restart_ms` is set), `can_restart_now` (refused unless the state is
bus-off), `free_irq` (waits for the handler).

### McpPower

`drv` is the thread of the driver core: `probe` with `mcp251xfd_register` (2763-2825)
down to its error labels `undo_*`, `remove` with `unregister` (2827-2837). `user` is
a thread that opens and closes the interface as soon as
`register_candev` made it visible (2794); it holds the RTNL lock, for which
`register_candev` and `unregister_candev` wait. What happens to the
controller between `pm_runtime_get_sync` and the end of `ndo_open` is one step here,
and in detail in `McpLife`. The worker is the one of the runtime PM core,
which calls `mcp251xfd_runtime_suspend` (3089). `clk` and `vdd` count how often this
device enabled them, `pm` is the part of `struct dev_pm_info` the calls touch: usage
count, disable depth, status, a sticky error, a pending idle request. The constants
of a board (a supply, CONFIG_PM, `dv_noslp`) are chosen in `Init`.

`mcp251xfd_register_done` fails only when the first allocation of `register_get_dev_id`
does (2694-2696), which `register` unwinds; after every other failure it prints values
that were not read.

Three facts the model shows and no text of the code denies, each an exception of a
property: an open that arrives while `register` still runs is put to sleep by its last
step (2802; hence `early` in `AwakeWhileUp`); after a resume that failed `unregister`
disables once more than was enabled (2833; `BalancedPower`); and a supply that
cannot be disabled stays on together with the clock (186; `PowerReturned`).

### McpEcc

A fault is a TX object in the RAM with one or two corrupted bits, an ECC error elsewhere
in the RAM, or a TX MAB underflow. ECCSTAT holds the last address and both flags, and the
same error is one with the same address and the same flags (2140). The controller
reports one fault by IVMIF, MODIF, SERRIF and ECCIF, together or in different passes of
the handler, and leaves its normal mode when the frame is aborted. `pc` walks through
one pass (2220-2310): read INT, acknowledge what was read, `handle_modif`, `handle_tefif`,
`handle_ivmif`, `handle_serrif`, `handle_eccif` (2085-2159) with `eccif_recover`
(2036-2083). `intf` and `setNormal` are read at one step and used at a later
one, while the controller goes on. The MCP2518FD loads the next frame
ahead, which is why its recovery accepts two objects (2055).

What the model shows besides its properties:

* The comment at 1946-1953 has the frame reloaded when an ECC error was found;
  the code reloads at the second occurrence of the same error (2151).
* `ecc.cnt` is never reset once an error was seen, so `handle_serrif` (1989)
  takes every later system error for a known one.
* `eccif_recover` gives up (and ends the handler, 2060) when the controller moved its
  tail after INT was read, and when the controller takes too long to return to its normal
  mode (2081): state `dead`, which the two liveness properties except.
* The requests for the normal mode that do not wait (1955, 2156) take effect at once in
  the model.
* IVMIF is enabled only with bus error reporting (1084-1085). The model
  has it always raised, and the handler reads the flag, not the enable.
* Two corrupted objects reported in turn would never count to two; the prefetch of one
  frame (`Loads`) does not produce that order.

### McpRegmap, McpLayout, IrqTests

`McpRegmap` follows one call at a time, since a call holds the lock of the map. With
CRC an update is the read, modify and write of the regmap core, without CRC
`nocrc_update_bits` writes the bytes of the mask and reads back only the registers for
which the bits outside of the mask matter (`ReadsBack`). Each of the three
retries of `crc_read` reads up to three times (307-355). All three device
types use the CRC; the bus without is built and modelled as well.
Reads of OSC are exempt from the CRC (`lost` marks a disturbed one), and
`chip_detect` (2621) writes what such a read returned back; a write the controller
refuses is reported by SPICRCIF only.

`McpLayout` computes the addresses twice: as the driver does, from the sizes in the
rings, and as the controller does, from the FIFO registers `chip_fifo_init` wrote. The
control mode (`FD`, `LISTENONLY`) decides both and the user changes it in between.

`IrqTests` is one state machine for `dv-int`, `dv-git`, `dv-irq-tst` and `intltest`,
whose probes differ in a step. `slips` records the exceptions of `PinsReturned`: on two
errors `dv-irq-tst` leaves its probe without the error label, its remove takes
GPIO 0 for none, and with an interrupt that has no GPIO it calls `gpio_free` on an
error code.

## Runs

`CHECK_DEADLOCK FALSE` everywhere: the numbers of frames, errors and failures are
bounded, so every behaviour ends; a driver with nothing to do may stop as well. What
must not stop is stated as liveness.

| run | shows |
|---|---|
| `tx_service` | with a working asynchronous queue, and one failing synchronous transfer, `McpTx` implements `TxService`; slots are not reused in flight; the inductive invariant; everything accepted is sent and completed, a stopped queue restarts, a pending TEF object is released |
| `tx_degraded` | with a message of `start_xmit` that is refused or lost later, and a failing transfer: ring order, TEF never overflows, echo slots owned; no lost wakeup of the queue, except with a dead handler or after the lost message |
| `tx_wrap` | **violation**: with wrapping counters the TEF head passes the TX head |
| `tx_async_fail` | **violation**: after a lost message of `start_xmit` -EAGAIN is not transient |
| `rx_service` | `McpRx` implements `RxService`, with wrapping counters, overflow and a failing transfer; the inductive invariant; frames are passed on, room is given back, losses are reported unless there was no error frame for them |
| `life_manual` | whatever two accesses fail, open and stop release what was acquired; while no access fails, the state shown follows the controller, except for a CERRIF the enabling of the interrupts cleared, and a closed interface leaves it asleep; the inductive invariant |
| `life_auto` | bus-off shuts down, schedules the restart and ends; no access without power, also when the work meets `ndo_stop`; the restart meets freed rings only between `ring_free` and `close_candev` |
| `life_busoff_spi` | **violation**: one failing access in bus-off leaves the controller running |
| `power` | whatever fails in two probes: no access without clock and supply, also while the worker suspends or `register` unwinds; a device without driver holds nothing; never switched off more often than on; an interface that is up is awake, with the exceptions named above; a bound idle device loses its power |
| `ecc` | faults at any moment: only an object of a frame still in the ring is reloaded; the system error of an ECC error is known as such; unless the handler gives up, the normal mode returns and every frame is sent and acknowledged |
| `leaves` | register reads and updates are right under disturbed transfers and a controller that changes the register; driver and controller agree on the RAM addresses in every control mode; test modules give back what they took |
| `life_restart_stop` | **violation**: the restart work runs inside `ndo_stop` and wakes a controller that then belongs to a closed interface |

Bounds. The rings have 4 objects in the passing runs (the size for CAN FD; 8 for
classical CAN differ only in number) and 2 in the violation runs. The 8 to 10
frames (`MaxFrames`, `MaxArrivals`) go round a ring of 4 at least twice, up to or
past the end of the sequence numbers (`SeqMod` 8) and, for RX, past the counters
(`Wrap` 8). For TX the counters do not wrap in the passing runs because the code is
wrong there (`tx_wrap`). Up to two SPI failures (`MaxSpiFails`) in `life_manual`: one
in the operation and one in the unwinding that it causes. Up to 6 changes of the
error state (`MaxErrors`): 3 reach bus-off, so that both passing runs of `McpLife` get
there twice; 4 in the violation runs.

`power`: two probes (`MaxBinds`), so that what the first left behind meets the
second; open, stop, suspend and resume are not bounded. `ecc`: a ring of 2,
3 frames (one slot is used again) and 2 faults, so that an object fails with one bit and
with two, or an ECC error meets an underflow; the same corrupted object is
found again without a further fault, as its corruption stays. The controller is the
MCP2518FD, which loads the next frame ahead and so does all the MCP2517FD does; the recovery of
the MCP2517FD only gives up more often. The theorems hold for both. A ring of 2 is
smaller than the smallest of
the code (4) and puts the next object, which the MCP2518FD loads ahead, next to the
first on both sides. `leaves`: registers with up to 6 bits that stand for the
four bytes, all masks and values of the driver, all sets of control modes; no other
bound.

Liveness is stated for behaviours in which no failing transfer ended the handler
(`[](ipc # "dead")`): after an error `mcp251xfd_irq` disables its interrupts and
nothing more is handled until the controller is started again (2336-2339).

Fairness. The handler is fair because the kernel schedules its thread while INT is
asserted; `start_xmit` returns, because it contains no wait; `spi_async`
messages are processed by the SPI core; the controller sends, which assumes
another node that acknowledges; the work of can-dev is scheduled when its delay is
over. In `McpPower` the kernel runs a thread that can run (the driver's, the
user's once in a call, the PM worker). In `McpEcc` the handler is fair, the
controller sends, changes its mode and raises SERRIF after an underflow, and does not
keep ECCIF away for ever from an object that is loaded again and again (strong
fairness of `Detect(TRUE)`, as its condition is interrupted by the change
of mode). Nothing obliges the stack to send, the user to open or close, frames to
arrive or errors to happen.

## What the model says about the code

The four violations are disagreements of the code with its comments; each is
described in `PROJECT.json` under `findings`:

* 1361: the TEF head "cannot exceed the TX head". `new_head` is one ring beyond the TEF
  head when the controller has sent everything; in the last ring before 2^32 it wraps to a
  small value while `tx_ring->head` has not, `min()` picks it, and the TEF head is past
  the TX head.
* 1415: -EAGAIN means the TEF was read too early and the handler is called
  again; after a lost message of `start_xmit` it never ends. The frame was already counted,
  the controller sends the old contents of the slot it was to fill, and their sequence number
  (an earlier one, or that of the zeroed RAM) is not the one expected.
* 2322: "In Bus Off we completely shut down the controller": not when the read of
  the error counters fails (1875). It is not true with `dv_noslp` either, for which
  the request for sleep mode is a no-op (546); no run is spent on that, the theorem
  on bus-off assumes `~NoSleep`.
* 1217: "Avoid waking up the controller if the interface is down": the restart
  work is cancelled only by `close_candev` (2587), after the controller
  was stopped and the rings freed.

A fifth disagreement is an exception of `StateTracksChip`. The handler acknowledges first and
then handles, and writes 1 to the flags it does not mean, "to avoid lost-IRQ race condition"
(2239-2245). The write that enables the interrupts (1074-1087) clears all flags unseen. A change
of the error state between the request for the normal mode (1150) and that write is shown only
with the next change; until then the state shown is error active, for which the handler does
not poll (2312). The model reaches this with every access working.

## Proofs

TLAPS proves, for every value of the constants:

`McpTx` (assuming `NoWrap`, i.e. fewer frames than the counters can count; the run
`tx_wrap` shows why), whatever transfers fail, those of `spi_async` included: type
correctness, `TefHeadBounded`, `TefNeverOverflows`, `EchoOwned` and `NoLostWakeup`. The
last says that with a stopped queue a thread is about to look at the ring, or a frame is
not completed and the handler runs for it or will (its answer is due); with a dead
handler or a lost message it says no more than that the ring is not empty. The
argument: `DriverInv` orders the four cursors of the driver within one ring; that
alone does not keep the handler from completing a frame whose TEF object is not
written yet, because what the driver computes from FIFOCI may be ahead of the
controller. `ChipInv` therefore ties the cursors to the counters of the controller
for every label of the two threads, and `TefChecked` says what a TEF slot holds that
was not written again: a sequence number the driver itself accepted at that place
one ring ago, or the zeroes of `chip_ecc_init`. As a ring is shorter than the range of
sequence numbers, it differs from the one expected now, so an object is accepted
only if the controller wrote it. Nothing here depends on which frame the object
belongs to; that is why it holds after a lost message too.

With `NoAsyncFails` in addition: `TxInv`, which adds where each frame is between
`spi_async` and the bus (`InFlight`), from it `NoReuseInFlight` and that `McpTx`
implements `TxService`. Both are false after a `spi_async` that failed: the controller
then sends the old contents of the slot the message was to fill.

`McpRx` (no assumption, counters may wrap, any number of failures): `RxInv` with
type correctness,
`HeadBacked`, `LossNotForgotten` (a loss is pending until its report was queued or found to
be impossible), refinement of `RxService`. The argument: between
two runs of `rx_ring_update` everything handled is released, so its head is that
of the controller's tail; RXIF says the FIFO is not empty; hence equal heads mean
full.

`McpLife` (any number of failures and of changes of the error state): type
correctness and `InductiveInv`, which has two halves. `LifeInv` holds whatever fails: it
says for each place of `ndo_open` and `ndo_stop` what is held (`Place` counts a
procedure as the place it returns to) and that the other threads run only in
between; from it `DownHoldsNothing`, `PoweredAccess` and `RingsPresent`, which holds with
the restart work too: only that work can meet freed rings, and only from `ring_free` until
`close_candev` has waited for it. `WorkingInv` holds until the first access fails, for every setting
of `AutoRestart` and `NoSleep`:

* `BusOffInv`: a restart begins only when the interrupts are masked and the handler is
  past its work, so nobody undoes the shutdown the handler makes step by step.
* `ModeInv`: while it is configured after a reset, the controller is not in normal mode
  and its error counters are 0; whenever its interrupts are enabled it is in normal mode;
  and the handler, up to its own `chip_stop`, never finds it asleep. Without it, a change
  of the error state could be lost between the reset and the end of `chip_start`.
* `TrackInv`: from the end of the configuration on, the state shown is the one of the
  controller, or CERRIF is set, or the enabling of the interrupts cleared it (`missed`), or
  the handler has the news (CERRIF in its copy of
  the flags, then the new state). CERRIF is acknowledged before the counters are read,
  which is what makes this inductive; the mutant `AckLate` breaks it.
* `UnseenInv`: what was missed in this way leaves the state error active, as nobody reads the
  counters until the next CERRIF, which ends `missed`.
* `AsleepInv`: what `ndo_stop` has undone at each of its labels. It needs both that no
  work restarts the controller and that the controller may sleep.

From these `StateTracksChip` without an assumption, which names the
missed change; `AsleepWhenDown` assuming
`~AutoRestart` (the run `life_restart_stop` shows why) and `~NoSleep`; and
`BusOffShutDown` up to the first failing access, or always on an SPI bus that works,
assuming `~NoSleep`. The run `life_busoff_spi` shows that one failing access is
enough to violate it; with `dv_noslp` the request for sleep mode does nothing (546).

`McpPower` (any number of probes, any failures): `PowerInv`, and from it
`PoweredWhenUsed`, `PowerReturned`, `BalancedPower` and `AwakeWhileUp`. That the power is on
when somebody uses the controller is not inductive: it follows from who holds a
reference, whether runtime PM is enabled and what the worker may have begun.
`PmInv` says so for each place of `register`, `unregister`, `ndo_open` and
`ndo_stop` (and that the worker suspends only while nobody holds a reference and the
thread of the driver core is at a place of `Managed`); `SwitchInv` derives how often clock
and supply are on from the state of runtime PM, or, without CONFIG_PM, from the place alone. A
resume or a disable that failed is the only excuse, which is why `failed` appears in it; the
theorems have the same exceptions as the properties.

`McpEcc` (every ring size, any number of frames and faults): `EccInv`, and from it
`ReloadOwned` and `EccErrorsKnown`. The handler uses an address three times: from ECCSTAT,
from its local copy, and from `priv->ecc` at the next occurrence. `OwnInv` says for
each place which of these still belong to a frame of the TX ring. The
one step that could break it is the acknowledgement of frames, and that step forgets the
address in `priv->ecc` (`ecc_tefif_successful`), so the address in ECCSTAT is then one
seen for the first time. It also covers a flag of the other kind that `handle_eccif` leaves
set because it rose after ECCSTAT was read. `CountInv`: an ECC error whose SERRIF is still to come has its flag
set, or its judgement is on its way, or it has been counted.

`McpRegmap` (any set of device types): `ReadSound` and `UpdateExact`, from `RegInv`. It
says what the controller may have done to the register since the call began
(`Drift`: status bits move, flags only rise), that what an update read agrees with
the register in every bit the controller left alone (`ReadBack`), and what the masks of the
driver have in common (`Asked`): none contains a status bit, each contains all the
flags of its register, and where the register is not read back no other bit that is
written shares a byte with the mask. The last is a fact about the list of
`mcp251xfd_update_bits_read_reg` and is proved register by register; with `CON`
added to that list the proof fails at `CON`.

`McpLayout` (every control mode): `AddressesAgree`, from `LayoutInv`, by which the rings
are always those of the present control mode, because it cannot be changed while they
exist, and the FIFO setting is that of the same mode or none once `ring_init` ran.

`IrqTests`: `PinsReturned`, from `PinInv`, which says what is held at each place of
probe and remove.

Only model-checked: the liveness properties (out of the prover's reach with fairness
and ENABLED). Every invariant and every refinement the passing runs check is also a
theorem, under the assumptions named above. No module uses RECURSIVE operators, and
nothing is proved about data of unbounded recursion.

## Not modelled

In the models of the rings and of the lifecycle: contents of frames beyond their identity,
timestamps, statistics and log messages, the bits of registers that only configure the
controller (their accesses are, since they may fail), and the bytes of the error frame
in which an unwritten counter may appear (1887-1893). The values of IOCON and of
the oscillator settings that come from uninitialised variables without their
device tree properties (`dv_iocon`, `dv_oscva`, 2905) are data of no model. The
checks under `CONFIG_CAN_MCP251XFD_SANITY` are off by default and left out.

* A restart that meets a `start_xmit` still on its way: `McpTx` and `McpRx`
  start after `chip_start`, `McpLife` abstracts from what the rings hold. The product of
  the two is beyond TLC with both in full; the hazard is listed without a property.
* `McpPower` leaves out the references the driver core takes around `remove` and the
  control of runtime PM by sysfs.
* The SP7021 SPI driver: its transfers depend on when the FIFO counters, the status and
  the interrupts of the block change, which nothing in the repository states. A model would
  have to invent that. Its hazards are listed.
* The RS485 patches: a few lines, in several variants, of a serial driver that is not
  in the repository.
* The shell scripts are sequential calls of external tools, whose effect on an
  interruption is not in the repository.

The other components left out are listed with their reason in `PROJECT.json`.
