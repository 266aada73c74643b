------------------------------ MODULE McpLife ------------------------------
(***************************************************************************)
(* The life of a CAN interface of the mcp251xfd driver: ndo_open and       *)
(* ndo_stop (thread "rtnl"), the threaded interrupt handler with the part  *)
(* that follows the error state of the controller into bus-off (thread     *)
(* "irq"), and the restart after bus-off, done by a delayed work of can-dev *)
(* (thread "work") or by a netlink request (thread "rtnl").                *)
(*                                                                         *)
(* Every SPI access may fail.  chip_start and chip_stop are procedures of  *)
(* all threads: cont[t] is where thread t continues after them.  Registers *)
(* that only configure the controller are left out, their accesses are not. *)
(***************************************************************************)
EXTENDS Integers

CONSTANTS
  AutoRestart,      \* can.restart_ms # 0: restart after bus-off by itself
  NoSleep,          \* priv->dv_noslp
  NoBerr,           \* priv->dv_nober
  MaxErrors,        \* bound: changes of the controller's error state
  MaxSpiFails       \* bound: SPI accesses that fail

ASSUME LifeAssumption ==
  /\ AutoRestart \in BOOLEAN /\ NoSleep \in BOOLEAN /\ NoBerr \in BOOLEAN
  /\ MaxErrors \in Nat /\ MaxSpiFails \in Nat

VARIABLES
  pc, cont,         \* where each thread is, where it continues after a call
  \* driver and network device
  canState,         \* priv->can.state
  pm,               \* the interface holds a runtime PM reference
  rings,            \* priv->rx[0] is allocated
  xcvr,             \* the transceiver is enabled
  offload,          \* can_rx_offload_enable
  irqReg,           \* the interrupt handler is registered
  queue,            \* the TX queue is started
  carrier,          \* netif_carrier_ok
  restart,          \* the restart work is scheduled
  cerr, event,      \* CERRIF, other flags in priv->regs_status.intf
  newState, skb,    \* locals of handle_cerrif
  \* controller
  chip,             \* mode, interrupt enable, flags, error states
                    \* (missed is a history: see IntWritten)
  errors, spiFails

resources == <<pm, rings, xcvr, offload, irqReg>>
irqLocals == <<cerr, event, newState, skb>>
vars == <<pc, cont, canState, resources, queue, carrier, restart, irqLocals,
          chip, errors, spiFails>>

Threads == {"rtnl", "irq", "work"}
Callers == {"rtnl", "work"}         \* of chip_start

\* enum can_state
Active == 0     Warning == 1     Passive == 2     BusOff == 3     Stopped == 4

\* The controller after a reset.
ResetChip == [mode |-> "config", ie |-> FALSE, cerrif |-> FALSE,
              event |-> FALSE, tx |-> Active, rx |-> Active, missed |-> FALSE]

Goto(t, l) == pc' = [pc EXCEPT ![t] = l]
Step(t, from, to) == pc[t] = from /\ Goto(t, to)
Call(t, proc, l) == Goto(t, proc) /\ cont' = [cont EXCEPT ![t] = l]
SpiWorks == UNCHANGED spiFails
SpiFails == spiFails < MaxSpiFails /\ spiFails' = spiFails + 1

Init ==
  /\ pc = [rtnl |-> "down", irq |-> "idle", work |-> "idle"]
  /\ cont = [t \in Threads |-> "none"]
  /\ canState = Stopped
  /\ pm = FALSE /\ rings = FALSE /\ xcvr = FALSE /\ offload = FALSE
  /\ irqReg = FALSE /\ queue = FALSE /\ carrier = TRUE /\ restart = FALSE
  /\ cerr = FALSE /\ event = FALSE /\ newState = Active /\ skb = FALSE
  \* mcp251xfd_register leaves the controller in Sleep Mode
  /\ chip = [ResetChip EXCEPT !.mode = IF NoSleep THEN "config" ELSE "sleep"]
  /\ errors = 0 /\ spiFails = 0

-----------------------------------------------------------------------------
(* chip_interrupts_enable and chip_interrupts_disable.  A write that fails *)
(* may have reached the controller.                                        *)

\* The whole register INT is written, its flags with 0, which clears CERRIF and
\* those of the other flags that do not stand for a FIFO.  missed remembers a
\* CERRIF that was cleared before anybody read the error state.
IntWritten(on) ==
  {[chip EXCEPT !.ie = on, !.cerrif = FALSE, !.event = @ /\ left,
                !.missed = @ \/ chip.cerrif] : left \in BOOLEAN}

IntsEnable(t, ok, fail, failCont) ==
  \/ SpiWorks /\ chip' \in IntWritten(TRUE) /\ Call(t, ok, cont[t])
  \/ SpiFails /\ chip' \in {chip} \cup IntWritten(TRUE) /\ Call(t, fail, failCont)

IntsDisable ==
  \/ SpiWorks /\ chip' \in IntWritten(FALSE)
  \/ SpiFails /\ chip' \in {chip} \cup IntWritten(FALSE)

-----------------------------------------------------------------------------
(* chip_stop: errors are ignored.  Only the interrupt handler stops the    *)
(* controller for bus-off.                                                 *)

ChipStopState(t) ==
  /\ Step(t, "chip_stop", "stop_ints")
  /\ canState' = IF t = "irq" THEN BusOff ELSE Stopped
  /\ UNCHANGED <<cont, resources, queue, carrier, restart, irqLocals, chip,
                 errors, spiFails>>

\* Mutant: the interrupts stay enabled.
StopUnmasked(t) ==
  /\ Step(t, "stop_ints", "stop_sleep")
  /\ UNCHANGED <<cont, canState, resources, queue, carrier, restart,
                 irqLocals, chip, errors, spiFails>>

ChipStopInts(t) ==
  /\ Step(t, "stop_ints", "stop_sleep")
  /\ IntsDisable
  /\ UNCHANGED <<cont, canState, resources, queue, carrier, restart,
                 irqLocals, errors>>

\* chip_set_mode(SLEEP), which dv_noslp turns into nothing.
ChipStopSleep(t) ==
  /\ Step(t, "stop_sleep", cont[t])
  /\ IF NoSleep
       THEN UNCHANGED <<chip, spiFails>>
       ELSE \/ SpiWorks /\ chip' = [chip EXCEPT !.mode = "sleep"]
            \/ SpiFails /\ chip' \in {chip, [chip EXCEPT !.mode = "sleep"]}
  /\ UNCHANGED <<cont, canState, resources, queue, carrier, restart,
                 irqLocals, errors>>

ChipStop(t) == ChipStopState(t) \/ ChipStopInts(t) \/ ChipStopSleep(t)

-----------------------------------------------------------------------------
(* chip_start.                                                             *)

\* Where the caller of chip_start continues when it fails.
OnError(l) == IF l = "offload" THEN "undo_xcvr" ELSE "rs_done"
StartFails(t) == SpiFails /\ Call(t, "chip_stop", OnError(cont[t]))

\* Steps that only configure the controller: chip_clock_init and
\* set_bittiming, chip_ecc_init.
Configure(t, from, to) ==
  /\ pc[t] = from
  /\ \/ SpiWorks /\ Goto(t, to) /\ UNCHANGED cont
     \/ StartFails(t)
  /\ UNCHANGED <<canState, resources, queue, carrier, restart, irqLocals,
                 chip, errors>>

\* chip_softreset() with its retries, ending well or not.
ChipSoftreset(t) ==
  /\ pc[t] = "softreset"
  /\ \/ /\ SpiWorks /\ Goto(t, "clock_init") /\ UNCHANGED cont
        /\ chip' = ResetChip
     \/ StartFails(t) /\ chip' \in {chip, ResetChip}
  /\ UNCHANGED <<canState, resources, queue, carrier, restart, irqLocals,
                 errors>>

\* A failing chip_rx_int_enable() returns without chip_stop().
ChipRxIntEnable(t) ==
  /\ pc[t] = "rx_int"
  /\ \/ SpiWorks /\ Goto(t, "ecc_init")
     \/ SpiFails /\ Goto(t, OnError(cont[t]))
  /\ UNCHANGED <<cont, canState, resources, queue, carrier, restart,
                 irqLocals, chip, errors>>

\* ring_init() walks priv->rx[].
RingInit(t) ==
  /\ Step(t, "ring_init", IF rings THEN "fifo_init" ELSE "oops")
  /\ UNCHANGED <<cont, canState, resources, queue, carrier, restart,
                 irqLocals, chip, errors, spiFails>>

ChipFifoInit(t) ==
  /\ pc[t] = "fifo_init"
  /\ \/ SpiWorks /\ Goto(t, "normal") /\ canState' = Active /\ UNCHANGED cont
     \/ StartFails(t) /\ UNCHANGED canState
  /\ UNCHANGED <<resources, queue, carrier, restart, irqLocals, chip, errors>>

ChipSetNormalMode(t) ==
  /\ pc[t] = "normal"
  /\ \/ /\ SpiWorks /\ Goto(t, cont[t]) /\ UNCHANGED cont
        /\ chip' = [chip EXCEPT !.mode = "normal"]
     \/ StartFails(t) /\ chip' \in {chip, [chip EXCEPT !.mode = "normal"]}
  /\ UNCHANGED <<canState, resources, queue, carrier, restart, irqLocals,
                 errors>>

ChipStart(t) ==
  \/ ChipSoftreset(t) \/ Configure(t, "clock_init", "rx_int")
  \/ ChipRxIntEnable(t) \/ Configure(t, "ecc_init", "ring_init")
  \/ RingInit(t) \/ ChipFifoInit(t) \/ ChipSetNormalMode(t)

-----------------------------------------------------------------------------
(* ndo_open.                                                               *)

\* pm_runtime_get_sync()
OpenPm ==
  /\ Step("rtnl", "down", "candev")
  /\ pm' = TRUE
  /\ UNCHANGED <<cont, canState, rings, xcvr, offload, irqReg, queue, carrier,
                 restart, irqLocals, chip, errors, spiFails>>

\* open_candev() switches the carrier on, or rejects the bit timing.
OpenCandev ==
  /\ pc["rtnl"] = "candev"
  /\ \/ Goto("rtnl", "ring_alloc") /\ carrier' = TRUE /\ UNCHANGED cont
     \/ Call("rtnl", "chip_stop", "undo_pm") /\ UNCHANGED carrier
  /\ UNCHANGED <<canState, resources, queue, restart, irqLocals, chip, errors,
                 spiFails>>

\* ring_alloc() may find no memory.
OpenRingAlloc ==
  /\ \/ Step("rtnl", "ring_alloc", "xcvr") /\ rings' = TRUE
     \/ Step("rtnl", "ring_alloc", "undo_candev") /\ UNCHANGED rings
  /\ UNCHANGED <<cont, canState, pm, xcvr, offload, irqReg, queue, carrier,
                 restart, irqLocals, chip, errors, spiFails>>

\* transceiver_enable(), then chip_start()
OpenTransceiver ==
  /\ pc["rtnl"] = "xcvr"
  /\ \/ Call("rtnl", "softreset", "offload") /\ xcvr' = TRUE
     \/ Goto("rtnl", "undo_ring") /\ UNCHANGED <<cont, xcvr>>
  /\ UNCHANGED <<canState, pm, rings, offload, irqReg, queue, carrier, restart,
                 irqLocals, chip, errors, spiFails>>

OpenOffload ==
  /\ Step("rtnl", "offload", "request_irq")
  /\ offload' = TRUE
  /\ UNCHANGED <<cont, canState, pm, rings, xcvr, irqReg, queue, carrier,
                 restart, irqLocals, chip, errors, spiFails>>

OpenRequestIrq ==
  /\ \/ Step("rtnl", "request_irq", "ints") /\ irqReg' = TRUE
     \/ Step("rtnl", "request_irq", "undo_offload") /\ UNCHANGED irqReg
  /\ UNCHANGED <<cont, canState, pm, rings, xcvr, offload, queue, carrier,
                 restart, irqLocals, chip, errors, spiFails>>

OpenInts ==
  /\ pc["rtnl"] = "ints"
  /\ IntsEnable("rtnl", "start_queue", "undo_irq", "none")
  /\ UNCHANGED <<canState, resources, queue, carrier, restart, irqLocals,
                 errors>>

OpenQueue ==
  /\ Step("rtnl", "start_queue", "up")
  /\ queue' = TRUE
  /\ UNCHANGED <<cont, canState, resources, carrier, restart, irqLocals, chip,
                 errors, spiFails>>

Open ==
  \/ OpenPm \/ OpenCandev \/ OpenRingAlloc \/ OpenTransceiver \/ OpenOffload
  \/ OpenRequestIrq \/ OpenInts \/ OpenQueue

-----------------------------------------------------------------------------
(* ndo_stop, and the steps that undo a failed ndo_open.                    *)

StopQueue ==
  /\ Step("rtnl", "up", "stop_mask")
  /\ queue' = FALSE
  /\ UNCHANGED <<cont, canState, resources, carrier, restart, irqLocals, chip,
                 errors, spiFails>>

StopMask ==
  /\ Step("rtnl", "stop_mask", "stop_irq")
  /\ IntsDisable
  /\ UNCHANGED <<cont, canState, resources, queue, carrier, restart,
                 irqLocals, errors>>

\* Mutant: nobody waits for the handler.
FreeIrqNoWait ==
  /\ \/ Step("rtnl", "undo_irq", "undo_offload")
     \/ Step("rtnl", "stop_irq", "stop_offload")
  /\ irqReg' = FALSE
  /\ UNCHANGED <<cont, canState, pm, rings, xcvr, offload, queue, carrier,
                 restart, irqLocals, chip, errors, spiFails>>

\* free_irq() waits for the handler.
FreeIrq ==
  /\ \/ Step("rtnl", "undo_irq", "undo_offload")
     \/ Step("rtnl", "stop_irq", "stop_offload")
  /\ pc["irq"] = "idle"
  /\ irqReg' = FALSE
  /\ UNCHANGED <<cont, canState, pm, rings, xcvr, offload, queue, carrier,
                 restart, irqLocals, chip, errors, spiFails>>

\* Mutant: ndo_stop leaves the controller running.
StopKeepsRunning ==
  /\ \/ Step("rtnl", "undo_offload", "undo_xcvr")
     \/ Step("rtnl", "stop_offload", "stop_xcvr")
  /\ offload' = FALSE
  /\ UNCHANGED <<cont, canState, pm, rings, xcvr, irqReg, queue, carrier,
                 restart, irqLocals, chip, errors, spiFails>>

\* ndo_stop goes on with chip_stop().
OffloadDisable ==
  /\ \/ Step("rtnl", "undo_offload", "undo_xcvr") /\ UNCHANGED cont
     \/ pc["rtnl"] = "stop_offload" /\ Call("rtnl", "chip_stop", "stop_xcvr")
  /\ offload' = FALSE
  /\ UNCHANGED <<canState, pm, rings, xcvr, irqReg, queue, carrier, restart,
                 irqLocals, chip, errors, spiFails>>

\* Mutant: the error path of ndo_open enters one label too late.
TransceiverSkipped ==
  /\ \/ Step("rtnl", "undo_xcvr", "undo_ring") /\ UNCHANGED xcvr
     \/ Step("rtnl", "stop_xcvr", "stop_ring") /\ xcvr' = FALSE
  /\ UNCHANGED <<cont, canState, pm, rings, offload, irqReg, queue, carrier,
                 restart, irqLocals, chip, errors, spiFails>>

TransceiverDisable ==
  /\ \/ Step("rtnl", "undo_xcvr", "undo_ring")
     \/ Step("rtnl", "stop_xcvr", "stop_ring")
  /\ xcvr' = FALSE
  /\ UNCHANGED <<cont, canState, pm, rings, offload, irqReg, queue, carrier,
                 restart, irqLocals, chip, errors, spiFails>>

RingFree ==
  /\ \/ Step("rtnl", "undo_ring", "undo_candev")
     \/ Step("rtnl", "stop_ring", "stop_candev")
  /\ rings' = FALSE
  /\ UNCHANGED <<cont, canState, pm, xcvr, offload, irqReg, queue, carrier,
                 restart, irqLocals, chip, errors, spiFails>>

\* Mutant: the restart work is neither cancelled nor waited for.
CloseNoCancel ==
  /\ \/ pc["rtnl"] = "undo_candev" /\ Call("rtnl", "chip_stop", "undo_pm")
     \/ Step("rtnl", "stop_candev", "undo_pm") /\ UNCHANGED cont
  /\ UNCHANGED <<canState, resources, queue, carrier, restart, irqLocals, chip,
                 errors, spiFails>>

\* close_candev() cancels the restart work, or waits until it has run.  The
\* error path of ndo_open goes on with chip_stop().
CloseCandev ==
  /\ pc["work"] = "idle"
  /\ \/ pc["rtnl"] = "undo_candev" /\ Call("rtnl", "chip_stop", "undo_pm")
     \/ Step("rtnl", "stop_candev", "undo_pm") /\ UNCHANGED cont
  /\ restart' = FALSE
  /\ UNCHANGED <<canState, resources, queue, carrier, irqLocals, chip, errors,
                 spiFails>>

\* pm_runtime_put()
PmPut ==
  /\ Step("rtnl", "undo_pm", "down")
  /\ pm' = FALSE
  /\ UNCHANGED <<cont, canState, rings, xcvr, offload, irqReg, queue, carrier,
                 restart, irqLocals, chip, errors, spiFails>>

Stop ==
  \/ StopQueue \/ StopMask \/ FreeIrq \/ OffloadDisable \/ TransceiverDisable
  \/ RingFree \/ CloseCandev \/ PmPut

-----------------------------------------------------------------------------
(* can_restart() of can-dev and set_mode(CAN_MODE_START).                  *)

\* The delay of the restart work is over.
WorkStarts ==
  /\ restart
  /\ pc["work"] = "idle"
  /\ Call("work", "softreset", "rs_ints")
  /\ restart' = FALSE
  /\ UNCHANGED <<canState, resources, queue, carrier, irqLocals, chip, errors,
                 spiFails>>

\* A restart requested by netlink, refused unless the state is bus-off.  The
\* carrier is off: can-dev takes a restart with carrier for a bug.
RestartNow ==
  /\ ~AutoRestart
  /\ canState = BusOff /\ ~carrier
  /\ pc["rtnl"] = "up"
  /\ Call("rtnl", "softreset", "rs_ints")
  /\ UNCHANGED <<canState, resources, queue, carrier, restart, irqLocals, chip,
                 errors, spiFails>>

RestartInts(t) ==
  /\ pc[t] = "rs_ints"
  /\ IntsEnable(t, "rs_wake", "chip_stop", "rs_done")
  /\ UNCHANGED <<canState, resources, queue, carrier, restart, irqLocals,
                 errors>>

RestartWake(t) ==
  /\ Step(t, "rs_wake", "rs_done")
  /\ queue' = TRUE
  /\ UNCHANGED <<cont, canState, resources, carrier, restart, irqLocals, chip,
                 errors, spiFails>>

\* can-dev switches the carrier on, restarted or not.
RestartDone(t) ==
  /\ Step(t, "rs_done", IF t = "work" THEN "idle" ELSE "up")
  /\ carrier' = TRUE
  /\ UNCHANGED <<cont, canState, resources, queue, restart, irqLocals, chip,
                 errors, spiFails>>

Restart(t) == RestartInts(t) \/ RestartWake(t) \/ RestartDone(t)

-----------------------------------------------------------------------------
(* The interrupt handler.                                                  *)

\* A read of a controller in Sleep Mode returns bogus data or fails.
Asleep == chip.mode = "sleep"

IrqFires ==
  /\ irqReg /\ chip.ie /\ (chip.cerrif \/ chip.event)
  /\ Step("irq", "idle", "read_int")
  /\ UNCHANGED <<cont, canState, resources, queue, carrier, restart,
                 irqLocals, chip, errors, spiFails>>

\* priv->regs_status is read; the handler returns when nothing is pending.
IrqReadInt ==
  /\ pc["irq"] = "read_int"
  /\ \/ /\ SpiWorks
        /\ cerr' \in (IF Asleep THEN BOOLEAN ELSE {chip.cerrif})
        /\ event' \in (IF Asleep THEN BOOLEAN ELSE {chip.event})
        /\ Goto("irq", IF chip.ie /\ (cerr' \/ event') THEN "ack" ELSE "idle")
     \/ SpiFails /\ Goto("irq", "fail") /\ UNCHANGED <<cerr, event>>
  /\ UNCHANGED <<cont, canState, resources, queue, carrier, restart, newState,
                 skb, chip, errors>>

\* First acknowledge CERRIF ...
IrqAck ==
  /\ pc["irq"] = "ack"
  /\ LET acked == [chip EXCEPT !.cerrif = chip.cerrif /\ ~cerr]
     IN  \/ SpiWorks /\ Goto("irq", "handlers") /\ chip' = acked
         \/ cerr /\ SpiFails /\ Goto("irq", "fail") /\ chip' \in {chip, acked}
  /\ UNCHANGED <<cont, canState, resources, queue, carrier, restart,
                 irqLocals, errors>>

\* ... then handle the other interrupts, among them a controller that left the
\* normal mode and is asked to return to it ...
IrqHandlers ==
  /\ pc["irq"] = "handlers"
  /\ \/ /\ SpiWorks
        /\ \E m \in {chip.mode, "normal"} :
             /\ event \/ m = chip.mode
             /\ chip' = [chip EXCEPT !.event = chip.event /\ ~event, !.mode = m]
        /\ Goto("irq", IF cerr \/ canState > Active THEN "trec" ELSE "read_int")
     \/ event /\ SpiFails /\ Goto("irq", "fail") /\ UNCHANGED chip
  /\ UNCHANGED <<cont, canState, resources, queue, carrier, restart,
                 irqLocals, errors>>

\* Mutant: the two states are added up.
SumOfStates == chip.tx + chip.rx

\* max(tx_state, rx_state) from TREC
WorseState == IF chip.tx > chip.rx THEN chip.tx ELSE chip.rx

\* ... and CERRIF in handle_cerrif(), also called without it because the
\* controller does not report that the TX errors are below the warning level.
IrqReadTrec ==
  /\ pc["irq"] = "trec"
  /\ \/ /\ SpiWorks
        /\ newState' \in IF Asleep THEN Active .. BusOff ELSE {WorseState}
        /\ chip' = [chip EXCEPT !.missed = @ /\ Asleep]
        /\ Goto("irq", IF newState' = canState THEN "check" ELSE "change")
     \/ SpiFails /\ Goto("irq", "fail") /\ UNCHANGED <<newState, chip>>
  /\ UNCHANGED <<cont, canState, resources, queue, carrier, restart, cerr,
                 event, skb, errors>>

AfterChange(withSkb) ==
  IF newState = BusOff THEN "save_berr"
                       ELSE IF withSkb THEN "berr" ELSE "check"

\* Mutant: CERRIF is acknowledged after the error state was read.
AckLate ==
  /\ pc["irq"] = "change"
  /\ skb' \in BOOLEAN
  /\ canState' = newState
  /\ Goto("irq", AfterChange(skb'))
  /\ chip' = [chip EXCEPT !.cerrif = FALSE]
  /\ UNCHANGED <<cont, resources, queue, carrier, restart, cerr, event,
                 newState, errors, spiFails>>

\* can_change_state(), with or without an error frame.
IrqChangeState ==
  /\ pc["irq"] = "change"
  /\ skb' \in BOOLEAN
  /\ canState' = newState
  /\ Goto("irq", AfterChange(skb'))
  /\ UNCHANGED <<cont, resources, queue, carrier, restart, cerr, event,
                 newState, chip, errors, spiFails>>

\* Bus-off: the error counters are saved, then chip_stop() ...
IrqSaveBerr ==
  /\ pc["irq"] = "save_berr"
  /\ \/ SpiWorks /\ Call("irq", "chip_stop", "bus_off")
     \/ ~NoBerr /\ SpiFails /\ Call("irq", "fail", "none")
  /\ UNCHANGED <<canState, resources, queue, carrier, restart, irqLocals, chip,
                 errors>>

\* Mutant: can-dev is not told about bus-off.
BusOffUnreported ==
  /\ Step("irq", "bus_off", "check")
  /\ UNCHANGED <<cont, canState, resources, queue, carrier, restart, irqLocals,
                 chip, errors, spiFails>>

\* ... and can_bus_off(), which may schedule the restart work.
IrqBusOff ==
  /\ Step("irq", "bus_off", "check")
  /\ carrier' = FALSE
  /\ restart' = AutoRestart
  /\ UNCHANGED <<cont, canState, resources, queue, irqLocals, chip, errors,
                 spiFails>>

\* Other states: the error counters are read for the error frame.
IrqBerr ==
  /\ pc["irq"] = "berr"
  /\ \/ SpiWorks /\ Goto("irq", "check")
     \/ ~NoBerr /\ SpiFails /\ Goto("irq", "fail")
  /\ UNCHANGED <<cont, canState, resources, queue, carrier, restart,
                 irqLocals, chip, errors>>

\* In bus-off the handler returns, otherwise it reads the flags again.
IrqCheckState ==
  /\ Step("irq", "check", IF canState = BusOff THEN "idle" ELSE "read_int")
  /\ UNCHANGED <<cont, canState, resources, queue, carrier, restart,
                 irqLocals, chip, errors, spiFails>>

\* out_fail
IrqFail ==
  /\ Step("irq", "fail", "idle")
  /\ IntsDisable
  /\ UNCHANGED <<cont, canState, resources, queue, carrier, restart,
                 irqLocals, errors>>

Irq ==
  \/ IrqFires \/ IrqReadInt \/ IrqAck \/ IrqHandlers \/ IrqReadTrec
  \/ IrqChangeState \/ IrqSaveBerr \/ IrqBusOff \/ IrqBerr \/ IrqCheckState
  \/ IrqFail

-----------------------------------------------------------------------------
(* The controller.                                                         *)

\* The error state for transmission or reception moves to its neighbour, or
\* from bus-off back to active.  CERRIF is not set when the TX errors fall
\* below the warning level.  Until ndo_open starts the queue there is nothing
\* to transmit, only the errors of reception can rise.
NothingSent ==
  pc["rtnl"] \in {"offload", "request_irq", "ints", "start_queue"}
ChipErrorState ==
  /\ chip.mode = "normal"
  /\ errors < MaxErrors
  /\ errors' = errors + 1
  /\ \/ \E l \in Active .. BusOff :
          /\ l \in {chip.tx - 1, chip.tx + 1} \/ (chip.tx = BusOff /\ l = Active)
          /\ chip.tx = BusOff => l = Active
          /\ NothingSent => l < chip.tx
          /\ chip' = [chip EXCEPT !.tx = l,
                        !.cerrif = @ \/ ~(chip.tx = Warning /\ l = Active)]
     \/ \E l \in {chip.rx - 1, chip.rx + 1} \cap Active .. Passive :
          chip' = [chip EXCEPT !.rx = l, !.cerrif = TRUE]
  /\ UNCHANGED <<pc, cont, canState, resources, queue, carrier, restart,
                 irqLocals, spiFails>>

\* Frames and other events of the bus.
ChipEvent ==
  /\ chip.mode = "normal" /\ ~chip.event
  /\ chip' = [chip EXCEPT !.event = TRUE]
  /\ UNCHANGED <<pc, cont, canState, resources, queue, carrier, restart,
                 irqLocals, errors, spiFails>>

-----------------------------------------------------------------------------
Rtnl == Open \/ Stop \/ RestartNow
Next ==
  \/ Rtnl \/ Irq \/ WorkStarts \/ ChipErrorState \/ ChipEvent
  \/ \E t \in Callers : ChipStart(t) \/ Restart(t)
  \/ \E t \in Threads : ChipStop(t)

Spec == Init /\ [][Next]_vars

\* The kernel schedules the interrupt handler and the restart work; nobody
\* has to close the interface.
FairSpec ==
  /\ Spec
  /\ WF_vars(Irq \/ ChipStop("irq"))
  /\ WF_vars(WorkStarts \/ ChipStart("work") \/ Restart("work")
               \/ ChipStop("work"))

-----------------------------------------------------------------------------
(* Properties.                                                             *)

ChipTypes ==
  [mode : {"config", "normal", "sleep"}, ie : BOOLEAN, cerrif : BOOLEAN,
   event : BOOLEAN, tx : Active .. BusOff, rx : Active .. Passive,
   missed : BOOLEAN]

FlagTypes ==
  /\ pm \in BOOLEAN /\ rings \in BOOLEAN /\ xcvr \in BOOLEAN
  /\ offload \in BOOLEAN /\ irqReg \in BOOLEAN /\ queue \in BOOLEAN
  /\ carrier \in BOOLEAN /\ restart \in BOOLEAN
  /\ cerr \in BOOLEAN /\ event \in BOOLEAN /\ skb \in BOOLEAN

StateTypes ==
  /\ DOMAIN pc = Threads /\ DOMAIN cont = Threads
  /\ canState \in Active .. Stopped /\ newState \in Active .. BusOff
  /\ errors \in 0 .. MaxErrors /\ spiFails \in 0 .. MaxSpiFails

\* Every variable has its type: among others, handle_cerrif() computes only
\* states of enum can_state.
TypeOK == FlagTypes /\ StateTypes /\ chip \in ChipTypes

Quiet == pc["rtnl"] \in {"up", "down"} /\ pc["irq"] = "idle" /\ pc["work"] = "idle"

\* "In Bus Off we completely shut down the controller": when the handler has
\* returned from bus-off the controller sleeps with its interrupts masked, and
\* the restart is scheduled if there is to be one.
BusOffShutDown ==
  Quiet /\ canState = BusOff
    => chip.mode = "sleep" /\ ~chip.ie /\ (restart <=> AutoRestart)

\* The handler has nothing left to do for an interface that is up, and no access
\* has failed.
HandlerDone ==
  /\ pc["rtnl"] = "up" /\ pc["irq"] = "idle" /\ spiFails = 0
  /\ chip.mode = "normal" /\ chip.ie /\ ~chip.cerrif

\* The state shown is the worse of the TX and RX error states, except that the
\* controller does not tell when the TX errors fall below the warning level.
ShowsChip ==
  \/ canState = chip.tx /\ chip.rx <= chip.tx
  \/ canState = chip.rx /\ chip.tx <= chip.rx
  \/ canState = Warning /\ chip.tx = Active /\ chip.rx = Active

\* The state of an interface that is up follows the controller, as long as no
\* access fails.  Only a change whose CERRIF the driver cleared itself, when it
\* enabled the interrupts, goes unseen: it then shows error active.
StateTracksChip ==
  HandlerDone => IF chip.missed THEN canState = Active ELSE ShowsChip

\* An interface that is down holds nothing, however ndo_open failed.
DownHoldsNothing ==
  pc["rtnl"] = "down" => ~pm /\ ~rings /\ ~xcvr /\ ~offload /\ ~irqReg /\ ~restart

\* "Avoid waking up the controller if the interface is down": it sleeps, with
\* its interrupts masked, if every access that should do so arrived.
AsleepWhenDown ==
  pc["rtnl"] = "down" /\ spiFails = 0 => chip.mode # "normal" /\ ~chip.ie /\ ~queue

\* Every access to the controller, whichever thread makes it, happens while
\* the interface holds its runtime PM reference.
Accesses ==
  {"softreset", "clock_init", "rx_int", "ecc_init", "fifo_init", "normal",
   "stop_ints", "stop_sleep", "ints", "stop_mask", "rs_ints", "read_int",
   "ack", "handlers", "trec", "save_berr", "berr", "fail"}
PoweredAccess == \A t \in Threads : pc[t] \in Accesses => pm

-----------------------------------------------------------------------------
(* Where ndo_open and ndo_stop are.                                        *)

StartLabels ==
  {"softreset", "clock_init", "rx_int", "ecc_init", "ring_init", "fifo_init",
   "normal"}
StopLabels == {"chip_stop", "stop_ints", "stop_sleep"}

\* Where ndo_open, ndo_stop or a restart by hand is, a procedure it called
\* counted as the place that follows it.
Place ==
  IF pc["rtnl"] \in StartLabels \cup StopLabels THEN cont["rtnl"]
                                                ELSE pc["rtnl"]

\* The places at which the steps of ndo_open have been taken and not undone.
IrqHeld ==
  {"ints", "start_queue", "up", "rs_ints", "rs_wake", "rs_done", "undo_irq",
   "stop_mask", "stop_irq"}
OffloadHeld == IrqHeld \cup {"request_irq", "undo_offload", "stop_offload"}
XcvrHeld == OffloadHeld \cup {"offload", "undo_xcvr", "stop_xcvr"}
RingsHeld == XcvrHeld \cup {"xcvr", "undo_ring", "stop_ring"}
CandevHeld == RingsHeld \cup {"ring_alloc", "undo_candev", "stop_candev"}
PmHeld == CandevHeld \cup {"candev", "undo_pm"}

\* ring_init() never walks rings that were freed, except that the restart work
\* may meet them after ring_free(), before close_candev() has waited for it.
RingsPresent ==
  /\ pc["rtnl"] # "oops"
  /\ pc["work"] = "oops" => Place \in {"undo_candev", "stop_candev"}

-----------------------------------------------------------------------------
(* The inductive invariants of the proofs.                                 *)

\* Every thread is at one of its labels, and returns to one from a procedure.
IrqLabels ==
  {"idle", "read_int", "ack", "handlers", "trec", "change", "save_berr",
   "bus_off", "berr", "check", "fail"}
LabelInv ==
  /\ DOMAIN pc = Threads /\ DOMAIN cont = Threads
  /\ pc["rtnl"] \in StartLabels => cont["rtnl"] \in {"offload", "rs_ints"}
  /\ pc["rtnl"] \in StopLabels =>
       cont["rtnl"] \in {"undo_xcvr", "rs_done", "undo_pm", "stop_xcvr"}
  /\ Place \in PmHeld \cup {"down"}
  /\ pc["irq"] \in IrqLabels \cup StopLabels
  /\ pc["irq"] \in StopLabels => cont["irq"] = "bus_off"
  /\ pc["work"] \in StartLabels \cup StopLabels
                      \cup {"idle", "rs_ints", "rs_wake", "rs_done", "oops"}
  /\ pc["work"] \in StartLabels => cont["work"] = "rs_ints"
  /\ pc["work"] \in StopLabels => cont["work"] = "rs_done"

\* What the interface holds is what ndo_open acquired and nobody released, and
\* the other threads run only while it holds what they use.
LifeInv ==
  /\ LabelInv
  /\ pm <=> Place \in PmHeld
  /\ rings <=> Place \in RingsHeld
  /\ xcvr <=> Place \in XcvrHeld
  /\ offload <=> Place \in OffloadHeld
  /\ irqReg <=> Place \in IrqHeld
  /\ pc["irq"] # "idle" => irqReg
  /\ restart \/ pc["work"] # "idle" =>
       Place \in CandevHeld \ {"ring_alloc", "xcvr", "offload", "request_irq"}
  /\ pc["work"] = "oops" => Place \in {"undo_candev", "stop_candev"}
  /\ ~AutoRestart => ~restart /\ pc["work"] = "idle"
  /\ Place \in {"rs_ints", "rs_wake", "rs_done"} => ~AutoRestart

\* The handler has seen an interrupt of an enabled controller, and the part of
\* that which handles bus-off.
Handling ==
  {"ack", "handlers", "trec", "change", "save_berr", "bus_off", "berr"}
    \cup StopLabels
StoppingForBusOff == {"save_berr", "bus_off"} \cup StopLabels

\* A restart is between its first step and the enabling of the interrupts.
Restarting ==
  \/ Place = "rs_ints" \/ pc["work"] \in StartLabels \cup {"rs_ints"}
\* The request for sleep mode does nothing with dv_noslp.
ShutDown == (NoSleep \/ chip.mode = "sleep") /\ ~chip.ie

\* ndo_open has not enabled the interrupts of the controller yet, and has
\* reset it.
Opening == Place \in {"ring_alloc", "xcvr", "offload", "request_irq", "ints"}
OpenMasked ==
  \/ Place \in {"request_irq", "ints"}
  \/ Place = "offload" /\ pc["rtnl"] # "softreset"

\* As long as no access fails: nobody starts the controller while the handler
\* works, and in bus-off the handler is shutting it down, or it is shut down
\* until the next start.
BusOffInv ==
  /\ Opening =>
       /\ carrier /\ ~restart /\ canState # BusOff
       /\ pc["work"] = "idle" /\ pc["irq"] = "idle"
  /\ OpenMasked => ~chip.ie
  /\ Restarting \/ restart => ~chip.ie /\ pc["irq"] \notin Handling
  /\ pc["work"] \in StartLabels \cup {"rs_ints"} => ~restart
  /\ ~AutoRestart /\ ~carrier =>
       \/ Place \in {"rs_wake", "rs_done", "undo_pm", "down", "candev"}
       \/ ~chip.ie /\ pc["irq"] \notin Handling
  /\ pc["irq"] = "stop_sleep" => ~chip.ie
  /\ pc["irq"] = "bus_off" => ShutDown
  /\ pc["irq"] \in StoppingForBusOff => canState = BusOff
  /\ \A t \in Callers : pc[t] \in {"normal", "rs_ints"} => canState # BusOff
  /\ canState = BusOff =>
       /\ Place \in IrqHeld \cup {"stop_offload"} \/ pc["rtnl"] = "chip_stop"
       /\ pc["irq"] \in StoppingForBusOff \cup {"check", "idle"}
       /\ \/ pc["irq"] \in StoppingForBusOff
          \/ Restarting
          \/ ShutDown /\ (restart <=> AutoRestart)
  \* what only a failing access leads to
  /\ pc["irq"] # "fail" /\ Place # "undo_irq"
  /\ pc["rtnl"] \in StopLabels => Place # "rs_done"
  /\ pc["work"] \notin StopLabels

\* A controller that was reset is left alone by the bus until it is in its
\* normal mode, in which the handler finds it whenever INT told it to look.
Configuring(t) ==
  pc[t] \in {"clock_init", "rx_int", "ecc_init", "ring_init", "fifo_init"}
ModeInv ==
  /\ \A t \in Callers : Configuring(t) =>
       chip.mode # "normal" /\ chip.tx = Active /\ chip.rx = Active
  /\ pc["rtnl"] \in {"offload", "request_irq", "ints", "rs_ints"}
       => chip.mode = "normal"
  /\ Place \in IrqHeld /\ pc["work"] = "rs_ints" => chip.mode = "normal"
  /\ Place \in IrqHeld /\ chip.ie => chip.mode = "normal"
  /\ pc["irq"] \in Handling \ (StopLabels \cup {"bus_off"})
       => chip.mode # "sleep"

\* State s is the one of the controller, or CERRIF says that it may not be, or
\* would say so if the driver had not cleared it.
Follows(s) ==
  \/ chip.cerrif \/ chip.missed
  \/ s = chip.tx /\ chip.rx <= chip.tx
  \/ s = chip.rx /\ chip.tx <= chip.rx
  \/ s = Warning /\ chip.tx = Active /\ chip.rx = Active

\* From the end of chip_fifo_init on the state shown follows the controller,
\* or the handler has the news: CERRIF in cerr, then the new state.
Started ==
  Place \in IrqHeld \/ pc["rtnl"] \in {"normal", "offload", "request_irq"}
TrackInv ==
  Started /\ (\A t \in Callers : ~Configuring(t) /\ pc[t] # "softreset") =>
    CASE pc["irq"] = "handlers" -> cerr \/ Follows(canState)
      [] pc["irq"] = "trec" -> TRUE
      [] pc["irq"] = "change" -> Follows(newState)
      [] OTHER -> Follows(canState)

\* The interrupts are enabled in the state error active, and it stays while the
\* controller is not read.
UnseenInv ==
  /\ pc["rtnl"] \in {"normal", "offload", "request_irq", "ints", "rs_ints"}
       => canState = Active
  /\ Place \in IrqHeld /\ pc["work"] \in {"normal", "rs_ints"}
       => canState = Active
  /\ Place \in IrqHeld /\ chip.ie /\ chip.missed
       => canState = Active /\ pc["irq"] \notin {"change", "save_berr", "chip_stop"}

\* With restarts only by hand, what ndo_stop and the undoing of ndo_open
\* switched off stays off.
AsleepInv ==
  /\ queue => Place \in {"up", "rs_ints", "rs_wake", "rs_done"}
  /\ chip.ie => Place \in IrqHeld \ {"stop_irq", "undo_irq"}
                   \/ pc["rtnl"] = "softreset"
  /\ pc["rtnl"] \in {"down", "candev", "undo_pm", "stop_xcvr", "stop_ring",
                     "stop_candev"} => chip.mode # "normal"

\* What holds as long as no access has failed.
WorkingInv ==
  spiFails = 0 =>
    /\ BusOffInv /\ ModeInv /\ TrackInv /\ UnseenInv
    /\ ~AutoRestart /\ ~NoSleep => AsleepInv

InductiveInv == LifeInv /\ WorkingInv

\* Bus-off ends: the restart work, or ndo_stop, leaves the state.
BusOffEnds == canState = BusOff ~> canState # BusOff
=============================================================================
