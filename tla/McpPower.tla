------------------------------ MODULE McpPower ------------------------------
(***************************************************************************)
(* The power of the controller: probe and remove of the driver (thread     *)
(* drv), ndo_open and ndo_stop (thread user, which holds the RTNL lock),   *)
(* and the runtime PM worker.  The oscillator clock and the vdd regulator  *)
(* are switched by mcp251xfd_register and unregister and by the runtime PM *)
(* callbacks.  Every switch, every SPI access and every registration may   *)
(* fail, any number of times.                                              *)
(*                                                                         *)
(* The runtime PM core, the clock and regulator frameworks and the driver  *)
(* core are external, modelled from the calls made here.                   *)
(***************************************************************************)
EXTENDS Integers

CONSTANTS
  MaxBinds            \* bound: probes of the device

ASSUME PowerAssumption == MaxBinds \in Nat \ {0}

VARIABLES
  board,              \* what the board and the kernel have; never changes
  drv, user,          \* where each thread is
  clk, vdd,           \* how often this device enabled its clock, its supply
  underflow,          \* one of the two was disabled more often than enabled
  pm,                 \* runtime PM of the SPI device
  chip,               \* mode of the controller, "off" without its supply
  speed,              \* spi->max_speed_hz
  visible, up,        \* the interface is registered, is IFF_UP
  early,              \* ndo_open began before mcp251xfd_register was done
  failed,             \* what has failed so far
  binds

power == <<clk, vdd, underflow>>
netdev == <<visible, up, early>>
vars == <<board, drv, user, power, pm, chip, speed, netdev, failed, binds>>

\* Which calls may fail.
Kinds == {"setup", "enable", "active", "spi", "resume", "disable", "open"}
Fails(k) == failed' = failed \cup {k}
Works == UNCHANGED failed

\* The SPI device before a probe.
UnboundPm == [usage |-> 0, depth |-> 1, status |-> "suspended", err |-> FALSE,
              idle |-> FALSE]

Init ==
  \* vdd: a supply in the device tree; rpm: CONFIG_PM; noslp: dv_noslp
  /\ board \in [vdd : BOOLEAN, rpm : BOOLEAN, noslp : BOOLEAN]
  /\ drv = "unbound" /\ user = "idle"
  /\ clk = 0 /\ vdd = 0 /\ underflow = FALSE
  /\ chip = (IF board.vdd THEN "off" ELSE "config")
  /\ pm = UnboundPm /\ speed = "orig"
  /\ visible = FALSE /\ up = FALSE /\ early = FALSE
  /\ failed = {} /\ binds = 0

-----------------------------------------------------------------------------
(* mcp251xfd_clks_and_vdd_enable and _disable.                             *)

\* A controller that gets its supply starts in Configuration Mode.
PowerOn ==
  /\ clk' = clk + 1 /\ UNCHANGED underflow
  /\ IF board.vdd THEN vdd' = vdd + 1 /\ chip' = "config"
                  ELSE UNCHANGED <<vdd, chip>>

\* A failing clock changes nothing, a failing supply gives the clock back.
PowerOnFails(k) == Fails(k) /\ UNCHANGED <<power, chip>>

\* The frameworks warn of one disable too many and change nothing.  A supply
\* that cannot be disabled, for this reason or another, leaves the clock on.
PowerOff(ok) ==
  LET tooMany == IF board.vdd THEN vdd = 0 ELSE clk = 0 IN
  \/ /\ tooMany /\ ok = ~board.vdd
     /\ underflow' = TRUE /\ UNCHANGED <<clk, vdd, chip>> /\ Works
  \/ /\ ~tooMany /\ ok /\ Works /\ UNCHANGED underflow
     /\ clk' = clk - 1
     /\ IF board.vdd
          THEN vdd' = vdd - 1 /\ chip' = IF vdd = 1 THEN "off" ELSE chip
          ELSE UNCHANGED <<vdd, chip>>
  \/ /\ ~tooMany /\ ~ok /\ board.vdd
     /\ Fails("disable") /\ UNCHANGED <<power, chip>>

\* chip_set_mode(SLEEP), which dv_noslp turns into nothing.  A write that
\* fails may have reached the controller.
SleepMode(ok) ==
  \/ board.noslp /\ ok /\ UNCHANGED chip /\ Works
  \/ ~board.noslp /\ ok /\ chip' = "sleep" /\ Works
  \/ ~board.noslp /\ ~ok /\ chip' \in {chip, "sleep"} /\ Fails("spi")

-----------------------------------------------------------------------------
(* The runtime PM core.  Without CONFIG_PM every call is a stub.           *)

Pm(p) == pm' = IF board.rpm THEN p ELSE pm

Refused(p) == p.err \/ p.depth > 0
CanIdle(p) == ~Refused(p) /\ p.usage = 0 /\ p.status = "active"

\* pm_runtime_put() asks the worker for an idle check.
Put(p) == LET q == [p EXCEPT !.usage = @ - 1] IN
          [q EXCEPT !.idle = @ \/ CanIdle(q)]
PutNoidle(p) == [p EXCEPT !.usage = IF @ = 0 THEN 0 ELSE @ - 1]

\* pm_runtime_disable() waits for a running suspend and drops a request.
Disable == /\ pm.status # "suspending"
           /\ Pm([pm EXCEPT !.depth = @ + 1, !.idle = FALSE])

\* pm_runtime_get_sync(): the count is taken even when it fails; it waits
\* while the worker suspends.
GetSync(ok) ==
  LET used == [pm EXCEPT !.usage = @ + 1] IN
  \/ ~board.rpm /\ ok /\ UNCHANGED <<pm, power, chip>> /\ Works
  \/ /\ board.rpm /\ Refused(pm) /\ ~ok
     /\ pm' = used /\ UNCHANGED <<power, chip>> /\ Works
  \/ /\ board.rpm /\ ~Refused(pm) /\ pm.status = "active" /\ ok
     /\ pm' = [used EXCEPT !.idle = FALSE]
     /\ UNCHANGED <<power, chip>> /\ Works
  \/ /\ board.rpm /\ ~Refused(pm) /\ pm.status = "suspended" /\ ok
     /\ pm' = [used EXCEPT !.status = "active", !.idle = FALSE]
     /\ PowerOn /\ Works
  \/ /\ board.rpm /\ ~Refused(pm) /\ pm.status = "suspended" /\ ~ok
     /\ pm' = [used EXCEPT !.err = TRUE, !.idle = FALSE]
     /\ PowerOnFails("resume")

\* The worker takes the idle request ...
WorkerIdle ==
  /\ pm.idle
  /\ pm' = [pm EXCEPT !.idle = FALSE,
                      !.status = IF CanIdle(pm) THEN "suspending" ELSE @]
  /\ UNCHANGED <<board, drv, user, power, chip, speed, netdev, failed, binds>>

\* ... and calls mcp251xfd_runtime_suspend().  An error sticks.
WorkerSuspend ==
  /\ pm.status = "suspending"
  /\ \E ok \in BOOLEAN :
       /\ PowerOff(ok)
       /\ pm' = [pm EXCEPT !.status = IF ok THEN "suspended" ELSE "active",
                           !.err = ~ok]
  /\ UNCHANGED <<board, drv, user, speed, netdev, binds>>

Worker == WorkerIdle \/ WorkerSuspend

-----------------------------------------------------------------------------
(* mcp251xfd_probe and mcp251xfd_register.                                 *)

Drv(from, to) == drv = from /\ drv' = to

\* The resources of the device, then SPI at the reduced speed.
Probe ==
  /\ binds < MaxBinds /\ binds' = binds + 1
  /\ \/ Drv("unbound", "unbound") /\ UNCHANGED speed /\ Fails("setup")
     \/ Drv("unbound", "setup") /\ speed' = "reduced" /\ Works
  /\ UNCHANGED <<board, user, power, pm, chip, netdev>>

\* spi_setup, regmap_init, can_rx_offload_add_fifo
ProbeSetup ==
  /\ \/ Drv("setup", "enable") /\ Works
     \/ Drv("setup", "free") /\ Fails("setup")
  /\ UNCHANGED <<board, user, power, pm, chip, speed, netdev, binds>>

RegisterEnable ==
  /\ \/ Drv("enable", "active") /\ PowerOn /\ Works
     \/ Drv("enable", "free") /\ PowerOnFails("enable")
  /\ UNCHANGED <<board, user, pm, speed, netdev, binds>>

\* pm_runtime_get_noresume, pm_runtime_set_active, pm_runtime_enable
RegisterActive ==
  LET used == [pm EXCEPT !.usage = @ + 1] IN
  /\ \/ /\ Drv("active", "softreset") /\ Works
        /\ Pm([used EXCEPT !.status = "active", !.err = FALSE,
                           !.depth = @ - 1])
     \/ board.rpm /\ Drv("active", "undo_noidle") /\ Pm(used) /\ Fails("active")
  /\ UNCHANGED <<board, user, power, chip, speed, netdev, binds>>

\* -ENODEV, no controller answers, skips the Sleep Mode.
RegisterSoftreset ==
  /\ \/ Drv("softreset", "detect") /\ chip' = "config" /\ Works
     \/ Drv("softreset", "undo_disable") /\ UNCHANGED chip /\ Fails("spi")
     \/ /\ Drv("softreset", "undo_sleep") /\ chip' \in {chip, "config"}
        /\ Fails("spi")
  /\ UNCHANGED <<board, user, power, pm, speed, netdev, binds>>

\* A step of register that leaves power alone.
RegisterStep(from, to, undo) ==
  /\ \/ Drv(from, to) /\ Works
     \/ Drv(from, undo) /\ Fails("spi")
  /\ UNCHANGED <<board, user, power, pm, chip, speed, netdev, binds>>

RegisterChipDetect == RegisterStep("detect", "rx_int", "undo_sleep")

\* The pin RX_INT, if the device tree has it, is switched on, looked at and
\* switched off again; one that is active is given up for good.
RegisterCheckRxInt ==
  \/ RegisterStep("rx_int", "rx_int_off", "undo_sleep")
  \/ Drv("rx_int", "candev") /\ Works
     /\ UNCHANGED <<board, user, power, pm, chip, speed, netdev, binds>>

RegisterRxIntDisable == RegisterStep("rx_int_off", "candev", "undo_sleep")

\* From here on the interface can be opened.  Takes the RTNL lock.
RegisterCandev ==
  /\ user = "idle"
  /\ \/ Drv("candev", "done") /\ visible' = TRUE /\ Works
     \/ Drv("candev", "undo_sleep") /\ UNCHANGED visible /\ Fails("setup")
  /\ UNCHANGED <<board, user, power, pm, chip, speed, up, early, binds>>

\* register_get_dev_id() returns 0 whatever the accesses say: only its first
\* buffer, which cannot be allocated, ends register.
RegisterDone ==
  /\ \/ Drv("done", "sleep") /\ Works
     \/ Drv("done", "undo_unregister") /\ Fails("setup")
  /\ UNCHANGED <<board, user, power, pm, chip, speed, netdev, binds>>

RegisterSleep ==
  /\ \E ok \in BOOLEAN :
       SleepMode(ok) /\ Drv("sleep", IF ok THEN "put" ELSE "undo_unregister")
  /\ UNCHANGED <<board, user, power, pm, speed, netdev, binds>>

\* Mutant: the reference of register is never given back.
RegisterKeeps ==
  /\ Drv("put", "bound")
  /\ UNCHANGED <<board, user, power, pm, chip, speed, netdev, failed, binds>>

RegisterPut ==
  /\ Drv("put", "bound")
  /\ Pm(Put(pm))
  /\ UNCHANGED <<board, user, power, chip, speed, netdev, failed, binds>>

-----------------------------------------------------------------------------
(* The error labels of register and probe.                                 *)

\* unregister_candev() closes an interface that is up, under the RTNL lock.
UnregisterCandev(from, to) ==
  /\ user = "idle" /\ visible' = FALSE /\ up' = FALSE
  /\ drv = from
  /\ IF up THEN user' = "stop" /\ UNCHANGED drv
           ELSE drv' = to /\ UNCHANGED user
  /\ UNCHANGED <<board, power, pm, chip, speed, early, failed, binds>>

UndoSleep ==
  /\ Drv("undo_sleep", "undo_disable")
  /\ \E ok \in BOOLEAN : SleepMode(ok)
  /\ UNCHANGED <<board, user, power, pm, speed, netdev, binds>>

UndoDisable ==
  /\ Drv("undo_disable", "undo_noidle")
  /\ Disable
  /\ UNCHANGED <<board, user, power, chip, speed, netdev, failed, binds>>

UndoNoidle ==
  /\ Drv("undo_noidle", "undo_power")
  /\ Pm(PutNoidle(pm))
  /\ UNCHANGED <<board, user, power, chip, speed, netdev, failed, binds>>

UndoPower ==
  /\ Drv("undo_power", "free")
  /\ \E ok \in BOOLEAN : PowerOff(ok)
  /\ UNCHANGED <<board, user, pm, speed, netdev, binds>>

\* out_free_candev and the end of remove; then the driver core resets the
\* runtime PM status of a device without a driver.
Free ==
  /\ Drv("free", "unbound")
  /\ speed' = "orig"
  /\ Pm([pm EXCEPT !.status = "suspended"])
  /\ UNCHANGED <<board, user, power, chip, netdev, failed, binds>>

Register ==
  \/ ProbeSetup \/ RegisterEnable \/ RegisterActive \/ RegisterSoftreset
  \/ RegisterChipDetect \/ RegisterCheckRxInt \/ RegisterRxIntDisable
  \/ RegisterCandev \/ RegisterDone \/ RegisterSleep \/ RegisterPut
  \/ UnregisterCandev("undo_unregister", "undo_sleep")
  \/ UndoSleep \/ UndoDisable \/ UndoNoidle \/ UndoPower \/ Free

-----------------------------------------------------------------------------
(* mcp251xfd_remove and mcp251xfd_unregister.                              *)

Remove ==
  /\ Drv("bound", "unregister")
  /\ UNCHANGED <<board, user, power, pm, chip, speed, netdev, failed, binds>>

\* Mutant: the device is not resumed before its power is switched off.
UnregisterNoGet ==
  /\ Drv("get", "noidle")
  /\ Pm([pm EXCEPT !.usage = @ + 1])
  /\ UNCHANGED <<board, user, power, chip, speed, netdev, failed, binds>>

\* The result of pm_runtime_get_sync() is not looked at.
UnregisterGet ==
  /\ Drv("get", "noidle")
  /\ \E ok \in BOOLEAN : GetSync(ok)
  /\ UNCHANGED <<board, user, speed, netdev, binds>>

UnregisterNoidle ==
  /\ Drv("noidle", "power")
  /\ Pm(PutNoidle(pm))
  /\ UNCHANGED <<board, user, power, chip, speed, netdev, failed, binds>>

UnregisterPower ==
  /\ Drv("power", "disable")
  /\ \E ok \in BOOLEAN : PowerOff(ok)
  /\ UNCHANGED <<board, user, pm, speed, netdev, binds>>

UnregisterDisable ==
  /\ Drv("disable", "free")
  /\ Disable
  /\ UNCHANGED <<board, user, power, chip, speed, netdev, failed, binds>>

Unregister ==
  \/ UnregisterCandev("unregister", "get") \/ UnregisterGet
  \/ UnregisterNoidle \/ UnregisterPower \/ UnregisterDisable

-----------------------------------------------------------------------------
(* ndo_open and ndo_stop, with all they do to the controller in one step.  *)

User(from, to) == user = from /\ user' = to

\* Mutant: the error of pm_runtime_get_sync() is not looked at.
OpenGetUnchecked ==
  /\ visible /\ ~up /\ User("idle", "start")
  /\ early' = (drv \in {"done", "sleep"})
  /\ \E ok \in BOOLEAN : GetSync(ok)
  /\ UNCHANGED <<board, drv, speed, visible, up, binds>>

OpenGet ==
  /\ visible /\ ~up
  /\ early' = (drv \in {"done", "sleep"})
  /\ \E ok \in BOOLEAN :
       GetSync(ok) /\ User("idle", IF ok THEN "start" ELSE "put_noidle")
  /\ UNCHANGED <<board, drv, speed, visible, up, binds>>

\* Mutant: the count of a failed pm_runtime_get_sync() is kept.
OpenKeepsCount ==
  /\ User("put_noidle", "idle")
  /\ UNCHANGED <<board, drv, power, pm, chip, speed, netdev, failed, binds>>

OpenPutNoidle ==
  /\ User("put_noidle", "idle")
  /\ Pm(PutNoidle(pm))
  /\ UNCHANGED <<board, drv, power, chip, speed, netdev, failed, binds>>

\* open_candev to chip_start: with an error the mode is whatever was reached.
OpenStart ==
  /\ \/ User("start", "ints") /\ chip' = "normal" /\ Works
     \/ /\ User("start", "stop") /\ Fails("open")
        /\ chip' \in {chip, "config", "normal", "sleep"}
  /\ UNCHANGED <<board, drv, power, pm, speed, netdev, binds>>

\* Mutant: ndo_open gives its reference back when it is done.
OpenIntsPuts ==
  /\ \/ User("ints", "idle") /\ up' = TRUE /\ Pm(Put(pm)) /\ Works
     \/ User("ints", "stop") /\ UNCHANGED <<up, pm>> /\ Fails("open")
  /\ UNCHANGED <<board, drv, power, chip, speed, visible, early, binds>>

\* request_threaded_irq, chip_interrupts_enable
OpenInts ==
  /\ \/ User("ints", "idle") /\ up' = TRUE /\ Works
     \/ User("ints", "stop") /\ UNCHANGED up /\ Fails("open")
  /\ UNCHANGED <<board, drv, power, pm, chip, speed, visible, early, binds>>

\* ndo_stop
Stop ==
  /\ up /\ User("idle", "stop")
  /\ up' = FALSE
  /\ UNCHANGED <<board, drv, power, pm, chip, speed, visible, early, failed,
                 binds>>

\* chip_stop(), whose errors are ignored, for ndo_stop and a failed ndo_open.
StopChip ==
  /\ User("stop", "put")
  /\ \E ok \in BOOLEAN : SleepMode(ok)
  /\ UNCHANGED <<board, drv, power, pm, speed, netdev, binds>>

StopPut ==
  /\ User("put", "idle")
  /\ Pm(Put(pm))
  /\ UNCHANGED <<board, drv, power, chip, speed, netdev, failed, binds>>

UserSteps == OpenPutNoidle \/ OpenStart \/ OpenInts \/ StopChip \/ StopPut

Next == Probe \/ Register \/ Remove \/ Unregister \/ OpenGet \/ Stop
        \/ UserSteps \/ Worker

\* The kernel runs a thread that can run; probe, remove, open and stop come
\* from outside.
Spec == Init /\ [][Next]_vars
FairSpec == Spec /\ WF_vars(Register \/ Unregister) /\ WF_vars(UserSteps)
                 /\ WF_vars(Worker)

-----------------------------------------------------------------------------
(* Properties.                                                             *)

\* The controller has its clock and its supply, and is not being suspended.
Powered == clk > 0 /\ (board.vdd => vdd > 0) /\ pm.status # "suspending"

\* The threads are at a step that accesses the controller, or the interface
\* is up: its interrupt handler and the readers of the error counters do.
Accessing ==
  \/ drv \in {"softreset", "detect", "rx_int", "rx_int_off", "done", "sleep",
             "undo_sleep"}
  \/ user \in {"start", "ints", "stop"} \/ up

\* Whatever failed before, nobody accesses a controller without power: not
\* ndo_open while the PM worker suspends, not an error label of register.
PoweredWhenUsed == Accessing => Powered

\* A device without its driver has given back its power, its runtime PM
\* references and the SPI clock rate, however far probe came and whatever
\* failed.  Clock and supply are not given back after a supply that could not
\* be disabled: it stays on, and so does the clock.
PowerReturned ==
  drv = "unbound" =>
    /\ speed = "orig" /\ ~visible /\ ~up /\ user = "idle"
    /\ pm.usage = 0 /\ pm.depth = 1 /\ ~pm.idle
    /\ "disable" \notin failed => clk = 0 /\ vdd = 0

\* Clock and supply are never disabled more often than they were enabled,
\* except after a resume that failed, which unregister ignores.
BalancedPower == underflow => "resume" \in failed

\* An interface that is up has a controller that is awake, unless ndo_open ran
\* while register was still about to put the controller to sleep.
AwakeWhileUp == up /\ ~early => chip = "normal"

\* With CONFIG_PM a bound device whose interface is down loses its power.
PoweredDownWhenIdle ==
  (board.rpm /\ drv = "bound" /\ user = "idle" /\ ~up)
    ~> (clk = 0 \/ drv # "bound" \/ user # "idle" \/ up \/ "disable" \in failed)
=============================================================================
