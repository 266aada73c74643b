--------------------------- MODULE McpLifeProofs ---------------------------
(***************************************************************************)
(* Theorems about McpLife for every bound on the changes of the error      *)
(* state and on the SPI accesses that fail.                                *)
(***************************************************************************)
EXTENDS McpLife, TLAPS

-----------------------------------------------------------------------------
LEMMA LifeInit == Init => LifeInv
  BY DEF Init, LifeInv, LabelInv, Place, IrqHeld, OffloadHeld, XcvrHeld,
         RingsHeld, CandevHeld, PmHeld, IrqLabels, StartLabels, StopLabels,
         Threads

\* Where the writes of INT leave the thread.
LEMMA IntsEnableSteps ==
  ASSUME NEW t, NEW ok, NEW fail, NEW failCont,
         IntsEnable(t, ok, fail, failCont)
  PROVE  \/ SpiWorks /\ Call(t, ok, cont[t])
         \/ SpiFails /\ Call(t, fail, failCont)
  BY Zenon DEF IntsEnable

LEMMA IntsDisableSteps == ASSUME IntsDisable PROVE SpiWorks \/ SpiFails
  BY Zenon DEF IntsDisable

(* Each part of the next-state relation keeps LifeInv.                     *)

\* ndo_open acquires one thing at a time, or starts to undo.
LEMMA OpenLife ==
  ASSUME LifeInv, Open
  PROVE  LifeInv'
<1> USE DEF LifeInv, LabelInv, Place, IrqHeld, OffloadHeld, XcvrHeld, RingsHeld,
            CandevHeld, PmHeld, IrqLabels, StartLabels, StopLabels, Threads,
            Step, Goto, Call, resources, irqLocals
<1>1. CASE OpenPm
  BY <1>1 DEF OpenPm
<1>2. CASE OpenCandev
  BY <1>2 DEF OpenCandev
<1>3. CASE OpenRingAlloc
  BY <1>3 DEF OpenRingAlloc
<1>4. CASE OpenTransceiver
  BY <1>4 DEF OpenTransceiver
<1>5. CASE OpenOffload
  BY <1>5 DEF OpenOffload
<1>6. CASE OpenRequestIrq
  BY <1>6 DEF OpenRequestIrq
<1>7. CASE OpenInts
  BY <1>7, IntsEnableSteps DEF OpenInts
<1>8. CASE OpenQueue
  BY <1>8 DEF OpenQueue
<1> QED
  BY <1>1, <1>2, <1>3, <1>4, <1>5, <1>6, <1>7, <1>8 DEF Open

\* ndo_stop, and the undoing, release one thing at a time.
LEMMA StopLife ==
  ASSUME LifeInv, Stop
  PROVE  LifeInv'
<1> USE DEF LifeInv, LabelInv, Place, IrqHeld, OffloadHeld, XcvrHeld, RingsHeld,
            CandevHeld, PmHeld, IrqLabels, StartLabels, StopLabels, Threads,
            Step, Goto, Call, resources, irqLocals
<1>1. CASE StopQueue
  BY <1>1 DEF StopQueue
<1>2. CASE StopMask
  BY <1>2 DEF StopMask
<1>3. CASE FreeIrq
  BY <1>3 DEF FreeIrq
<1>4. CASE OffloadDisable
  BY <1>4 DEF OffloadDisable
<1>5. CASE TransceiverDisable
  BY <1>5 DEF TransceiverDisable
<1>6. CASE RingFree
  BY <1>6 DEF RingFree
<1>7. CASE CloseCandev
  BY <1>7 DEF CloseCandev
<1>8. CASE PmPut
  BY <1>8 DEF PmPut
<1> QED
  BY <1>1, <1>2, <1>3, <1>4, <1>5, <1>6, <1>7, <1>8 DEF Stop

\* chip_start acquires nothing.
LEMMA StartLife ==
  ASSUME LifeInv, NEW t \in Callers, ChipStart(t)
  PROVE  LifeInv'
<1> USE DEF LifeInv, LabelInv, Place, IrqHeld, OffloadHeld, XcvrHeld, RingsHeld,
            CandevHeld, PmHeld, IrqLabels, StartLabels, StopLabels, Threads,
            Step, Goto, Call, resources, irqLocals
<1>1. CASE ChipSoftreset(t)
  BY <1>1 DEF ChipSoftreset, Callers, StartFails, OnError
<1>2. CASE Configure(t, "clock_init", "rx_int")
  BY <1>2 DEF Configure, Callers, StartFails, OnError
<1>3. CASE ChipRxIntEnable(t)
  BY <1>3 DEF ChipRxIntEnable, Callers, OnError
<1>4. CASE Configure(t, "ecc_init", "ring_init")
  BY <1>4 DEF Configure, Callers, StartFails, OnError
<1>5. CASE RingInit(t)
  BY <1>5 DEF RingInit, Callers
<1>6. CASE ChipFifoInit(t)
  BY <1>6 DEF ChipFifoInit, Callers, StartFails, OnError
<1>7. CASE ChipSetNormalMode(t)
  BY <1>7 DEF ChipSetNormalMode, Callers, StartFails, OnError
<1> QED
  BY <1>1, <1>2, <1>3, <1>4, <1>5, <1>6, <1>7 DEF ChipStart

\* chip_stop releases nothing.
LEMMA ChipStopLife ==
  ASSUME LifeInv, NEW t \in Threads, ChipStop(t)
  PROVE  LifeInv'
<1> USE DEF LifeInv, LabelInv, Place, IrqHeld, OffloadHeld, XcvrHeld, RingsHeld,
            CandevHeld, PmHeld, IrqLabels, StartLabels, StopLabels, Threads,
            Step, Goto, Call, resources, irqLocals
<1>1. CASE ChipStopState(t)
  BY <1>1 DEF ChipStopState
<1>2. CASE ChipStopInts(t)
  BY <1>2 DEF ChipStopInts
<1>3. CASE ChipStopSleep(t)
  BY <1>3 DEF ChipStopSleep
<1> QED
  BY <1>1, <1>2, <1>3 DEF ChipStop

\* A restart runs while the interface is open.
LEMMA RestartLife ==
  ASSUME LifeInv, WorkStarts \/ RestartNow \/ \E t \in Callers : Restart(t)
  PROVE  LifeInv'
<1> USE DEF LifeInv, LabelInv, Place, IrqHeld, OffloadHeld, XcvrHeld, RingsHeld,
            CandevHeld, PmHeld, IrqLabels, StartLabels, StopLabels, Threads,
            Step, Goto, Call, resources, irqLocals
<1>1. CASE WorkStarts
  BY <1>1 DEF WorkStarts
<1>2. CASE RestartNow
  BY <1>2 DEF RestartNow
<1>3. CASE \E t \in Callers : Restart(t)
  <2>1. PICK t \in Callers : Restart(t)
    BY <1>3
  <2>2. CASE RestartInts(t)
    BY <2>2, IntsEnableSteps DEF Callers, RestartInts
  <2>3. CASE RestartWake(t)
    BY <2>3 DEF Callers, RestartWake
  <2>4. CASE RestartDone(t)
    BY <2>4 DEF Callers, RestartDone
  <2> QED
    BY <2>1, <2>2, <2>3, <2>4 DEF Restart
<1> QED
  BY <1>1, <1>2, <1>3

\* The handler runs while it is registered.
LEMMA IrqLife ==
  ASSUME LifeInv, Irq
  PROVE  LifeInv'
<1> USE DEF LifeInv, LabelInv, Place, IrqHeld, OffloadHeld, XcvrHeld, RingsHeld,
            CandevHeld, PmHeld, IrqLabels, StartLabels, StopLabels, Threads,
            Step, Goto, Call, resources, irqLocals
<1>1. CASE IrqFires
  BY <1>1 DEF IrqFires
<1>2. CASE IrqReadInt
  BY <1>2 DEF IrqReadInt
<1>3. CASE IrqAck
  BY <1>3 DEF IrqAck
<1>4. CASE IrqHandlers
  BY <1>4 DEF IrqHandlers
<1>5. CASE IrqReadTrec
  BY <1>5 DEF IrqReadTrec
<1>6. CASE IrqChangeState
  BY <1>6 DEF IrqChangeState, AfterChange
<1>7. CASE IrqSaveBerr
  BY <1>7 DEF IrqSaveBerr
<1>8. CASE IrqBusOff
  BY <1>8 DEF IrqBusOff
<1>9. CASE IrqBerr
  BY <1>9 DEF IrqBerr
<1>10. CASE IrqCheckState
  BY <1>10 DEF IrqCheckState
<1>11. CASE IrqFail
  BY <1>11 DEF IrqFail
<1> QED
  BY <1>1, <1>2, <1>3, <1>4, <1>5, <1>6, <1>7, <1>8, <1>9, <1>10, <1>11 DEF Irq

\* The controller changes nothing of the driver.
LEMMA ChipLife ==
  ASSUME LifeInv, ChipErrorState \/ ChipEvent \/ UNCHANGED vars
  PROVE  LifeInv'
<1>1. UNCHANGED <<pc, cont, resources, restart>>
  <2>1. CASE ChipErrorState BY <2>1 DEF ChipErrorState
  <2>2. CASE ChipEvent BY <2>2 DEF ChipEvent
  <2>3. CASE UNCHANGED vars BY <2>3 DEF vars
  <2> QED BY <2>1, <2>2, <2>3
<1> QED
  BY <1>1 DEF LifeInv, LabelInv, Place, IrqHeld, OffloadHeld, XcvrHeld,
     RingsHeld, CandevHeld, PmHeld, IrqLabels, StartLabels, StopLabels, Threads,
     resources

\* What the interface holds is known at every place of ndo_open and ndo_stop,
\* whatever SPI accesses fail, and the other threads run only in between.
THEOREM LifeInvariant == Spec => []LifeInv
<1>1. LifeInv /\ [Next]_vars => LifeInv'
  BY OpenLife, StopLife, StartLife, ChipStopLife, RestartLife, IrqLife, ChipLife
     DEF Next, Rtnl
<1> QED
  BY LifeInit, <1>1, PTL DEF Spec

\* An interface that is down holds nothing, however ndo_open failed and
\* whichever restart was under way (DownHoldsNothing of run life_manual).
THEOREM DownReleased == Spec => []DownHoldsNothing
<1>1. LifeInv => DownHoldsNothing
  BY DEF LifeInv, DownHoldsNothing, Place, StartLabels, StopLabels, PmHeld,
         CandevHeld, RingsHeld, XcvrHeld, OffloadHeld, IrqHeld
<1> QED
  BY LifeInvariant, <1>1, PTL

\* No thread accesses the controller without the runtime PM reference of the
\* interface (PoweredAccess of run life_auto).
THEOREM Powered == Spec => []PoweredAccess
<1>1. LifeInv => PoweredAccess
  BY DEF LifeInv, LabelInv, PoweredAccess, Accesses, Threads, Place,
         StartLabels, StopLabels, PmHeld, CandevHeld, RingsHeld, XcvrHeld,
         OffloadHeld, IrqHeld
<1> QED
  BY LifeInvariant, <1>1, PTL

\* ring_init() never walks rings that were freed, whatever fails and whenever
\* the restart work runs, but in the window of ndo_stop between ring_free() and
\* close_candev() (RingsPresent of run life_auto).
THEOREM RingsWalked == Spec => []RingsPresent
<1>1. LifeInv => RingsPresent
  BY DEF LifeInv, LabelInv, RingsPresent, Place, StartLabels,
     StopLabels, PmHeld, CandevHeld, RingsHeld, XcvrHeld, OffloadHeld, IrqHeld
<1> QED
  BY LifeInvariant, <1>1, PTL

-----------------------------------------------------------------------------
(* Types.                                                                  *)

LEMMA ResetChipType == ResetChip \in ChipTypes
  BY DEF ResetChip, ChipTypes, Active, Passive, BusOff

LEMMA TypeInit == Init => TypeOK
<1> SUFFICES ASSUME Init PROVE TypeOK
  OBVIOUS
<1>1. chip \in ChipTypes
  <2>1. chip = [ResetChip EXCEPT !.mode = IF NoSleep THEN "config" ELSE "sleep"]
    BY DEF Init
  <2>2. (IF NoSleep THEN "config" ELSE "sleep")
          \in {"config", "normal", "sleep"}
    OBVIOUS
  <2> QED
    BY <2>1, <2>2, ResetChipType DEF ChipTypes
<1>2. DOMAIN pc = Threads /\ DOMAIN cont = Threads
  BY DEF Init, Threads
<1>3. errors \in 0 .. MaxErrors /\ spiFails \in 0 .. MaxSpiFails
  BY LifeAssumption DEF Init
<1>4. canState \in Active .. Stopped /\ newState \in Active .. BusOff
  BY DEF Init, Active, Stopped, BusOff
<1> QED
  BY <1>1, <1>2, <1>3, <1>4 DEF Init, TypeOK, FlagTypes, StateTypes

\* The Boolean variables.
LEMMA OpenFlags == ASSUME FlagTypes, Open PROVE FlagTypes'
<1> USE DEF FlagTypes, resources, irqLocals
<1>1. CASE OpenPm BY <1>1, ZenonT(30) DEF OpenPm
<1>2. CASE OpenCandev BY <1>2, ZenonT(30) DEF OpenCandev
<1>3. CASE OpenRingAlloc BY <1>3, ZenonT(30) DEF OpenRingAlloc
<1>4. CASE OpenTransceiver BY <1>4, ZenonT(30) DEF OpenTransceiver
<1>5. CASE OpenOffload BY <1>5, ZenonT(30) DEF OpenOffload
<1>6. CASE OpenRequestIrq BY <1>6, ZenonT(30) DEF OpenRequestIrq
<1>7. CASE OpenInts BY <1>7, ZenonT(30) DEF OpenInts
<1>8. CASE OpenQueue BY <1>8, ZenonT(30) DEF OpenQueue
<1> QED
  BY <1>1, <1>2, <1>3, <1>4, <1>5, <1>6, <1>7, <1>8 DEF Open

LEMMA StopFlags == ASSUME FlagTypes, Stop PROVE FlagTypes'
<1> USE DEF FlagTypes, resources, irqLocals
<1>1. CASE StopQueue BY <1>1, ZenonT(30) DEF StopQueue
<1>2. CASE StopMask BY <1>2, ZenonT(30) DEF StopMask
<1>3. CASE FreeIrq BY <1>3, ZenonT(30) DEF FreeIrq
<1>4. CASE OffloadDisable BY <1>4, ZenonT(30) DEF OffloadDisable
<1>5. CASE TransceiverDisable BY <1>5, ZenonT(30) DEF TransceiverDisable
<1>6. CASE RingFree BY <1>6, ZenonT(30) DEF RingFree
<1>7. CASE CloseCandev BY <1>7, ZenonT(30) DEF CloseCandev
<1>8. CASE PmPut BY <1>8, ZenonT(30) DEF PmPut
<1> QED
  BY <1>1, <1>2, <1>3, <1>4, <1>5, <1>6, <1>7, <1>8 DEF Stop

LEMMA StartFlags ==
  ASSUME NEW t \in Callers, FlagTypes, ChipStart(t)
  PROVE  FlagTypes'
<1> USE DEF FlagTypes, resources, irqLocals
<1>1. CASE ChipSoftreset(t) BY <1>1, ZenonT(30) DEF ChipSoftreset
<1>2. CASE Configure(t, "clock_init", "rx_int") BY <1>2, ZenonT(30) DEF Configure
<1>3. CASE ChipRxIntEnable(t) BY <1>3, ZenonT(30) DEF ChipRxIntEnable
<1>4. CASE Configure(t, "ecc_init", "ring_init") BY <1>4, ZenonT(30) DEF Configure
<1>5. CASE RingInit(t) BY <1>5, ZenonT(30) DEF RingInit
<1>6. CASE ChipFifoInit(t) BY <1>6, ZenonT(30) DEF ChipFifoInit
<1>7. CASE ChipSetNormalMode(t) BY <1>7, ZenonT(30) DEF ChipSetNormalMode
<1> QED
  BY <1>1, <1>2, <1>3, <1>4, <1>5, <1>6, <1>7 DEF ChipStart

LEMMA ChipStopFlags ==
  ASSUME NEW t \in Threads, FlagTypes, ChipStop(t)
  PROVE  FlagTypes'
<1> USE DEF FlagTypes, resources, irqLocals
<1>1. CASE ChipStopState(t) BY <1>1, ZenonT(30) DEF ChipStopState
<1>2. CASE ChipStopInts(t) BY <1>2, ZenonT(30) DEF ChipStopInts
<1>3. CASE ChipStopSleep(t) BY <1>3, ZenonT(30) DEF ChipStopSleep
<1> QED
  BY <1>1, <1>2, <1>3 DEF ChipStop

LEMMA RestartFlags ==
  ASSUME NEW t \in Callers, FlagTypes, Restart(t)
  PROVE  FlagTypes'
<1> USE DEF FlagTypes, resources, irqLocals
<1>1. CASE RestartInts(t) BY <1>1, ZenonT(30) DEF RestartInts
<1>2. CASE RestartWake(t) BY <1>2, ZenonT(30) DEF RestartWake
<1>3. CASE RestartDone(t) BY <1>3, ZenonT(30) DEF RestartDone
<1> QED
  BY <1>1, <1>2, <1>3 DEF Restart

LEMMA IrqFlags ==
  ASSUME FlagTypes, chip \in ChipTypes, Irq
  PROVE  FlagTypes'
<1> USE DEF FlagTypes, resources, irqLocals
<1>1. CASE IrqFires BY <1>1, ZenonT(30) DEF IrqFires
<1>2. CASE IrqReadInt
  <2>1. chip.cerrif \in BOOLEAN /\ chip.event \in BOOLEAN
    BY DEF ChipTypes
  <2>2. cerr' \in BOOLEAN /\ event' \in BOOLEAN
    BY <1>2, <2>1, ZenonT(30) DEF IrqReadInt
  <2> QED BY <1>2, <2>2, ZenonT(30) DEF IrqReadInt
<1>3. CASE IrqAck BY <1>3, ZenonT(30) DEF IrqAck
<1>4. CASE IrqHandlers BY <1>4, ZenonT(30) DEF IrqHandlers
<1>5. CASE IrqReadTrec BY <1>5, ZenonT(30) DEF IrqReadTrec
<1>6. CASE IrqChangeState BY <1>6, ZenonT(30) DEF IrqChangeState
<1>7. CASE IrqSaveBerr BY <1>7, ZenonT(30) DEF IrqSaveBerr
<1>8. CASE IrqBusOff BY <1>8, LifeAssumption, ZenonT(30) DEF IrqBusOff
<1>9. CASE IrqBerr BY <1>9, ZenonT(30) DEF IrqBerr
<1>10. CASE IrqCheckState BY <1>10, ZenonT(30) DEF IrqCheckState
<1>11. CASE IrqFail BY <1>11, ZenonT(30) DEF IrqFail
<1> QED
  BY <1>1, <1>2, <1>3, <1>4, <1>5, <1>6, <1>7, <1>8, <1>9, <1>10, <1>11 DEF Irq

\* The counters and states.
LEMMA OpenStates == ASSUME StateTypes, Open PROVE StateTypes'
  BY LifeAssumption, IntsEnableSteps DEF StateTypes, Step, Goto, Call, SpiWorks,
     SpiFails, resources, irqLocals, Open, OpenPm, OpenCandev, OpenRingAlloc,
     OpenTransceiver, OpenOffload, OpenRequestIrq, OpenInts, OpenQueue

LEMMA StopStates == ASSUME StateTypes, Stop PROVE StateTypes'
  BY LifeAssumption, IntsDisableSteps DEF StateTypes, Step, Goto, Call,
     SpiWorks, SpiFails, resources, irqLocals, Stop, StopQueue, StopMask,
     FreeIrq, OffloadDisable, TransceiverDisable, RingFree, CloseCandev, PmPut

LEMMA StartStates ==
  ASSUME NEW t \in Callers, StateTypes, ChipStart(t)
  PROVE  StateTypes'
  BY LifeAssumption DEF StateTypes, Step, Goto, Call, SpiWorks, SpiFails,
     resources, irqLocals, ChipStart, ChipSoftreset, Configure,
     ChipRxIntEnable, RingInit, ChipFifoInit, ChipSetNormalMode, StartFails,
     Active, Stopped

LEMMA ChipStopStates ==
  ASSUME NEW t \in Threads, StateTypes, ChipStop(t)
  PROVE  StateTypes'
  BY LifeAssumption, IntsDisableSteps DEF StateTypes, Step, Goto, Call,
     SpiWorks, SpiFails, resources, irqLocals, ChipStop, ChipStopState,
     ChipStopInts, ChipStopSleep, Active, Stopped, BusOff

LEMMA RestartStates ==
  ASSUME NEW t \in Callers, StateTypes, Restart(t)
  PROVE  StateTypes'
  BY LifeAssumption, IntsEnableSteps DEF StateTypes, Step, Goto, Call, SpiWorks,
     SpiFails, resources, irqLocals, Restart, RestartInts, RestartWake,
     RestartDone

LEMMA IrqStates ==
  ASSUME StateTypes, chip \in ChipTypes, Irq
  PROVE  StateTypes'
<1>1. WorseState \in Active .. BusOff
  BY DEF ChipTypes, WorseState, Active, Passive, BusOff
<1> QED
  BY <1>1, LifeAssumption, IntsDisableSteps DEF StateTypes, Step, Goto, Call,
     SpiWorks, SpiFails, resources, irqLocals, Irq, IrqFires, IrqReadInt,
     IrqAck, IrqHandlers, IrqReadTrec, IrqChangeState, IrqSaveBerr, IrqBusOff,
     IrqBerr, IrqCheckState, IrqFail, Active, BusOff, Stopped

\* A write of INT sets the mask and clears CERRIF, which is remembered.
LEMMA IntWrittenFields ==
  ASSUME chip \in ChipTypes, NEW on \in BOOLEAN, NEW c \in IntWritten(on)
  PROVE  /\ c \in ChipTypes /\ c.ie = on /\ c.cerrif = FALSE
         /\ c.missed = (chip.missed \/ chip.cerrif)
         /\ c.mode = chip.mode /\ c.tx = chip.tx /\ c.rx = chip.rx
<1>1. PICK left \in BOOLEAN :
        c = [chip EXCEPT !.ie = on, !.cerrif = FALSE,
                         !.event = chip.event /\ left,
                         !.missed = chip.missed \/ chip.cerrif]
  BY DEF IntWritten
<1>2. (chip.event /\ left) \in BOOLEAN /\ (chip.missed \/ chip.cerrif) \in BOOLEAN
  OBVIOUS
<1> QED
  BY <1>1, <1>2 DEF ChipTypes

\* The controller.
LEMMA ChipFields ==
  ASSUME NEW c \in ChipTypes, NEW b \in BOOLEAN
  PROVE  /\ [c EXCEPT !.ie = b] \in ChipTypes
         /\ [c EXCEPT !.cerrif = b] \in ChipTypes
         /\ [c EXCEPT !.event = b] \in ChipTypes
         /\ [c EXCEPT !.mode = "sleep"] \in ChipTypes
         /\ [c EXCEPT !.mode = "normal"] \in ChipTypes
         /\ [c EXCEPT !.missed = b] \in ChipTypes
         /\ c.ie \in BOOLEAN
  BY DEF ChipTypes

\* Handling the other flags changes none of the error states.
LEMMA HandlersChip ==
  ASSUME chip \in ChipTypes, IrqHandlers
  PROVE  /\ chip' \in ChipTypes /\ chip'.mode \in {chip.mode, "normal"}
         /\ chip'.ie = chip.ie /\ chip'.cerrif = chip.cerrif
         /\ chip'.missed = chip.missed
         /\ chip'.tx = chip.tx /\ chip'.rx = chip.rx
<1>1. CASE UNCHANGED chip
  BY <1>1
<1>2. ASSUME NEW m \in {chip.mode, "normal"},
             chip' = [chip EXCEPT !.event = chip.event /\ ~event, !.mode = m]
      PROVE  /\ chip' \in ChipTypes /\ chip'.mode \in {chip.mode, "normal"}
             /\ chip'.ie = chip.ie /\ chip'.cerrif = chip.cerrif
             /\ chip'.missed = chip.missed
             /\ chip'.tx = chip.tx /\ chip'.rx = chip.rx
  <2>1. (chip.event /\ ~event) \in BOOLEAN
    OBVIOUS
  <2>2. m \in {"config", "normal", "sleep"}
    BY DEF ChipTypes
  <2> QED
    BY <1>2, <2>1, <2>2 DEF ChipTypes
<1> QED
  BY <1>1, <1>2, Zenon DEF IrqHandlers

LEMMA OpenChip == ASSUME chip \in ChipTypes, Open PROVE (chip \in ChipTypes)'
<1> USE ChipFields, IntWrittenFields DEF resources, irqLocals, IntsEnable, IntsDisable
<1>1. CASE OpenPm BY <1>1 DEF OpenPm
<1>2. CASE OpenCandev BY <1>2 DEF OpenCandev
<1>3. CASE OpenRingAlloc BY <1>3 DEF OpenRingAlloc
<1>4. CASE OpenTransceiver BY <1>4 DEF OpenTransceiver
<1>5. CASE OpenOffload BY <1>5 DEF OpenOffload
<1>6. CASE OpenRequestIrq BY <1>6 DEF OpenRequestIrq
<1>7. CASE OpenInts BY <1>7 DEF OpenInts
<1>8. CASE OpenQueue BY <1>8 DEF OpenQueue
<1> QED
  BY <1>1, <1>2, <1>3, <1>4, <1>5, <1>6, <1>7, <1>8 DEF Open

LEMMA StopChip == ASSUME chip \in ChipTypes, Stop PROVE (chip \in ChipTypes)'
<1> USE ChipFields, IntWrittenFields DEF resources, irqLocals, IntsEnable, IntsDisable
<1>1. CASE StopQueue BY <1>1 DEF StopQueue
<1>2. CASE StopMask BY <1>2 DEF StopMask
<1>3. CASE FreeIrq BY <1>3 DEF FreeIrq
<1>4. CASE OffloadDisable BY <1>4 DEF OffloadDisable
<1>5. CASE TransceiverDisable BY <1>5 DEF TransceiverDisable
<1>6. CASE RingFree BY <1>6 DEF RingFree
<1>7. CASE CloseCandev BY <1>7 DEF CloseCandev
<1>8. CASE PmPut BY <1>8 DEF PmPut
<1> QED
  BY <1>1, <1>2, <1>3, <1>4, <1>5, <1>6, <1>7, <1>8 DEF Stop

LEMMA StartChip ==
  ASSUME NEW t \in Callers, chip \in ChipTypes, ChipStart(t)
  PROVE  (chip \in ChipTypes)'
<1> USE ChipFields, IntWrittenFields DEF resources, irqLocals, IntsEnable, IntsDisable
<1>1. CASE ChipSoftreset(t) BY <1>1, ResetChipType DEF ChipSoftreset
<1>2. CASE Configure(t, "clock_init", "rx_int") BY <1>2 DEF Configure
<1>3. CASE ChipRxIntEnable(t) BY <1>3 DEF ChipRxIntEnable
<1>4. CASE Configure(t, "ecc_init", "ring_init") BY <1>4 DEF Configure
<1>5. CASE RingInit(t) BY <1>5 DEF RingInit
<1>6. CASE ChipFifoInit(t) BY <1>6 DEF ChipFifoInit
<1>7. CASE ChipSetNormalMode(t) BY <1>7 DEF ChipSetNormalMode
<1> QED
  BY <1>1, <1>2, <1>3, <1>4, <1>5, <1>6, <1>7 DEF ChipStart

LEMMA ChipStopChip ==
  ASSUME NEW t \in Threads, chip \in ChipTypes, ChipStop(t)
  PROVE  (chip \in ChipTypes)'
<1> USE ChipFields, IntWrittenFields DEF resources, irqLocals, IntsEnable, IntsDisable
<1>1. CASE ChipStopState(t) BY <1>1 DEF ChipStopState
<1>2. CASE ChipStopInts(t) BY <1>2 DEF ChipStopInts
<1>3. CASE ChipStopSleep(t) BY <1>3 DEF ChipStopSleep
<1> QED
  BY <1>1, <1>2, <1>3 DEF ChipStop

LEMMA RestartChip ==
  ASSUME NEW t \in Callers, chip \in ChipTypes, Restart(t)
  PROVE  (chip \in ChipTypes)'
<1> USE ChipFields, IntWrittenFields DEF resources, irqLocals, IntsEnable, IntsDisable
<1>1. CASE RestartInts(t) BY <1>1 DEF RestartInts
<1>2. CASE RestartWake(t) BY <1>2 DEF RestartWake
<1>3. CASE RestartDone(t) BY <1>3 DEF RestartDone
<1> QED
  BY <1>1, <1>2, <1>3 DEF Restart

LEMMA IrqChip == ASSUME chip \in ChipTypes, Irq PROVE (chip \in ChipTypes)'
<1> USE ChipFields, IntWrittenFields DEF resources, irqLocals, IntsEnable, IntsDisable
<1>1. CASE IrqFires BY <1>1 DEF IrqFires
<1>2. CASE IrqReadInt BY <1>2 DEF IrqReadInt
<1>3. CASE IrqAck BY <1>3 DEF IrqAck
<1>4. CASE IrqHandlers BY <1>4, HandlersChip
<1>5. CASE IrqReadTrec BY <1>5 DEF IrqReadTrec
<1>6. CASE IrqChangeState BY <1>6 DEF IrqChangeState
<1>7. CASE IrqSaveBerr BY <1>7 DEF IrqSaveBerr
<1>8. CASE IrqBusOff BY <1>8 DEF IrqBusOff
<1>9. CASE IrqBerr BY <1>9 DEF IrqBerr
<1>10. CASE IrqCheckState BY <1>10 DEF IrqCheckState
<1>11. CASE IrqFail BY <1>11 DEF IrqFail
<1> QED
  BY <1>1, <1>2, <1>3, <1>4, <1>5, <1>6, <1>7, <1>8, <1>9, <1>10, <1>11 DEF Irq

\* The rest of the next-state relation.
LEMMA ErrorStates == ASSUME StateTypes, ChipErrorState PROVE StateTypes'
<1>1. /\ UNCHANGED <<pc, cont, canState, newState, spiFails>>
      /\ errors < MaxErrors /\ errors' = errors + 1
  BY DEF ChipErrorState, irqLocals
<1> QED
  BY <1>1, LifeAssumption DEF StateTypes

LEMMA OtherType ==
  ASSUME TypeOK,
         WorkStarts \/ RestartNow \/ ChipErrorState \/ ChipEvent
           \/ UNCHANGED vars
  PROVE  TypeOK'
<1> USE DEF TypeOK, Goto, Call, resources, irqLocals
<1>1. CASE WorkStarts \/ RestartNow
  <2>0. UNCHANGED <<resources, queue, carrier, cerr, event, skb>>
        /\ restart' \in {restart, FALSE}
    BY <1>1 DEF WorkStarts, RestartNow
  <2>1. FlagTypes' BY <2>0 DEF FlagTypes
  <2>2. StateTypes' BY <1>1 DEF StateTypes, WorkStarts, RestartNow
  <2> QED BY <1>1, <2>1, <2>2 DEF WorkStarts, RestartNow
<1>2. CASE ChipErrorState
  <2>1. FlagTypes' BY <1>2, ZenonT(30) DEF FlagTypes, ChipErrorState
  <2>2. StateTypes' BY <1>2, ErrorStates
  <2>3. (chip \in ChipTypes)'
    BY <1>2 DEF ChipErrorState, ChipTypes, Active, Warning, Passive, BusOff
  <2> QED BY <2>1, <2>2, <2>3
<1>3. CASE ChipEvent
  <2>1. FlagTypes' BY <1>3, ZenonT(30) DEF FlagTypes, ChipEvent
  <2>2. StateTypes' BY <1>3 DEF StateTypes, ChipEvent
  <2> QED BY <1>3, <2>1, <2>2, ChipFields DEF ChipEvent
<1>4. CASE UNCHANGED vars
  <2>1. FlagTypes' BY <1>4, ZenonT(30) DEF FlagTypes, vars
  <2> QED BY <1>4, <2>1 DEF StateTypes, vars
<1> QED
  BY <1>1, <1>2, <1>3, <1>4

\* Every variable has its type, whatever SPI accesses fail (TypeOK of run
\* life_manual).
THEOREM TypeCorrect == Spec => []TypeOK
<1>1. TypeOK /\ [Next]_vars => TypeOK'
  <2> SUFFICES ASSUME TypeOK, [Next]_vars PROVE TypeOK'
    OBVIOUS
  <2>1. CASE Open
    BY <2>1, OpenFlags, OpenStates, OpenChip DEF TypeOK
  <2>2. CASE Stop
    BY <2>2, StopFlags, StopStates, StopChip DEF TypeOK
  <2>3. CASE Irq
    BY <2>3, IrqFlags, IrqStates, IrqChip DEF TypeOK
  <2>4. CASE \E t \in Callers : ChipStart(t)
    BY <2>4, StartFlags, StartStates, StartChip DEF TypeOK
  <2>5. CASE \E t \in Callers : Restart(t)
    BY <2>5, RestartFlags, RestartStates, RestartChip DEF TypeOK
  <2>6. CASE \E t \in Threads : ChipStop(t)
    BY <2>6, ChipStopFlags, ChipStopStates, ChipStopChip DEF TypeOK
  <2> QED
    BY <2>1, <2>2, <2>3, <2>4, <2>5, <2>6, OtherType DEF Next, Rtnl
<1> QED
  BY TypeInit, <1>1, PTL DEF Spec

-----------------------------------------------------------------------------
(* Bus-off, as long as no access fails.                                    *)

\* A step after which no access has failed is one whose access works.
LEMMA NoSpiFails == ASSUME TypeOK, spiFails' = 0 PROVE ~SpiFails
  BY LifeAssumption DEF TypeOK, StateTypes, SpiFails

BusOffCase == spiFails' = 0 /\ TypeOK /\ LifeInv /\ BusOffInv

LEMMA BusOffInit == Init => BusOffInv
  BY DEF Init, BusOffInv, Opening, OpenMasked, Restarting, ShutDown, Handling,
     StoppingForBusOff, Place, StartLabels, StopLabels, IrqHeld, Callers,
     BusOff, Stopped, ResetChip

LEMMA WorkingIntsEnable ==
  ASSUME spiFails' = 0, TypeOK, NEW t, NEW ok, NEW fail, NEW failCont,
         IntsEnable(t, ok, fail, failCont)
  PROVE  /\ Call(t, ok, cont[t])
         /\ chip' \in ChipTypes /\ chip'.ie = TRUE /\ chip'.cerrif = FALSE
         /\ chip'.missed = (chip.missed \/ chip.cerrif)
         /\ chip'.mode = chip.mode /\ chip'.tx = chip.tx /\ chip'.rx = chip.rx
<1>1. chip' \in IntWritten(TRUE) /\ Call(t, ok, cont[t])
  BY NoSpiFails DEF IntsEnable
<1> QED
  BY <1>1, IntWrittenFields DEF TypeOK

LEMMA WorkingIntsDisable ==
  ASSUME spiFails' = 0, TypeOK, IntsDisable
  PROVE  /\ chip' \in ChipTypes /\ chip'.ie = FALSE /\ chip'.cerrif = FALSE
         /\ chip'.missed = (chip.missed \/ chip.cerrif)
         /\ chip'.mode = chip.mode /\ chip'.tx = chip.tx /\ chip'.rx = chip.rx
<1>1. chip' \in IntWritten(FALSE)
  BY NoSpiFails DEF IntsDisable
<1> QED
  BY <1>1, IntWrittenFields DEF TypeOK

LEMMA OpenBusOff == ASSUME BusOffCase, Open PROVE BusOffInv'
<1> USE NoSpiFails
    DEF BusOffCase, BusOffInv, Opening, OpenMasked, Restarting, ShutDown,
        Handling, StoppingForBusOff, LifeInv, LabelInv, Place, StartLabels,
        StopLabels, IrqHeld, OffloadHeld, XcvrHeld, RingsHeld, CandevHeld,
        PmHeld, IrqLabels, Callers, Threads, Step, Goto, Call, resources,
        irqLocals, TypeOK, ChipTypes, Active, BusOff, Stopped
<1>1. CASE OpenPm
  BY <1>1 DEF OpenPm
<1>2. CASE OpenCandev
  BY <1>2 DEF OpenCandev
<1>3. CASE OpenRingAlloc
  BY <1>3 DEF OpenRingAlloc
<1>4. CASE OpenTransceiver
  BY <1>4 DEF OpenTransceiver
<1>5. CASE OpenOffload
  BY <1>5 DEF OpenOffload
<1>6. CASE OpenRequestIrq
  BY <1>6 DEF OpenRequestIrq
<1>7. CASE OpenInts
  <2>1. /\ Call("rtnl", "start_queue", cont["rtnl"])
        /\ chip' \in ChipTypes /\ chip'.ie = TRUE /\ chip'.cerrif = FALSE
        /\ chip'.missed = (chip.missed \/ chip.cerrif)
        /\ chip'.mode = chip.mode /\ chip'.tx = chip.tx /\ chip'.rx = chip.rx
    BY <1>7, WorkingIntsEnable DEF OpenInts
  <2> QED BY <1>7, <2>1 DEF OpenInts
<1>8. CASE OpenQueue
  BY <1>8 DEF OpenQueue
<1> QED
  BY <1>1, <1>2, <1>3, <1>4, <1>5, <1>6, <1>7, <1>8 DEF Open

LEMMA StopBusOff == ASSUME BusOffCase, Stop PROVE BusOffInv'
<1> USE NoSpiFails
    DEF BusOffCase, BusOffInv, Opening, OpenMasked, Restarting, ShutDown,
        Handling, StoppingForBusOff, LifeInv, LabelInv, Place, StartLabels,
        StopLabels, IrqHeld, OffloadHeld, XcvrHeld, RingsHeld, CandevHeld,
        PmHeld, IrqLabels, Callers, Threads, Step, Goto, Call, resources,
        irqLocals, TypeOK, ChipTypes, Active, BusOff, Stopped
<1>1. CASE StopQueue
  BY <1>1 DEF StopQueue
<1>2. CASE StopMask
  <2>1. /\ chip' \in ChipTypes /\ chip'.ie = FALSE /\ chip'.cerrif = FALSE
        /\ chip'.missed = (chip.missed \/ chip.cerrif)
        /\ chip'.mode = chip.mode /\ chip'.tx = chip.tx /\ chip'.rx = chip.rx
    BY <1>2, WorkingIntsDisable DEF StopMask
  <2> QED
    BY <1>2, <2>1 DEF StopMask
<1>3. CASE FreeIrq
  BY <1>3 DEF FreeIrq
<1>4. CASE OffloadDisable
  BY <1>4 DEF OffloadDisable
<1>5. CASE TransceiverDisable
  BY <1>5 DEF TransceiverDisable
<1>6. CASE RingFree
  BY <1>6 DEF RingFree
<1>7. CASE CloseCandev
  BY <1>7 DEF CloseCandev
<1>8. CASE PmPut
  BY <1>8 DEF PmPut
<1> QED
  BY <1>1, <1>2, <1>3, <1>4, <1>5, <1>6, <1>7, <1>8 DEF Stop

LEMMA StartBusOff ==
  ASSUME NEW t \in Callers, BusOffCase, ChipStart(t)
  PROVE  BusOffInv'
<1> USE NoSpiFails
    DEF BusOffCase, BusOffInv, Opening, OpenMasked, Restarting, ShutDown,
        Handling, StoppingForBusOff, LifeInv, LabelInv, Place, StartLabels,
        StopLabels, IrqHeld, OffloadHeld, XcvrHeld, RingsHeld, CandevHeld,
        PmHeld, IrqLabels, Callers, Threads, Step, Goto, Call, resources,
        irqLocals, TypeOK, ChipTypes, Active, BusOff, Stopped
<1>1. CASE ChipSoftreset(t)
  BY <1>1 DEF ChipSoftreset, Callers, StartFails, ResetChip
<1>2. CASE Configure(t, "clock_init", "rx_int")
  BY <1>2 DEF Configure, Callers, StartFails
<1>3. CASE ChipRxIntEnable(t)
  BY <1>3 DEF ChipRxIntEnable, Callers
<1>4. CASE Configure(t, "ecc_init", "ring_init")
  BY <1>4 DEF Configure, Callers, StartFails
<1>5. CASE RingInit(t)
  BY <1>5 DEF RingInit, Callers
<1>6. CASE ChipFifoInit(t)
  BY <1>6 DEF ChipFifoInit, Callers, StartFails
<1>7. CASE ChipSetNormalMode(t)
  BY <1>7 DEF ChipSetNormalMode, Callers, StartFails
<1> QED
  BY <1>1, <1>2, <1>3, <1>4, <1>5, <1>6, <1>7 DEF ChipStart

LEMMA ChipStopBusOff ==
  ASSUME NEW t \in Threads, BusOffCase, ChipStop(t)
  PROVE  BusOffInv'
<1> USE NoSpiFails
    DEF BusOffCase, BusOffInv, Opening, OpenMasked, Restarting, ShutDown,
        Handling, StoppingForBusOff, LifeInv, LabelInv, Place, StartLabels,
        StopLabels, IrqHeld, OffloadHeld, XcvrHeld, RingsHeld, CandevHeld,
        PmHeld, IrqLabels, Callers, Threads, Step, Goto, Call, resources,
        irqLocals, TypeOK, ChipTypes, Active, BusOff, Stopped
<1>1. CASE ChipStopState(t)
  BY <1>1 DEF ChipStopState
<1>2. CASE ChipStopInts(t)
  <2>1. /\ chip' \in ChipTypes /\ chip'.ie = FALSE /\ chip'.cerrif = FALSE
        /\ chip'.missed = (chip.missed \/ chip.cerrif)
        /\ chip'.mode = chip.mode /\ chip'.tx = chip.tx /\ chip'.rx = chip.rx
    BY <1>2, WorkingIntsDisable DEF ChipStopInts
  <2> QED
    BY <1>2, <2>1 DEF ChipStopInts
<1>3. CASE ChipStopSleep(t)
  BY <1>3 DEF ChipStopSleep
<1> QED
  BY <1>1, <1>2, <1>3 DEF ChipStop

LEMMA RestartBusOff ==
  ASSUME NEW t \in Callers, BusOffCase, Restart(t)
  PROVE  BusOffInv'
<1> USE NoSpiFails
    DEF BusOffCase, BusOffInv, Opening, OpenMasked, Restarting, ShutDown,
        Handling, StoppingForBusOff, LifeInv, LabelInv, Place, StartLabels,
        StopLabels, IrqHeld, OffloadHeld, XcvrHeld, RingsHeld, CandevHeld,
        PmHeld, IrqLabels, Callers, Threads, Step, Goto, Call, resources,
        irqLocals, TypeOK, ChipTypes, Active, BusOff, Stopped
<1>1. CASE RestartInts(t)
  <2>1. /\ Call(t, "rs_wake", cont[t])
        /\ chip' \in ChipTypes /\ chip'.ie = TRUE /\ chip'.cerrif = FALSE
        /\ chip'.missed = (chip.missed \/ chip.cerrif)
        /\ chip'.mode = chip.mode /\ chip'.tx = chip.tx /\ chip'.rx = chip.rx
    BY <1>1, WorkingIntsEnable DEF RestartInts
  <2> QED BY <1>1, <2>1 DEF RestartInts, Callers
<1>2. CASE RestartWake(t)
  BY <1>2 DEF RestartWake, Callers
<1>3. CASE RestartDone(t)
  BY <1>3 DEF RestartDone, Callers
<1> QED
  BY <1>1, <1>2, <1>3 DEF Restart

LEMMA IrqBusOffKept == ASSUME BusOffCase, Irq PROVE BusOffInv'
<1> USE NoSpiFails
    DEF BusOffCase, BusOffInv, Opening, OpenMasked, Restarting, ShutDown,
        Handling, StoppingForBusOff, LifeInv, LabelInv, Place, StartLabels,
        StopLabels, IrqHeld, OffloadHeld, XcvrHeld, RingsHeld, CandevHeld,
        PmHeld, IrqLabels, Callers, Threads, Step, Goto, Call, resources,
        irqLocals, TypeOK, ChipTypes, Active, BusOff, Stopped
<1>1. CASE IrqFires
  BY <1>1 DEF IrqFires
<1>2. CASE IrqReadInt
  BY <1>2 DEF IrqReadInt
<1>3. CASE IrqAck
  BY <1>3 DEF IrqAck
<1>4. CASE IrqHandlers
  BY <1>4 DEF IrqHandlers
<1>5. CASE IrqReadTrec
  BY <1>5 DEF IrqReadTrec
<1>6. CASE IrqChangeState
  BY <1>6 DEF IrqChangeState, AfterChange
<1>7. CASE IrqSaveBerr
  BY <1>7 DEF IrqSaveBerr
<1>8. CASE IrqBusOff
  BY <1>8 DEF IrqBusOff
<1>9. CASE IrqBerr
  BY <1>9 DEF IrqBerr
<1>10. CASE IrqCheckState
  BY <1>10 DEF IrqCheckState
<1>11. CASE IrqFail
  <2>1. /\ chip' \in ChipTypes /\ chip'.ie = FALSE /\ chip'.cerrif = FALSE
        /\ chip'.missed = (chip.missed \/ chip.cerrif)
        /\ chip'.mode = chip.mode /\ chip'.tx = chip.tx /\ chip'.rx = chip.rx
    BY <1>11, WorkingIntsDisable DEF IrqFail
  <2> QED
    BY <1>11, <2>1 DEF IrqFail
<1> QED
  BY <1>1, <1>2, <1>3, <1>4, <1>5, <1>6, <1>7, <1>8, <1>9, <1>10, <1>11 DEF Irq

\* The bus and the other flags change neither the mode nor the enabling of the
\* interrupts.
LEMMA BusLeavesMode ==
  ASSUME chip \in ChipTypes, ChipErrorState \/ ChipEvent
  PROVE  chip'.ie = chip.ie /\ chip'.mode = chip.mode
<1>1. CASE ChipErrorState
  BY <1>1 DEF ChipErrorState, ChipTypes
<1>2. CASE ChipEvent
  BY <1>2 DEF ChipEvent, ChipTypes
<1> QED
  BY <1>1, <1>2

LEMMA OtherBusOff ==
  ASSUME BusOffCase,
         WorkStarts \/ RestartNow \/ ChipErrorState \/ ChipEvent
           \/ UNCHANGED vars
  PROVE  BusOffInv'
<1> USE DEF BusOffCase, BusOffInv, Opening, OpenMasked, Restarting, ShutDown,
        Handling, StoppingForBusOff, LifeInv, LabelInv, Place, StartLabels,
        StopLabels, IrqHeld, OffloadHeld, XcvrHeld, RingsHeld, CandevHeld,
        PmHeld, IrqLabels, Callers, Threads, Goto, Call, resources, irqLocals,
        TypeOK, ChipTypes, Active, BusOff, Stopped
<1>1. CASE WorkStarts
  BY <1>1 DEF WorkStarts
<1>2. CASE RestartNow
  BY <1>2 DEF RestartNow
<1>3. CASE ChipErrorState \/ ChipEvent
  <2>1. UNCHANGED <<pc, cont, canState, resources, carrier, restart>>
    BY <1>3 DEF ChipErrorState, ChipEvent
  <2>2. chip'.ie = chip.ie /\ chip'.mode = chip.mode
    BY <1>3, BusLeavesMode
  <2> QED BY <2>1, <2>2
<1>4. CASE UNCHANGED vars
  BY <1>4 DEF vars
<1> QED
  BY <1>1, <1>2, <1>3, <1>4

-----------------------------------------------------------------------------
(* The controller is configured before it takes part in the bus, and takes *)
(* part while the handler works.                                           *)

ModeCase == spiFails' = 0 /\ TypeOK /\ LifeInv /\ BusOffInv /\ ModeInv

LEMMA ModeInit == Init => ModeInv
  BY DEF Init, ModeInv, Configuring, Handling, Place, StartLabels, StopLabels,
     IrqHeld, Callers

\* ndo_open goes on to its rings and its handler with the controller in its
\* normal mode.
LEMMA OpenMode == ASSUME ModeCase, Open PROVE ModeInv'
<1> USE NoSpiFails
    DEF ModeCase, ModeInv, Configuring, BusOffInv, Opening, OpenMasked,
        Restarting, Handling, StoppingForBusOff, LifeInv, LabelInv, Place,
        StartLabels, StopLabels, IrqHeld, OffloadHeld, XcvrHeld, RingsHeld,
        CandevHeld, PmHeld, IrqLabels, Callers, Threads, Step, Goto, Call,
        resources, irqLocals, TypeOK, ChipTypes, Active, BusOff, Stopped,
        Passive
<1>1. CASE OpenPm
  BY <1>1 DEF OpenPm
<1>2. CASE OpenCandev
  BY <1>2 DEF OpenCandev
<1>3. CASE OpenRingAlloc
  BY <1>3 DEF OpenRingAlloc
<1>4. CASE OpenTransceiver
  BY <1>4 DEF OpenTransceiver
<1>5. CASE OpenOffload
  BY <1>5 DEF OpenOffload
<1>6. CASE OpenRequestIrq
  BY <1>6 DEF OpenRequestIrq
<1>7. CASE OpenInts
  <2>1. /\ Call("rtnl", "start_queue", cont["rtnl"])
        /\ chip' \in ChipTypes /\ chip'.ie = TRUE /\ chip'.cerrif = FALSE
        /\ chip'.missed = (chip.missed \/ chip.cerrif)
        /\ chip'.mode = chip.mode /\ chip'.tx = chip.tx /\ chip'.rx = chip.rx
    BY <1>7, WorkingIntsEnable DEF OpenInts
  <2> QED
    BY <1>7, <2>1 DEF OpenInts
<1>8. CASE OpenQueue
  BY <1>8 DEF OpenQueue
<1> QED
  BY <1>1, <1>2, <1>3, <1>4, <1>5, <1>6, <1>7, <1>8 DEF Open

\* Nothing that ndo_stop does before chip_stop() changes the mode.
LEMMA StopMode == ASSUME ModeCase, Stop PROVE ModeInv'
<1> USE NoSpiFails
    DEF ModeCase, ModeInv, Configuring, BusOffInv, Opening, OpenMasked,
        Restarting, Handling, StoppingForBusOff, LifeInv, LabelInv, Place,
        StartLabels, StopLabels, IrqHeld, OffloadHeld, XcvrHeld, RingsHeld,
        CandevHeld, PmHeld, IrqLabels, Callers, Threads, Step, Goto, Call,
        resources, irqLocals, TypeOK, ChipTypes, Active, BusOff, Stopped,
        Passive
<1>1. CASE StopQueue
  BY <1>1 DEF StopQueue
<1>2. CASE StopMask
  <2>1. /\ chip' \in ChipTypes /\ chip'.ie = FALSE /\ chip'.cerrif = FALSE
        /\ chip'.missed = (chip.missed \/ chip.cerrif)
        /\ chip'.mode = chip.mode /\ chip'.tx = chip.tx /\ chip'.rx = chip.rx
    BY <1>2, WorkingIntsDisable DEF StopMask
  <2> QED
    BY <1>2, <2>1 DEF StopMask
<1>3. CASE FreeIrq
  BY <1>3 DEF FreeIrq
<1>4. CASE OffloadDisable
  BY <1>4 DEF OffloadDisable
<1>5. CASE TransceiverDisable
  BY <1>5 DEF TransceiverDisable
<1>6. CASE RingFree
  BY <1>6 DEF RingFree
<1>7. CASE CloseCandev
  BY <1>7 DEF CloseCandev
<1>8. CASE PmPut
  BY <1>8 DEF PmPut
<1> QED
  BY <1>1, <1>2, <1>3, <1>4, <1>5, <1>6, <1>7, <1>8 DEF Stop

\* chip_start() resets the controller, configures it, then requests the normal
\* mode.
LEMMA StartMode ==
  ASSUME NEW t \in Callers, ModeCase, ChipStart(t)
  PROVE  ModeInv'
<1> USE NoSpiFails
    DEF ModeCase, ModeInv, Configuring, BusOffInv, Opening, OpenMasked,
        Restarting, Handling, StoppingForBusOff, LifeInv, LabelInv, Place,
        StartLabels, StopLabels, IrqHeld, OffloadHeld, XcvrHeld, RingsHeld,
        CandevHeld, PmHeld, IrqLabels, Callers, Threads, Step, Goto, Call,
        resources, irqLocals, TypeOK, ChipTypes, Active, BusOff, Stopped,
        Passive
<1>1. CASE ChipSoftreset(t)
  BY <1>1 DEF ChipSoftreset, StartFails, ResetChip
<1>2. CASE Configure(t, "clock_init", "rx_int")
  BY <1>2 DEF Configure, StartFails
<1>3. CASE ChipRxIntEnable(t)
  BY <1>3 DEF ChipRxIntEnable
<1>4. CASE Configure(t, "ecc_init", "ring_init")
  BY <1>4 DEF Configure, StartFails
<1>5. CASE RingInit(t)
  BY <1>5 DEF RingInit
<1>6. CASE ChipFifoInit(t)
  BY <1>6 DEF ChipFifoInit, StartFails
<1>7. CASE ChipSetNormalMode(t)
  BY <1>7 DEF ChipSetNormalMode, StartFails
<1> QED
  BY <1>1, <1>2, <1>3, <1>4, <1>5, <1>6, <1>7 DEF ChipStart

\* Only the handler stops a controller it is handling, with its interrupts
\* masked first.
LEMMA ChipStopMode ==
  ASSUME NEW t \in Threads, ModeCase, ChipStop(t)
  PROVE  ModeInv'
<1> USE NoSpiFails
    DEF ModeCase, ModeInv, Configuring, BusOffInv, Opening, OpenMasked,
        Restarting, Handling, StoppingForBusOff, LifeInv, LabelInv, Place,
        StartLabels, StopLabels, IrqHeld, OffloadHeld, XcvrHeld, RingsHeld,
        CandevHeld, PmHeld, IrqLabels, Callers, Threads, Step, Goto, Call,
        resources, irqLocals, TypeOK, ChipTypes, Active, BusOff, Stopped,
        Passive
<1>1. CASE ChipStopState(t)
  BY <1>1 DEF ChipStopState
<1>2. CASE ChipStopInts(t)
  <2>1. /\ chip' \in ChipTypes /\ chip'.ie = FALSE /\ chip'.cerrif = FALSE
        /\ chip'.missed = (chip.missed \/ chip.cerrif)
        /\ chip'.mode = chip.mode /\ chip'.tx = chip.tx /\ chip'.rx = chip.rx
    BY <1>2, WorkingIntsDisable DEF ChipStopInts
  <2> QED
    BY <1>2, <2>1 DEF ChipStopInts
<1>3. CASE ChipStopSleep(t)
  BY <1>3 DEF ChipStopSleep
<1> QED
  BY <1>1, <1>2, <1>3 DEF ChipStop

\* set_mode() enables the interrupts of a controller in its normal mode.
LEMMA RestartMode ==
  ASSUME NEW t \in Callers, ModeCase, Restart(t)
  PROVE  ModeInv'
<1> USE NoSpiFails
    DEF ModeCase, ModeInv, Configuring, BusOffInv, Opening, OpenMasked,
        Restarting, Handling, StoppingForBusOff, LifeInv, LabelInv, Place,
        StartLabels, StopLabels, IrqHeld, OffloadHeld, XcvrHeld, RingsHeld,
        CandevHeld, PmHeld, IrqLabels, Callers, Threads, Step, Goto, Call,
        resources, irqLocals, TypeOK, ChipTypes, Active, BusOff, Stopped,
        Passive
<1>1. CASE RestartInts(t)
  <2>1. /\ Call(t, "rs_wake", cont[t])
        /\ chip' \in ChipTypes /\ chip'.ie = TRUE /\ chip'.cerrif = FALSE
        /\ chip'.missed = (chip.missed \/ chip.cerrif)
        /\ chip'.mode = chip.mode /\ chip'.tx = chip.tx /\ chip'.rx = chip.rx
    BY <1>1, WorkingIntsEnable DEF RestartInts
  <2> QED
    BY <1>1, <2>1 DEF RestartInts
<1>2. CASE RestartWake(t)
  BY <1>2 DEF RestartWake
<1>3. CASE RestartDone(t)
  BY <1>3 DEF RestartDone
<1> QED
  BY <1>1, <1>2, <1>3 DEF Restart

\* The handler goes on only after it saw the interrupts enabled.
LEMMA IrqMode == ASSUME ModeCase, Irq PROVE ModeInv'
<1> USE NoSpiFails
    DEF ModeCase, ModeInv, Configuring, BusOffInv, Opening, OpenMasked,
        Restarting, Handling, StoppingForBusOff, LifeInv, LabelInv, Place,
        StartLabels, StopLabels, IrqHeld, OffloadHeld, XcvrHeld, RingsHeld,
        CandevHeld, PmHeld, IrqLabels, Callers, Threads, Step, Goto, Call,
        resources, irqLocals, TypeOK, ChipTypes, Active, BusOff, Stopped,
        Passive
<1>1. CASE IrqFires
  BY <1>1 DEF IrqFires
<1>2. CASE IrqReadInt
  BY <1>2 DEF IrqReadInt, Asleep
<1>3. CASE IrqAck
  BY <1>3 DEF IrqAck
<1>4. CASE IrqHandlers
  BY <1>4, HandlersChip DEF IrqHandlers
<1>5. CASE IrqReadTrec
  BY <1>5 DEF IrqReadTrec
<1>6. CASE IrqChangeState
  BY <1>6 DEF IrqChangeState, AfterChange
<1>7. CASE IrqSaveBerr
  BY <1>7 DEF IrqSaveBerr
<1>8. CASE IrqBusOff
  BY <1>8 DEF IrqBusOff
<1>9. CASE IrqBerr
  BY <1>9 DEF IrqBerr
<1>10. CASE IrqCheckState
  BY <1>10 DEF IrqCheckState
<1>11. CASE IrqFail
  <2>1. /\ chip' \in ChipTypes /\ chip'.ie = FALSE /\ chip'.cerrif = FALSE
        /\ chip'.missed = (chip.missed \/ chip.cerrif)
        /\ chip'.mode = chip.mode /\ chip'.tx = chip.tx /\ chip'.rx = chip.rx
    BY <1>11, WorkingIntsDisable DEF IrqFail
  <2> QED
    BY <1>11, <2>1 DEF IrqFail
<1> QED
  BY <1>1, <1>2, <1>3, <1>4, <1>5, <1>6, <1>7, <1>8, <1>9, <1>10, <1>11 DEF Irq

\* The bus changes the error state only in the normal mode.
LEMMA OtherMode ==
  ASSUME ModeCase,
         WorkStarts \/ RestartNow \/ ChipErrorState \/ ChipEvent
           \/ UNCHANGED vars
  PROVE  ModeInv'
<1>3. CASE ChipErrorState
  <2>1. /\ chip.mode = "normal" /\ chip'.mode = "normal"
        /\ chip'.ie = chip.ie
        /\ UNCHANGED <<pc, queue>>
    BY <1>3 DEF ChipErrorState, ModeCase, TypeOK, ChipTypes
  <2>2. (\A t \in Callers : ~Configuring(t))'
    BY <2>1 DEF ModeCase, ModeInv, Configuring
  <2> QED
    BY <2>1, <2>2 DEF ModeCase, ModeInv, Place
<1> USE NoSpiFails
    DEF ModeCase, ModeInv, Configuring, BusOffInv, Opening, OpenMasked,
        Restarting, Handling, StoppingForBusOff, LifeInv, LabelInv, Place,
        StartLabels, StopLabels, IrqHeld, OffloadHeld, XcvrHeld, RingsHeld,
        CandevHeld, PmHeld, IrqLabels, Callers, Threads, Step, Goto, Call,
        resources, irqLocals, TypeOK, ChipTypes, Active, BusOff, Stopped,
        Passive
<1>1. CASE WorkStarts
  BY <1>1 DEF WorkStarts
<1>2. CASE RestartNow
  BY <1>2 DEF RestartNow
<1>4. CASE ChipEvent
  BY <1>4 DEF ChipEvent
<1>5. CASE UNCHANGED vars
  BY <1>5 DEF vars
<1> QED
  BY <1>1, <1>2, <1>3, <1>4, <1>5

-----------------------------------------------------------------------------
(* The state of an interface that is up follows the controller.            *)

TrackCase == ModeCase /\ TrackInv

LEMMA TrackInit == Init => TrackInv
  BY DEF Init, TrackInv, Started, Place, StartLabels, StopLabels, IrqHeld,
     Callers

\* A change of the error state sets CERRIF, or is the one that Follows allows.
LEMMA ErrorStateFollows ==
  ASSUME chip \in ChipTypes, ChipErrorState, NEW s, Follows(s)
  PROVE  Follows(s)'
<1> USE DEF ChipTypes, Follows, Active, Warning, Passive, BusOff
<1>1. CASE chip'.cerrif
  BY <1>1
<1>2. CASE ~chip'.cerrif
  <2>1. /\ chip.tx = Warning /\ chip'.tx = Active /\ chip'.rx = chip.rx
        /\ ~chip.cerrif /\ chip'.missed = chip.missed
    BY <1>2 DEF ChipErrorState
  <2> QED
    BY <2>1
<1> QED
  BY <1>1, <1>2

\* ndo_open reaches its rings with a controller that is error active.
LEMMA OpenTrack == ASSUME TrackCase, Open PROVE TrackInv'
<1> USE NoSpiFails
    DEF TrackCase, ModeCase, TrackInv, Started, Follows, Warning, ModeInv,
        Configuring, BusOffInv, Opening, OpenMasked, Restarting, Handling,
        StoppingForBusOff, LifeInv, LabelInv, Place, StartLabels, StopLabels,
        IrqHeld, OffloadHeld, XcvrHeld, RingsHeld, CandevHeld, PmHeld,
        IrqLabels, Callers, Threads, Step, Goto, Call, resources, irqLocals,
        TypeOK, ChipTypes, Active, BusOff, Stopped, Passive
<1>1. CASE OpenPm
  BY <1>1 DEF OpenPm
<1>2. CASE OpenCandev
  BY <1>2 DEF OpenCandev
<1>3. CASE OpenRingAlloc
  BY <1>3 DEF OpenRingAlloc
<1>4. CASE OpenTransceiver
  BY <1>4 DEF OpenTransceiver
<1>5. CASE OpenOffload
  BY <1>5 DEF OpenOffload
<1>6. CASE OpenRequestIrq
  BY <1>6 DEF OpenRequestIrq
<1>7. CASE OpenInts
  <2>1. /\ Call("rtnl", "start_queue", cont["rtnl"])
        /\ chip' \in ChipTypes /\ chip'.ie = TRUE /\ chip'.cerrif = FALSE
        /\ chip'.missed = (chip.missed \/ chip.cerrif)
        /\ chip'.mode = chip.mode /\ chip'.tx = chip.tx /\ chip'.rx = chip.rx
    BY <1>7, WorkingIntsEnable DEF OpenInts
  <2> QED
    BY <1>7, <2>1 DEF OpenInts
<1>8. CASE OpenQueue
  BY <1>8 DEF OpenQueue
<1> QED
  BY <1>1, <1>2, <1>3, <1>4, <1>5, <1>6, <1>7, <1>8 DEF Open

LEMMA StopTrack == ASSUME TrackCase, Stop PROVE TrackInv'
<1> USE NoSpiFails
    DEF TrackCase, ModeCase, TrackInv, Started, Follows, Warning, ModeInv,
        Configuring, BusOffInv, Opening, OpenMasked, Restarting, Handling,
        StoppingForBusOff, LifeInv, LabelInv, Place, StartLabels, StopLabels,
        IrqHeld, OffloadHeld, XcvrHeld, RingsHeld, CandevHeld, PmHeld,
        IrqLabels, Callers, Threads, Step, Goto, Call, resources, irqLocals,
        TypeOK, ChipTypes, Active, BusOff, Stopped, Passive
<1>1. CASE StopQueue
  BY <1>1 DEF StopQueue
<1>2. CASE StopMask
  <2>1. /\ chip' \in ChipTypes /\ chip'.ie = FALSE /\ chip'.cerrif = FALSE
        /\ chip'.missed = (chip.missed \/ chip.cerrif)
        /\ chip'.mode = chip.mode /\ chip'.tx = chip.tx /\ chip'.rx = chip.rx
    BY <1>2, WorkingIntsDisable DEF StopMask
  <2> QED
    BY <1>2, <2>1 DEF StopMask
<1>3. CASE FreeIrq
  BY <1>3 DEF FreeIrq
<1>4. CASE OffloadDisable
  BY <1>4 DEF OffloadDisable
<1>5. CASE TransceiverDisable
  BY <1>5 DEF TransceiverDisable
<1>6. CASE RingFree
  BY <1>6 DEF RingFree
<1>7. CASE CloseCandev
  BY <1>7 DEF CloseCandev
<1>8. CASE PmPut
  BY <1>8 DEF PmPut
<1> QED
  BY <1>1, <1>2, <1>3, <1>4, <1>5, <1>6, <1>7, <1>8 DEF Stop

\* After chip_fifo_init() the state is active, as that of a controller just
\* configured.
LEMMA StartTrack ==
  ASSUME NEW t \in Callers, TrackCase, ChipStart(t)
  PROVE  TrackInv'
<1> USE NoSpiFails
    DEF TrackCase, ModeCase, TrackInv, Started, Follows, Warning, ModeInv,
        Configuring, BusOffInv, Opening, OpenMasked, Restarting, Handling,
        StoppingForBusOff, LifeInv, LabelInv, Place, StartLabels, StopLabels,
        IrqHeld, OffloadHeld, XcvrHeld, RingsHeld, CandevHeld, PmHeld,
        IrqLabels, Callers, Threads, Step, Goto, Call, resources, irqLocals,
        TypeOK, ChipTypes, Active, BusOff, Stopped, Passive
<1>1. CASE ChipSoftreset(t)
  BY <1>1 DEF ChipSoftreset, StartFails, ResetChip
<1>2. CASE Configure(t, "clock_init", "rx_int")
  BY <1>2 DEF Configure, StartFails
<1>3. CASE ChipRxIntEnable(t)
  BY <1>3 DEF ChipRxIntEnable
<1>4. CASE Configure(t, "ecc_init", "ring_init")
  BY <1>4 DEF Configure, StartFails
<1>5. CASE RingInit(t)
  BY <1>5 DEF RingInit
<1>6. CASE ChipFifoInit(t)
  BY <1>6 DEF ChipFifoInit, StartFails
<1>7. CASE ChipSetNormalMode(t)
  BY <1>7 DEF ChipSetNormalMode, StartFails
<1> QED
  BY <1>1, <1>2, <1>3, <1>4, <1>5, <1>6, <1>7 DEF ChipStart

\* chip_stop() of the handler only repeats the state bus-off.
LEMMA ChipStopTrack ==
  ASSUME NEW t \in Threads, TrackCase, ChipStop(t)
  PROVE  TrackInv'
<1> USE NoSpiFails
    DEF TrackCase, ModeCase, TrackInv, Started, Follows, Warning, ModeInv,
        Configuring, BusOffInv, Opening, OpenMasked, Restarting, Handling,
        StoppingForBusOff, LifeInv, LabelInv, Place, StartLabels, StopLabels,
        IrqHeld, OffloadHeld, XcvrHeld, RingsHeld, CandevHeld, PmHeld,
        IrqLabels, Callers, Threads, Step, Goto, Call, resources, irqLocals,
        TypeOK, ChipTypes, Active, BusOff, Stopped, Passive
<1>1. CASE ChipStopState(t)
  BY <1>1 DEF ChipStopState
<1>2. CASE ChipStopInts(t)
  <2>1. /\ chip' \in ChipTypes /\ chip'.ie = FALSE /\ chip'.cerrif = FALSE
        /\ chip'.missed = (chip.missed \/ chip.cerrif)
        /\ chip'.mode = chip.mode /\ chip'.tx = chip.tx /\ chip'.rx = chip.rx
    BY <1>2, WorkingIntsDisable DEF ChipStopInts
  <2> QED
    BY <1>2, <2>1 DEF ChipStopInts
<1>3. CASE ChipStopSleep(t)
  BY <1>3 DEF ChipStopSleep
<1> QED
  BY <1>1, <1>2, <1>3 DEF ChipStop

LEMMA RestartTrack ==
  ASSUME NEW t \in Callers, TrackCase, Restart(t)
  PROVE  TrackInv'
<1> USE NoSpiFails
    DEF TrackCase, ModeCase, TrackInv, Started, Follows, Warning, ModeInv,
        Configuring, BusOffInv, Opening, OpenMasked, Restarting, Handling,
        StoppingForBusOff, LifeInv, LabelInv, Place, StartLabels, StopLabels,
        IrqHeld, OffloadHeld, XcvrHeld, RingsHeld, CandevHeld, PmHeld,
        IrqLabels, Callers, Threads, Step, Goto, Call, resources, irqLocals,
        TypeOK, ChipTypes, Active, BusOff, Stopped, Passive
<1>1. CASE RestartInts(t)
  <2>1. /\ Call(t, "rs_wake", cont[t])
        /\ chip' \in ChipTypes /\ chip'.ie = TRUE /\ chip'.cerrif = FALSE
        /\ chip'.missed = (chip.missed \/ chip.cerrif)
        /\ chip'.mode = chip.mode /\ chip'.tx = chip.tx /\ chip'.rx = chip.rx
    BY <1>1, WorkingIntsEnable DEF RestartInts
  <2> QED
    BY <1>1, <2>1 DEF RestartInts
<1>2. CASE RestartWake(t)
  BY <1>2 DEF RestartWake
<1>3. CASE RestartDone(t)
  BY <1>3 DEF RestartDone
<1> QED
  BY <1>1, <1>2, <1>3 DEF Restart

\* The handler acknowledges CERRIF before it reads the error state, and then
\* takes over what it read.
LEMMA IrqTrack == ASSUME TrackCase, Irq PROVE TrackInv'
<1> USE NoSpiFails
    DEF TrackCase, ModeCase, TrackInv, Started, Follows, Warning, ModeInv,
        Configuring, BusOffInv, Opening, OpenMasked, Restarting, Handling,
        StoppingForBusOff, LifeInv, LabelInv, Place, StartLabels, StopLabels,
        IrqHeld, OffloadHeld, XcvrHeld, RingsHeld, CandevHeld, PmHeld,
        IrqLabels, Callers, Threads, Step, Goto, Call, resources, irqLocals,
        TypeOK, ChipTypes, Active, BusOff, Stopped, Passive
<1>1. CASE IrqFires
  BY <1>1 DEF IrqFires
<1>2. CASE IrqReadInt
  BY <1>2 DEF IrqReadInt, Asleep
<1>3. CASE IrqAck
  BY <1>3 DEF IrqAck
<1>4. CASE IrqHandlers
  BY <1>4, HandlersChip DEF IrqHandlers
<1>5. CASE IrqReadTrec
  BY <1>5 DEF IrqReadTrec, Asleep, WorseState
<1>6. CASE IrqChangeState
  BY <1>6 DEF IrqChangeState, AfterChange
<1>7. CASE IrqSaveBerr
  BY <1>7 DEF IrqSaveBerr
<1>8. CASE IrqBusOff
  BY <1>8 DEF IrqBusOff
<1>9. CASE IrqBerr
  BY <1>9 DEF IrqBerr
<1>10. CASE IrqCheckState
  BY <1>10 DEF IrqCheckState
<1>11. CASE IrqFail
  <2>1. /\ chip' \in ChipTypes /\ chip'.ie = FALSE /\ chip'.cerrif = FALSE
        /\ chip'.missed = (chip.missed \/ chip.cerrif)
        /\ chip'.mode = chip.mode /\ chip'.tx = chip.tx /\ chip'.rx = chip.rx
    BY <1>11, WorkingIntsDisable DEF IrqFail
  <2> QED
    BY <1>11, <2>1 DEF IrqFail
<1> QED
  BY <1>1, <1>2, <1>3, <1>4, <1>5, <1>6, <1>7, <1>8, <1>9, <1>10, <1>11 DEF Irq

LEMMA OtherTrack ==
  ASSUME TrackCase,
         WorkStarts \/ RestartNow \/ ChipErrorState \/ ChipEvent
           \/ UNCHANGED vars
  PROVE  TrackInv'
<1> USE NoSpiFails
    DEF TrackCase, ModeCase, TrackInv, Started, Follows, Warning, ModeInv,
        Configuring, BusOffInv, Opening, OpenMasked, Restarting, Handling,
        StoppingForBusOff, LifeInv, LabelInv, Place, StartLabels, StopLabels,
        IrqHeld, OffloadHeld, XcvrHeld, RingsHeld, CandevHeld, PmHeld,
        IrqLabels, Callers, Threads, Step, Goto, Call, resources, irqLocals,
        TypeOK, ChipTypes, Active, BusOff, Stopped, Passive
<1>1. CASE WorkStarts
  BY <1>1 DEF WorkStarts
<1>2. CASE RestartNow
  BY <1>2 DEF RestartNow
<1>3. CASE ChipErrorState
  <2>1. UNCHANGED <<pc, cont, canState, newState, cerr>>
    BY <1>3 DEF ChipErrorState
  <2>2. \A s : Follows(s) => Follows(s)'
    BY <1>3, ErrorStateFollows
  <2>3. Follows(canState) => Follows(canState)'
    BY <2>1, <2>2
  <2>4. Follows(newState) => Follows(newState)'
    BY <2>1, <2>2
  <2> HIDE DEF Follows
  <2> QED
    BY <2>1, <2>3, <2>4
<1>4. CASE ChipEvent
  BY <1>4 DEF ChipEvent
<1>5. CASE UNCHANGED vars
  BY <1>5 DEF vars
<1> QED
  BY <1>1, <1>2, <1>3, <1>4, <1>5

-----------------------------------------------------------------------------
(* A change of the error state that the enabling of the interrupts cleared. *)

UnseenCase ==
  /\ spiFails' = 0 /\ TypeOK /\ LifeInv /\ BusOffInv /\ ModeInv
  /\ UnseenInv

LEMMA UnseenInit == Init => UnseenInv
  BY DEF Init, UnseenInv, Place, StartLabels, StopLabels, IrqHeld

\* ndo_open enables the interrupts in the state error active.
LEMMA OpenUnseen == ASSUME UnseenCase, Open PROVE UnseenInv'
<1> USE NoSpiFails
    DEF UnseenCase, UnseenInv, BusOffInv, Opening, OpenMasked,
        Restarting, Handling, StoppingForBusOff, ModeInv, LifeInv, LabelInv,
        Place, StartLabels, StopLabels, IrqHeld, OffloadHeld, XcvrHeld,
        RingsHeld, CandevHeld, PmHeld, IrqLabels, Callers, Threads, Step, Goto,
        Call, resources, irqLocals, TypeOK, ChipTypes, Active, BusOff, Stopped,
        Passive
<1>1. CASE OpenPm
  BY <1>1 DEF OpenPm
<1>2. CASE OpenCandev
  BY <1>2 DEF OpenCandev
<1>3. CASE OpenRingAlloc
  BY <1>3 DEF OpenRingAlloc
<1>4. CASE OpenTransceiver
  BY <1>4 DEF OpenTransceiver
<1>5. CASE OpenOffload
  BY <1>5 DEF OpenOffload
<1>6. CASE OpenRequestIrq
  BY <1>6 DEF OpenRequestIrq
<1>7. CASE OpenInts
  <2>1. /\ Call("rtnl", "start_queue", cont["rtnl"])
        /\ chip' \in ChipTypes /\ chip'.ie = TRUE /\ chip'.cerrif = FALSE
        /\ chip'.missed = (chip.missed \/ chip.cerrif)
        /\ chip'.mode = chip.mode /\ chip'.tx = chip.tx /\ chip'.rx = chip.rx
    BY <1>7, WorkingIntsEnable DEF OpenInts
  <2> QED
    BY <1>7, <2>1 DEF OpenInts
<1>8. CASE OpenQueue
  BY <1>8 DEF OpenQueue
<1> QED
  BY <1>1, <1>2, <1>3, <1>4, <1>5, <1>6, <1>7, <1>8 DEF Open

LEMMA StopUnseen == ASSUME UnseenCase, Stop PROVE UnseenInv'
<1> USE NoSpiFails
    DEF UnseenCase, UnseenInv, BusOffInv, Opening, OpenMasked,
        Restarting, Handling, StoppingForBusOff, ModeInv, LifeInv, LabelInv,
        Place, StartLabels, StopLabels, IrqHeld, OffloadHeld, XcvrHeld,
        RingsHeld, CandevHeld, PmHeld, IrqLabels, Callers, Threads, Step, Goto,
        Call, resources, irqLocals, TypeOK, ChipTypes, Active, BusOff, Stopped,
        Passive
<1>1. CASE StopQueue
  BY <1>1 DEF StopQueue
<1>2. CASE StopMask
  <2>1. /\ chip' \in ChipTypes /\ chip'.ie = FALSE /\ chip'.cerrif = FALSE
        /\ chip'.missed = (chip.missed \/ chip.cerrif)
        /\ chip'.mode = chip.mode /\ chip'.tx = chip.tx /\ chip'.rx = chip.rx
    BY <1>2, WorkingIntsDisable DEF StopMask
  <2> QED
    BY <1>2, <2>1 DEF StopMask
<1>3. CASE FreeIrq
  BY <1>3 DEF FreeIrq
<1>4. CASE OffloadDisable
  BY <1>4 DEF OffloadDisable
<1>5. CASE TransceiverDisable
  BY <1>5 DEF TransceiverDisable
<1>6. CASE RingFree
  BY <1>6 DEF RingFree
<1>7. CASE CloseCandev
  BY <1>7 DEF CloseCandev
<1>8. CASE PmPut
  BY <1>8 DEF PmPut
<1> QED
  BY <1>1, <1>2, <1>3, <1>4, <1>5, <1>6, <1>7, <1>8 DEF Stop

\* chip_fifo_init() is followed by that state.
LEMMA StartUnseen ==
  ASSUME NEW t \in Callers, UnseenCase, ChipStart(t)
  PROVE  UnseenInv'
<1> USE NoSpiFails
    DEF UnseenCase, UnseenInv, BusOffInv, Opening, OpenMasked,
        Restarting, Handling, StoppingForBusOff, ModeInv, LifeInv, LabelInv,
        Place, StartLabels, StopLabels, IrqHeld, OffloadHeld, XcvrHeld,
        RingsHeld, CandevHeld, PmHeld, IrqLabels, Callers, Threads, Step, Goto,
        Call, resources, irqLocals, TypeOK, ChipTypes, Active, BusOff, Stopped,
        Passive
<1>1. CASE ChipSoftreset(t)
  BY <1>1 DEF ChipSoftreset, StartFails, ResetChip
<1>2. CASE Configure(t, "clock_init", "rx_int")
  BY <1>2 DEF Configure, StartFails
<1>3. CASE ChipRxIntEnable(t)
  BY <1>3 DEF ChipRxIntEnable
<1>4. CASE Configure(t, "ecc_init", "ring_init")
  BY <1>4 DEF Configure, StartFails
<1>5. CASE RingInit(t)
  BY <1>5 DEF RingInit
<1>6. CASE ChipFifoInit(t)
  BY <1>6 DEF ChipFifoInit, StartFails
<1>7. CASE ChipSetNormalMode(t)
  BY <1>7 DEF ChipSetNormalMode, StartFails
<1> QED
  BY <1>1, <1>2, <1>3, <1>4, <1>5, <1>6, <1>7 DEF ChipStart

LEMMA ChipStopUnseen ==
  ASSUME NEW t \in Threads, UnseenCase, ChipStop(t)
  PROVE  UnseenInv'
<1> USE NoSpiFails
    DEF UnseenCase, UnseenInv, BusOffInv, Opening, OpenMasked,
        Restarting, Handling, StoppingForBusOff, ModeInv, LifeInv, LabelInv,
        Place, StartLabels, StopLabels, IrqHeld, OffloadHeld, XcvrHeld,
        RingsHeld, CandevHeld, PmHeld, IrqLabels, Callers, Threads, Step, Goto,
        Call, resources, irqLocals, TypeOK, ChipTypes, Active, BusOff, Stopped,
        Passive
<1>1. CASE ChipStopState(t)
  BY <1>1 DEF ChipStopState
<1>2. CASE ChipStopInts(t)
  <2>1. /\ chip' \in ChipTypes /\ chip'.ie = FALSE /\ chip'.cerrif = FALSE
        /\ chip'.missed = (chip.missed \/ chip.cerrif)
        /\ chip'.mode = chip.mode /\ chip'.tx = chip.tx /\ chip'.rx = chip.rx
    BY <1>2, WorkingIntsDisable DEF ChipStopInts
  <2> QED
    BY <1>2, <2>1 DEF ChipStopInts
<1>3. CASE ChipStopSleep(t)
  BY <1>3 DEF ChipStopSleep
<1> QED
  BY <1>1, <1>2, <1>3 DEF ChipStop

LEMMA RestartUnseen ==
  ASSUME NEW t \in Callers, UnseenCase, Restart(t)
  PROVE  UnseenInv'
<1> USE NoSpiFails
    DEF UnseenCase, UnseenInv, BusOffInv, Opening, OpenMasked,
        Restarting, Handling, StoppingForBusOff, ModeInv, LifeInv, LabelInv,
        Place, StartLabels, StopLabels, IrqHeld, OffloadHeld, XcvrHeld,
        RingsHeld, CandevHeld, PmHeld, IrqLabels, Callers, Threads, Step, Goto,
        Call, resources, irqLocals, TypeOK, ChipTypes, Active, BusOff, Stopped,
        Passive
<1>1. CASE RestartInts(t)
  <2>1. /\ Call(t, "rs_wake", cont[t])
        /\ chip' \in ChipTypes /\ chip'.ie = TRUE /\ chip'.cerrif = FALSE
        /\ chip'.missed = (chip.missed \/ chip.cerrif)
        /\ chip'.mode = chip.mode /\ chip'.tx = chip.tx /\ chip'.rx = chip.rx
    BY <1>1, WorkingIntsEnable DEF RestartInts
  <2> QED
    BY <1>1, <2>1 DEF RestartInts
<1>2. CASE RestartWake(t)
  BY <1>2 DEF RestartWake
<1>3. CASE RestartDone(t)
  BY <1>3 DEF RestartDone
<1> QED
  BY <1>1, <1>2, <1>3 DEF Restart

\* The handler changes the state only after it has read the controller.
LEMMA IrqUnseen == ASSUME UnseenCase, Irq PROVE UnseenInv'
<1> USE NoSpiFails
    DEF UnseenCase, UnseenInv, BusOffInv, Opening, OpenMasked,
        Restarting, Handling, StoppingForBusOff, ModeInv, LifeInv, LabelInv,
        Place, StartLabels, StopLabels, IrqHeld, OffloadHeld, XcvrHeld,
        RingsHeld, CandevHeld, PmHeld, IrqLabels, Callers, Threads, Step, Goto,
        Call, resources, irqLocals, TypeOK, ChipTypes, Active, BusOff, Stopped,
        Passive
<1>1. CASE IrqFires
  BY <1>1 DEF IrqFires
<1>2. CASE IrqReadInt
  BY <1>2 DEF IrqReadInt, Asleep
<1>3. CASE IrqAck
  BY <1>3 DEF IrqAck
<1>4. CASE IrqHandlers
  BY <1>4, HandlersChip DEF IrqHandlers
<1>5. CASE IrqReadTrec
  <2>1. ~Asleep
    BY <1>5 DEF IrqReadTrec, Asleep
  <2>2. chip' = [chip EXCEPT !.missed = chip.missed /\ Asleep]
    BY <1>5 DEF IrqReadTrec
  <2>3. (chip.missed /\ Asleep) = FALSE
    BY <2>1
  <2>4. chip'.missed = FALSE
    BY <2>2, <2>3
  <2> QED
    BY <1>5, <2>4 DEF IrqReadTrec
<1>6. CASE IrqChangeState
  BY <1>6 DEF IrqChangeState, AfterChange
<1>7. CASE IrqSaveBerr
  BY <1>7 DEF IrqSaveBerr
<1>8. CASE IrqBusOff
  BY <1>8 DEF IrqBusOff
<1>9. CASE IrqBerr
  BY <1>9 DEF IrqBerr
<1>10. CASE IrqCheckState
  BY <1>10 DEF IrqCheckState
<1>11. CASE IrqFail
  <2>1. /\ chip' \in ChipTypes /\ chip'.ie = FALSE /\ chip'.cerrif = FALSE
        /\ chip'.missed = (chip.missed \/ chip.cerrif)
        /\ chip'.mode = chip.mode /\ chip'.tx = chip.tx /\ chip'.rx = chip.rx
    BY <1>11, WorkingIntsDisable DEF IrqFail
  <2> QED
    BY <1>11, <2>1 DEF IrqFail
<1> QED
  BY <1>1, <1>2, <1>3, <1>4, <1>5, <1>6, <1>7, <1>8, <1>9, <1>10, <1>11 DEF Irq

LEMMA OtherUnseen ==
  ASSUME UnseenCase,
         WorkStarts \/ RestartNow \/ ChipErrorState \/ ChipEvent
           \/ UNCHANGED vars
  PROVE  UnseenInv'
<1>1. CASE ChipErrorState
  <2>1. /\ UNCHANGED <<pc, cont, canState>>
        /\ chip'.ie = chip.ie /\ chip'.missed = chip.missed
    BY <1>1 DEF ChipErrorState, UnseenCase, TypeOK, ChipTypes
  <2> QED
    BY <2>1 DEF UnseenCase, UnseenInv, Place
<1> USE NoSpiFails
    DEF UnseenCase, UnseenInv, BusOffInv, Opening, OpenMasked,
        Restarting, Handling, StoppingForBusOff, ModeInv, LifeInv, LabelInv,
        Place, StartLabels, StopLabels, IrqHeld, OffloadHeld, XcvrHeld,
        RingsHeld, CandevHeld, PmHeld, IrqLabels, Callers, Threads, Step, Goto,
        Call, resources, irqLocals, TypeOK, ChipTypes, Active, BusOff, Stopped,
        Passive
<1>2. CASE WorkStarts
  BY <1>2 DEF WorkStarts
<1>3. CASE RestartNow
  BY <1>3 DEF RestartNow
<1>4. CASE ChipEvent
  BY <1>4 DEF ChipEvent
<1>5. CASE UNCHANGED vars
  BY <1>5 DEF vars
<1> QED
  BY <1>1, <1>2, <1>3, <1>4, <1>5

-----------------------------------------------------------------------------
(* A closed interface leaves its controller asleep.                        *)

AsleepCase ==
  /\ spiFails' = 0 /\ ~AutoRestart /\ ~NoSleep
  /\ TypeOK /\ LifeInv /\ BusOffInv /\ AsleepInv

LEMMA AsleepInit == ASSUME ~NoSleep, Init PROVE AsleepInv
  BY DEF Init, AsleepInv, Place, StartLabels, StopLabels, IrqHeld, ResetChip

\* Where ndo_open turns back the interrupts were not enabled yet.
LEMMA OpenAsleep == ASSUME AsleepCase, Open PROVE AsleepInv'
<1> USE NoSpiFails
    DEF AsleepCase, AsleepInv, BusOffInv, Opening, OpenMasked, Restarting,
        Handling, StoppingForBusOff, LifeInv, LabelInv, Place, StartLabels,
        StopLabels, IrqHeld, OffloadHeld, XcvrHeld, RingsHeld, CandevHeld,
        PmHeld, IrqLabels, Callers, Threads, Step, Goto, Call, resources,
        irqLocals, TypeOK, ChipTypes, Active, BusOff, Stopped, Passive
<1>1. CASE OpenPm
  BY <1>1 DEF OpenPm
<1>2. CASE OpenCandev
  BY <1>2 DEF OpenCandev
<1>3. CASE OpenRingAlloc
  BY <1>3 DEF OpenRingAlloc
<1>4. CASE OpenTransceiver
  BY <1>4 DEF OpenTransceiver
<1>5. CASE OpenOffload
  BY <1>5 DEF OpenOffload
<1>6. CASE OpenRequestIrq
  BY <1>6 DEF OpenRequestIrq
<1>7. CASE OpenInts
  <2>1. /\ Call("rtnl", "start_queue", cont["rtnl"])
        /\ chip' \in ChipTypes /\ chip'.ie = TRUE /\ chip'.cerrif = FALSE
        /\ chip'.missed = (chip.missed \/ chip.cerrif)
        /\ chip'.mode = chip.mode /\ chip'.tx = chip.tx /\ chip'.rx = chip.rx
    BY <1>7, WorkingIntsEnable DEF OpenInts
  <2> QED
    BY <1>7, <2>1 DEF OpenInts
<1>8. CASE OpenQueue
  BY <1>8 DEF OpenQueue
<1> QED
  BY <1>1, <1>2, <1>3, <1>4, <1>5, <1>6, <1>7, <1>8 DEF Open

\* ndo_stop stops the queue and masks the interrupts first.
LEMMA StopAsleep == ASSUME AsleepCase, Stop PROVE AsleepInv'
<1> USE NoSpiFails
    DEF AsleepCase, AsleepInv, BusOffInv, Opening, OpenMasked, Restarting,
        Handling, StoppingForBusOff, LifeInv, LabelInv, Place, StartLabels,
        StopLabels, IrqHeld, OffloadHeld, XcvrHeld, RingsHeld, CandevHeld,
        PmHeld, IrqLabels, Callers, Threads, Step, Goto, Call, resources,
        irqLocals, TypeOK, ChipTypes, Active, BusOff, Stopped, Passive
<1>1. CASE StopQueue
  BY <1>1 DEF StopQueue
<1>2. CASE StopMask
  <2>1. /\ chip' \in ChipTypes /\ chip'.ie = FALSE /\ chip'.cerrif = FALSE
        /\ chip'.missed = (chip.missed \/ chip.cerrif)
        /\ chip'.mode = chip.mode /\ chip'.tx = chip.tx /\ chip'.rx = chip.rx
    BY <1>2, WorkingIntsDisable DEF StopMask
  <2> QED
    BY <1>2, <2>1 DEF StopMask
<1>3. CASE FreeIrq
  BY <1>3 DEF FreeIrq
<1>4. CASE OffloadDisable
  BY <1>4 DEF OffloadDisable
<1>5. CASE TransceiverDisable
  BY <1>5 DEF TransceiverDisable
<1>6. CASE RingFree
  BY <1>6 DEF RingFree
<1>7. CASE CloseCandev
  BY <1>7 DEF CloseCandev
<1>8. CASE PmPut
  BY <1>8 DEF PmPut
<1> QED
  BY <1>1, <1>2, <1>3, <1>4, <1>5, <1>6, <1>7, <1>8 DEF Stop

LEMMA StartAsleep ==
  ASSUME NEW t \in Callers, AsleepCase, ChipStart(t)
  PROVE  AsleepInv'
<1> USE NoSpiFails
    DEF AsleepCase, AsleepInv, BusOffInv, Opening, OpenMasked, Restarting,
        Handling, StoppingForBusOff, LifeInv, LabelInv, Place, StartLabels,
        StopLabels, IrqHeld, OffloadHeld, XcvrHeld, RingsHeld, CandevHeld,
        PmHeld, IrqLabels, Callers, Threads, Step, Goto, Call, resources,
        irqLocals, TypeOK, ChipTypes, Active, BusOff, Stopped, Passive
<1>1. CASE ChipSoftreset(t)
  BY <1>1 DEF ChipSoftreset, StartFails, ResetChip
<1>2. CASE Configure(t, "clock_init", "rx_int")
  BY <1>2 DEF Configure, StartFails
<1>3. CASE ChipRxIntEnable(t)
  BY <1>3 DEF ChipRxIntEnable
<1>4. CASE Configure(t, "ecc_init", "ring_init")
  BY <1>4 DEF Configure, StartFails
<1>5. CASE RingInit(t)
  BY <1>5 DEF RingInit
<1>6. CASE ChipFifoInit(t)
  BY <1>6 DEF ChipFifoInit, StartFails
<1>7. CASE ChipSetNormalMode(t)
  BY <1>7 DEF ChipSetNormalMode, StartFails
<1> QED
  BY <1>1, <1>2, <1>3, <1>4, <1>5, <1>6, <1>7 DEF ChipStart

\* chip_stop() puts the controller to sleep before the caller goes on.
LEMMA ChipStopAsleep ==
  ASSUME NEW t \in Threads, AsleepCase, ChipStop(t)
  PROVE  AsleepInv'
<1> USE NoSpiFails
    DEF AsleepCase, AsleepInv, BusOffInv, Opening, OpenMasked, Restarting,
        Handling, StoppingForBusOff, LifeInv, LabelInv, Place, StartLabels,
        StopLabels, IrqHeld, OffloadHeld, XcvrHeld, RingsHeld, CandevHeld,
        PmHeld, IrqLabels, Callers, Threads, Step, Goto, Call, resources,
        irqLocals, TypeOK, ChipTypes, Active, BusOff, Stopped, Passive
<1>1. CASE ChipStopState(t)
  BY <1>1 DEF ChipStopState
<1>2. CASE ChipStopInts(t)
  <2>1. /\ chip' \in ChipTypes /\ chip'.ie = FALSE /\ chip'.cerrif = FALSE
        /\ chip'.missed = (chip.missed \/ chip.cerrif)
        /\ chip'.mode = chip.mode /\ chip'.tx = chip.tx /\ chip'.rx = chip.rx
    BY <1>2, WorkingIntsDisable DEF ChipStopInts
  <2> QED
    BY <1>2, <2>1 DEF ChipStopInts
<1>3. CASE ChipStopSleep(t)
  BY <1>3 DEF ChipStopSleep
<1> QED
  BY <1>1, <1>2, <1>3 DEF ChipStop

LEMMA RestartAsleep ==
  ASSUME NEW t \in Callers, AsleepCase, Restart(t)
  PROVE  AsleepInv'
<1> USE NoSpiFails
    DEF AsleepCase, AsleepInv, BusOffInv, Opening, OpenMasked, Restarting,
        Handling, StoppingForBusOff, LifeInv, LabelInv, Place, StartLabels,
        StopLabels, IrqHeld, OffloadHeld, XcvrHeld, RingsHeld, CandevHeld,
        PmHeld, IrqLabels, Callers, Threads, Step, Goto, Call, resources,
        irqLocals, TypeOK, ChipTypes, Active, BusOff, Stopped, Passive
<1>1. CASE RestartInts(t)
  <2>1. /\ Call(t, "rs_wake", cont[t])
        /\ chip' \in ChipTypes /\ chip'.ie = TRUE /\ chip'.cerrif = FALSE
        /\ chip'.missed = (chip.missed \/ chip.cerrif)
        /\ chip'.mode = chip.mode /\ chip'.tx = chip.tx /\ chip'.rx = chip.rx
    BY <1>1, WorkingIntsEnable DEF RestartInts
  <2> QED
    BY <1>1, <2>1 DEF RestartInts
<1>2. CASE RestartWake(t)
  BY <1>2 DEF RestartWake
<1>3. CASE RestartDone(t)
  BY <1>3 DEF RestartDone
<1> QED
  BY <1>1, <1>2, <1>3 DEF Restart

\* The handler neither enables interrupts nor starts the controller.
LEMMA IrqAsleep == ASSUME AsleepCase, Irq PROVE AsleepInv'
<1> USE NoSpiFails
    DEF AsleepCase, AsleepInv, BusOffInv, Opening, OpenMasked, Restarting,
        Handling, StoppingForBusOff, LifeInv, LabelInv, Place, StartLabels,
        StopLabels, IrqHeld, OffloadHeld, XcvrHeld, RingsHeld, CandevHeld,
        PmHeld, IrqLabels, Callers, Threads, Step, Goto, Call, resources,
        irqLocals, TypeOK, ChipTypes, Active, BusOff, Stopped, Passive
<1>1. CASE IrqFires
  BY <1>1 DEF IrqFires
<1>2. CASE IrqReadInt
  BY <1>2 DEF IrqReadInt, Asleep
<1>3. CASE IrqAck
  BY <1>3 DEF IrqAck
<1>4. CASE IrqHandlers
  BY <1>4, HandlersChip DEF IrqHandlers
<1>5. CASE IrqReadTrec
  BY <1>5 DEF IrqReadTrec
<1>6. CASE IrqChangeState
  BY <1>6 DEF IrqChangeState, AfterChange
<1>7. CASE IrqSaveBerr
  BY <1>7 DEF IrqSaveBerr
<1>8. CASE IrqBusOff
  BY <1>8 DEF IrqBusOff
<1>9. CASE IrqBerr
  BY <1>9 DEF IrqBerr
<1>10. CASE IrqCheckState
  BY <1>10 DEF IrqCheckState
<1>11. CASE IrqFail
  <2>1. /\ chip' \in ChipTypes /\ chip'.ie = FALSE /\ chip'.cerrif = FALSE
        /\ chip'.missed = (chip.missed \/ chip.cerrif)
        /\ chip'.mode = chip.mode /\ chip'.tx = chip.tx /\ chip'.rx = chip.rx
    BY <1>11, WorkingIntsDisable DEF IrqFail
  <2> QED
    BY <1>11, <2>1 DEF IrqFail
<1> QED
  BY <1>1, <1>2, <1>3, <1>4, <1>5, <1>6, <1>7, <1>8, <1>9, <1>10, <1>11 DEF Irq

LEMMA OtherAsleep ==
  ASSUME AsleepCase,
         WorkStarts \/ RestartNow \/ ChipErrorState \/ ChipEvent
           \/ UNCHANGED vars
  PROVE  AsleepInv'
<1>3. CASE ChipErrorState
  <2>1. /\ chip.mode = "normal" /\ chip'.mode = "normal" /\ chip'.ie = chip.ie
        /\ UNCHANGED <<pc, cont, queue>>
    BY <1>3 DEF ChipErrorState, AsleepCase, TypeOK, ChipTypes
  <2> QED
    BY <2>1 DEF AsleepCase, AsleepInv, Place
<1> USE NoSpiFails
    DEF AsleepCase, AsleepInv, BusOffInv, Opening, OpenMasked, Restarting,
        Handling, StoppingForBusOff, LifeInv, LabelInv, Place, StartLabels,
        StopLabels, IrqHeld, OffloadHeld, XcvrHeld, RingsHeld, CandevHeld,
        PmHeld, IrqLabels, Callers, Threads, Step, Goto, Call, resources,
        irqLocals, TypeOK, ChipTypes, Active, BusOff, Stopped, Passive
<1>1. CASE WorkStarts
  BY <1>1 DEF WorkStarts
<1>2. CASE RestartNow
  BY <1>2 DEF RestartNow
<1>4. CASE ChipEvent
  BY <1>4 DEF ChipEvent
<1>5. CASE UNCHANGED vars
  BY <1>5 DEF vars
<1> QED
  BY <1>1, <1>2, <1>3, <1>4, <1>5

-----------------------------------------------------------------------------
(* The theorems about a device whose accesses have worked so far.          *)

\* A failed access stays counted.
LEMMA FailuresStay ==
  ASSUME TypeOK, [Next]_vars, spiFails' = 0
  PROVE  spiFails = 0
<1>0. spiFails \in Nat
  BY LifeAssumption DEF TypeOK, StateTypes
<1> SUFFICES spiFails' \in {spiFails, spiFails + 1}
  BY <1>0
<1> USE IntsEnableSteps, IntsDisableSteps DEF SpiWorks, SpiFails
<1>1. CASE Open
  BY <1>1 DEF Open, OpenPm, OpenCandev, OpenRingAlloc, OpenTransceiver,
     OpenOffload, OpenRequestIrq, OpenInts, OpenQueue
<1>2. CASE Stop
  BY <1>2 DEF Stop, StopQueue, StopMask, FreeIrq, OffloadDisable,
     TransceiverDisable, RingFree, CloseCandev, PmPut
<1>3. CASE Irq
  BY <1>3 DEF Irq, IrqFires, IrqReadInt, IrqAck, IrqHandlers, IrqReadTrec,
     IrqChangeState, IrqSaveBerr, IrqBusOff, IrqBerr, IrqCheckState, IrqFail
<1>4. ASSUME NEW t \in Callers, ChipStart(t)
      PROVE  spiFails' \in {spiFails, spiFails + 1}
  BY <1>4 DEF ChipStart, ChipSoftreset, Configure, ChipRxIntEnable, RingInit,
     ChipFifoInit, ChipSetNormalMode, StartFails
<1>5. ASSUME NEW t \in Callers, Restart(t)
      PROVE  spiFails' \in {spiFails, spiFails + 1}
  BY <1>5 DEF Restart, RestartInts, RestartWake, RestartDone
<1>6. ASSUME NEW t \in Threads, ChipStop(t)
      PROVE  spiFails' \in {spiFails, spiFails + 1}
  BY <1>6 DEF ChipStop, ChipStopState, ChipStopInts, ChipStopSleep
<1>7. CASE WorkStarts \/ RestartNow \/ ChipErrorState \/ ChipEvent
             \/ UNCHANGED vars
  BY <1>7 DEF WorkStarts, RestartNow, ChipErrorState, ChipEvent, vars
<1> QED
  BY <1>1, <1>2, <1>3, <1>4, <1>5, <1>6, <1>7 DEF Next, Rtnl

LEMMA WorkingStep ==
  ASSUME TypeOK, LifeInv, WorkingInv, [Next]_vars
  PROVE  WorkingInv'
<1> SUFFICES ASSUME spiFails' = 0
             PROVE  /\ BusOffInv' /\ ModeInv' /\ TrackInv' /\ UnseenInv'
                    /\ ~AutoRestart /\ ~NoSleep => AsleepInv'
  BY DEF WorkingInv
<1>1. spiFails = 0
  BY FailuresStay
<1>2. BusOffInv'
  BY <1>1, OpenBusOff, StopBusOff, StartBusOff, ChipStopBusOff, RestartBusOff,
     IrqBusOffKept, OtherBusOff DEF WorkingInv, BusOffCase, Next, Rtnl
<1>3. ModeInv'
  BY <1>1, OpenMode, StopMode, StartMode, ChipStopMode, RestartMode, IrqMode,
     OtherMode DEF WorkingInv, ModeCase, Next, Rtnl
<1>4. TrackInv'
  BY <1>1, OpenTrack, StopTrack, StartTrack, ChipStopTrack, RestartTrack,
     IrqTrack, OtherTrack DEF WorkingInv, TrackCase, ModeCase, Next, Rtnl
<1>5. ~AutoRestart /\ ~NoSleep => AsleepInv'
  BY <1>1, OpenAsleep, StopAsleep, StartAsleep, ChipStopAsleep, RestartAsleep,
     IrqAsleep, OtherAsleep DEF WorkingInv, AsleepCase, Next, Rtnl
<1>6. UnseenInv'
  BY <1>1, OpenUnseen, StopUnseen, StartUnseen, ChipStopUnseen, RestartUnseen,
     IrqUnseen, OtherUnseen DEF WorkingInv, UnseenCase, Next, Rtnl
<1> QED
  BY <1>2, <1>3, <1>4, <1>5, <1>6

\* The inductive invariant of the runs life_manual and life_auto: who holds
\* what, and until an access fails, how the interrupt handler, the restart and
\* ndo_stop share the controller.
THEOREM Induction == Spec => []InductiveInv
<1>1. Init => WorkingInv
  BY BusOffInit, ModeInit, TrackInit, UnseenInit, AsleepInit DEF WorkingInv
<1>2. TypeOK /\ LifeInv /\ WorkingInv /\ [Next]_vars => WorkingInv'
  BY WorkingStep
<1> QED
  BY <1>1, <1>2, TypeCorrect, LifeInvariant, PTL DEF Spec, InductiveInv

\* The state of an interface that is up is that of its controller whenever the
\* handler has nothing left to do, up to the first access that fails, with and
\* without restarts by the work and with and without dv_noslp: but for the
\* change whose CERRIF the enabling of the interrupts cleared, after which it is
\* error active until the next one.
THEOREM StateFollows == Spec => []StateTracksChip
<1>1. InductiveInv => StateTracksChip
  BY DEF InductiveInv, WorkingInv, StateTracksChip, HandlerDone, ShowsChip,
     UnseenInv, TrackInv, Started, Follows, Configuring,
     BusOffInv, Restarting, LifeInv, LabelInv, Place, StartLabels, StopLabels,
     IrqHeld, Callers
<1> QED
  BY <1>1, Induction, PTL

\* A closed interface leaves its controller asleep with its interrupts masked,
\* up to the first access that fails: only restarts by hand, since the run
\* life_restart_stop shows the work waking the controller of a closed
\* interface, and a driver that lets the controller sleep.
THEOREM AsleepAfterClose ==
  ASSUME ~AutoRestart, ~NoSleep
  PROVE  Spec => []AsleepWhenDown
<1>1. InductiveInv => AsleepWhenDown
  BY DEF InductiveInv, WorkingInv, AsleepWhenDown, AsleepInv, Place,
     StartLabels, StopLabels, IrqHeld
<1> QED
  BY <1>1, Induction, PTL

\* "In Bus Off we completely shut down the controller", and a restart is
\* scheduled if there is to be one: this holds up to the first access that
\* fails, if the controller may sleep.  The run life_busoff_spi shows it
\* violated after a failing access; with dv_noslp the request for sleep mode
\* does nothing.
THEOREM ShutDownUntilFailure ==
  ASSUME ~NoSleep
  PROVE  Spec => [](spiFails = 0 => BusOffShutDown)
<1>1. InductiveInv => (spiFails = 0 => BusOffShutDown)
  BY DEF InductiveInv, WorkingInv, LifeInv, LabelInv, BusOffInv,
     BusOffShutDown, Quiet, Restarting, ShutDown, StoppingForBusOff, Place,
     StartLabels, StopLabels,
     IrqHeld
<1> QED
  BY <1>1, Induction, PTL

\* With an SPI bus that works that is the comment as it stands
\* (BusOffShutDown of run life_auto).
THEOREM BusOffStops ==
  ASSUME MaxSpiFails = 0, ~NoSleep
  PROVE  Spec => []BusOffShutDown
<1>1. TypeOK => spiFails = 0
  BY DEF TypeOK, StateTypes
<1> QED
  BY <1>1, TypeCorrect, ShutDownUntilFailure, PTL
=============================================================================
