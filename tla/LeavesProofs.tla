---------------------------- MODULE LeavesProofs ----------------------------
(***************************************************************************)
(* Theorems about the components that share no state with the others: the  *)
(* test modules, the RAM layout and the register map.                      *)
(***************************************************************************)
EXTENDS McpRegmap, McpLayout, IrqTests, TLAPS

-----------------------------------------------------------------------------
(* IrqTests.                                                               *)

\* Only a GPIO that was kept is still requested.
OnlyKept == gpio => "kept" \in slips

\* What the module holds at each place of its probe and remove.
PinInv ==
  /\ pos \in {"unloaded", "unbound", "request", "direction", "to_irq",
              "platform", "irq", "err_free_gpio", "bound", "free_gpio", "proc"}
  /\ handler => pos = "bound" /\ irq /\ (direct \/ pin # "none")
  /\ proc => pos \in {"bound", "free_gpio", "proc"} /\ module = "intltest"
  /\ pos \in {"unloaded", "unbound", "request", "platform", "proc"} => OnlyKept
  /\ pos \in {"direction", "to_irq"} => gpio
  /\ pos \in {"request", "direction", "to_irq"} => pin # "none"
  /\ pos = "platform" => pin = "none"
  /\ pos \in {"irq", "bound"} => irq /\ (pin # "none" => gpio)
  /\ pin = "none" => OnlyKept

LEMMA PinInit == IrqTestInit => PinInv
  BY DEF IrqTestInit, PinInv, OnlyKept

LEMMA PinStep ==
  ASSUME PinInv, [IrqTestNext]_irqTestVars
  PROVE  PinInv'
<1> USE DEF PinInv, OnlyKept, At, Slip, GpioFree
<1>1. CASE InsMod
  BY <1>1 DEF InsMod, TestModules
<1>2. CASE FindPin
  BY <1>2 DEF FindPin
<1>3. CASE GpioRequest
  BY <1>3 DEF GpioRequest
<1>4. CASE GpioDirection
  BY <1>4 DEF GpioDirection
<1>5. CASE GpioToIrq
  BY <1>5 DEF GpioToIrq
<1>6. CASE PlatformGetIrq
  BY <1>6 DEF PlatformGetIrq
<1>7. CASE RequestIrq
  <2>1. UNCHANGED <<module, pin, irq, gpio, slips>> /\ pos = "irq" /\ irq
    BY <1>7 DEF RequestIrq
  <2>2. CASE pos' = "bound" /\ handler'
    <3>1. direct' \/ pin # "none"
      BY ZenonT(30), <1>7, <2>2 DEF RequestIrq
    <3>2. proc' => module = "intltest"
      BY ZenonT(30), <1>7 DEF RequestIrq
    <3> QED
      BY <2>1, <2>2, <3>1, <3>2
  <2>3. CASE pos' = "err_free_gpio" /\ ~handler'
    <3>1. ~proc'
      BY ZenonT(30), <1>7, <2>3 DEF RequestIrq
    <3> QED
      BY <2>1, <2>3, <3>1
  <2>4. ~handler
    BY <2>1
  <2>5. \/ pos' = "bound" /\ handler'
        \/ pos' = "err_free_gpio" /\ ~handler'
    BY ZenonT(30), <1>7, <2>4 DEF RequestIrq
  <2> QED
    BY <2>2, <2>3, <2>5
<1>8. CASE ErrFreeGpio
  BY <1>8 DEF ErrFreeGpio
<1>9. CASE FreeIrq
  BY <1>9 DEF FreeIrq
<1>10. CASE RemoveGpio
  BY <1>10 DEF RemoveGpio
<1>11. CASE ProcClean
  BY <1>11 DEF ProcClean
<1>12. CASE RmMod
  BY <1>12 DEF RmMod
<1>13. CASE UNCHANGED irqTestVars
  BY <1>13 DEF irqTestVars
<1> QED
  BY <1>1, <1>2, <1>3, <1>4, <1>5, <1>6, <1>7, <1>8, <1>9, <1>10, <1>11,
     <1>12, <1>13 DEF IrqTestNext

\* Wherever a probe fails, and after each remove, a module holds nothing but a
\* GPIO it was known to keep, and a handler never outlives its GPIO.
THEOREM PinsGivenBack == IrqTestSpec => []PinsReturned
<1>1. PinInv /\ [IrqTestNext]_irqTestVars => PinInv'
  BY PinStep
<1>2. PinInv => PinsReturned
  BY DEF PinInv, PinsReturned, OnlyKept
<1> QED
  BY PinInit, <1>1, <1>2, PTL DEF IrqTestSpec

-----------------------------------------------------------------------------
(* McpLayout.                                                              *)

\* The rings and FIFOs a control mode leads to.
RingsOf(m) ==
  IF FdLayout(m)
    THEN [tx |-> 4, txsize |-> 72, rx |-> 16, rxsize |-> 76]
    ELSE [tx |-> 8, txsize |-> 16, rx |-> 32, rxsize |-> 20]

\* A ring allocated for the control mode, with the given addresses.
Rings(r, txbase, rxbase) ==
  [tx |-> r.tx, txsize |-> r.txsize, rx |-> r.rx, rxsize |-> r.rxsize,
   txbase |-> txbase, rxbase |-> rxbase]

RingBases(r) ==
  LET base == TxBase(r.tx) IN Rings(r, base, base + r.txsize * r.tx)

Fifos(m) ==
  LET r == RingsOf(m)
      pay == IF FdLayout(m) THEN 64 ELSE 8
  IN [tef |-> r.tx, tx |-> r.tx, txpay |-> pay, rx |-> r.rx, rxpay |-> pay]

\* The rings are those of the control mode, which cannot change while they
\* exist; once their addresses are known, the FIFOs are not set up or are
\* those of the control mode.
LayoutInv ==
  \/ ring = NoRing
  \/ ring = Rings(RingsOf(ctrlmode), 0, 0)
  \/ /\ ring = RingBases(RingsOf(ctrlmode))
     /\ fifo \in {NoFifo, Fifos(ctrlmode)}

LEMMA RxObjNums == RxObjNum(22) = 16 /\ RxObjNum(91) = 32
<1>1. {k \in {1, 2, 4, 8, 16, 32} : k <= 22} = {1, 2, 4, 8, 16}
  OBVIOUS
<1>2. {k \in {1, 2, 4, 8, 16, 32} : k <= 91} = {1, 2, 4, 8, 16, 32}
  OBVIOUS
<1> QED
  BY <1>1, <1>2 DEF RxObjNum, Max

LEMMA LayoutStart == LayoutInit => LayoutInv
  BY DEF LayoutInit, LayoutInv

LEMMA LayoutStep ==
  ASSUME LayoutInv, [LayoutNext]_layoutVars
  PROVE  LayoutInv'
<1> USE DEF LayoutInv
<1>1. CASE Changelink
  BY <1>1 DEF Changelink
<1>2. CASE RingAlloc
  <2>1. UNCHANGED ctrlmode /\ RingsOf(ctrlmode)' = RingsOf(ctrlmode)
    BY <1>2 DEF RingAlloc, RingsOf, FdLayout
  <2>2. ring' = Rings(RingsOf(ctrlmode), 0, 0)
    <3>1. CASE FdLayout(ctrlmode)
      <4>1. 1712 \div 76 = 22 /\ 2048 - 4 * (12 + 72) = 1712
        OBVIOUS
      <4>2. ring' = [NoRing EXCEPT !.tx = 4, !.txsize = 72,
                                   !.rx = RxObjNum(22), !.rxsize = 76]
        BY <1>2, <3>1, <4>1 DEF RingAlloc, MCP251XFD_TX_OBJ_NUM_CANFD,
           MCP251XFD_RAM_SIZE, TefObjSize
      <4>3. ring' = [tx |-> 4, txsize |-> 72, rx |-> 16, rxsize |-> 76,
                     txbase |-> 0, rxbase |-> 0]
        BY <4>2, RxObjNums DEF NoRing
      <4>4. RingsOf(ctrlmode) = [tx |-> 4, txsize |-> 72, rx |-> 16,
                                 rxsize |-> 76]
        BY <3>1 DEF RingsOf
      <4> QED
        BY <4>3, <4>4 DEF Rings
    <3>2. CASE ~FdLayout(ctrlmode)
      <4>1. 1824 \div 20 = 91 /\ 2048 - 8 * (12 + 16) = 1824
        OBVIOUS
      <4>2. ring' = [NoRing EXCEPT !.tx = 8, !.txsize = 16,
                                   !.rx = RxObjNum(91), !.rxsize = 20]
        BY <1>2, <3>2, <4>1 DEF RingAlloc, MCP251XFD_TX_OBJ_NUM_CAN,
           MCP251XFD_RAM_SIZE, TefObjSize
      <4>3. ring' = [tx |-> 8, txsize |-> 16, rx |-> 32, rxsize |-> 20,
                     txbase |-> 0, rxbase |-> 0]
        BY <4>2, RxObjNums DEF NoRing
      <4>4. RingsOf(ctrlmode) = [tx |-> 8, txsize |-> 16, rx |-> 32,
                                 rxsize |-> 20]
        BY <3>2 DEF RingsOf
      <4> QED
        BY <4>3, <4>4 DEF Rings
    <3> QED
      BY <3>1, <3>2
  <2> QED
    BY <2>1, <2>2 DEF Rings
<1>3. CASE RingInit
  <2>1. UNCHANGED ctrlmode /\ RingsOf(ctrlmode)' = RingsOf(ctrlmode)
    BY <1>3 DEF RingInit, RingsOf, FdLayout
  <2>2. PICK tb, rb : ring = Rings(RingsOf(ctrlmode), tb, rb)
    BY <1>3 DEF RingInit, RingBases
  <2>3. ring' = RingBases(RingsOf(ctrlmode))
    BY <1>3, <2>2 DEF RingInit, RingBases, Rings
  <2>4. fifo' = NoFifo
    BY <1>3 DEF RingInit
  <2> QED
    BY <2>1, <2>3, <2>4 DEF RingBases, Rings
<1>4. CASE ChipFifoInit
  <2>1. /\ UNCHANGED <<ctrlmode, ring>>
        /\ ring # NoRing /\ ring.rxbase # 0
    BY <1>4 DEF ChipFifoInit
  <2>2. ring = RingBases(RingsOf(ctrlmode))
    BY <2>1 DEF Rings
  <2>3. fifo' = Fifos(ctrlmode)
    BY <1>4, <2>2 DEF ChipFifoInit, RingBases, Rings, RingsOf, Fifos
  <2> QED
    BY <2>1, <2>2, <2>3 DEF RingsOf, FdLayout, RingBases, Fifos
<1>5. CASE RingFree
  BY <1>5 DEF RingFree
<1>6. CASE UNCHANGED layoutVars
  BY <1>6 DEF layoutVars, RingsOf, FdLayout, RingBases, Fifos
<1> QED
  BY <1>1, <1>2, <1>3, <1>4, <1>5, <1>6 DEF LayoutNext

\* With the rings of a control mode the addresses agree.
LEMMA LayoutAgrees ==
  ASSUME ring = RingBases(RingsOf(ctrlmode)), fifo = Fifos(ctrlmode)
  PROVE  AddressesAgree
<1> USE DEF AddressesAgree, RingBases, Rings, RingsOf, Fifos, TxBase, ChipTef,
            ChipTx, ChipRx, ChipTefSize, ChipTxSize, ChipRxSize, TefObjAddr,
            TxObjAddr, RxObjAddr, TxNrByAddr, TefObjSize, MCP251XFD_RAM_START,
            MCP251XFD_RAM_SIZE
<1>1. CASE FdLayout(ctrlmode)
  BY <1>1
<1>2. CASE ~FdLayout(ctrlmode)
  BY <1>2
<1> QED
  BY <1>1, <1>2

\* In every control mode, however often it changes between two openings of the
\* interface, the controller has each object where the driver looks for it.
THEOREM LayoutsAgree == LayoutSpec => []AddressesAgree
<1>1. LayoutInv => AddressesAgree
  <2>1. CASE ring = NoRing
    BY <2>1 DEF NoRing, AddressesAgree
  <2>2. CASE ring = Rings(RingsOf(ctrlmode), 0, 0)
    BY <2>2 DEF Rings, AddressesAgree
  <2>3. CASE fifo = NoFifo
    BY <2>3 DEF AddressesAgree
  <2> QED
    BY <2>1, <2>2, <2>3, LayoutAgrees DEF LayoutInv
<1>2. LayoutInv /\ [LayoutNext]_layoutVars => LayoutInv'
  BY LayoutStep
<1> QED
  BY LayoutStart, <1>1, <1>2, PTL DEF LayoutSpec

-----------------------------------------------------------------------------
(* McpRegmap.                                                              *)

\* A call as it travels.
Calls ==
  [pc : {"idle", "read", "write", "done"},
   op : {"none", "read", "update", "write"},
   mask : SUBSET (0..7), val : SUBSET (0..7), orig : SUBSET (0..7),
   tries : Nat, err : BOOLEAN]

\* What the controller may have done to the register since the call began.
Drift ==
  /\ changed \subseteq Layout[reg].ro \cup Flags
  /\ \A b \in Bits : b \notin changed => (b \in cell <=> b \in before)
  /\ \A b \in changed \cap Flags : b \in cell

\* What the driver asks for, and which bits share a byte with it.
Asked ==
  /\ call.op = "update" =>
       /\ call.mask \cap Layout[reg].ro = {} /\ Flags \subseteq call.mask
       /\ ~ReadsBack => \A b \in Bits \ (call.mask \cup Layout[reg].ro) :
                          Byte(b) \notin MaskBytes(call.mask)
  /\ call.op = "write" =>
       call.mask = Bits \ Layout[reg].ro /\ call.val \cap Flags = {}

\* An update that goes back over what it read has read it right.
ReadBack ==
  call.op = "update" /\ (map = "crc" \/ ReadsBack) /\ ~lost =>
    \A b \in Bits \ changed : b \in call.orig <=> b \in before

RegInv ==
  /\ map \in {"crc", "nocrc"} /\ reg \in Registers /\ call \in Calls
  /\ cell \subseteq Bits
  /\ call.pc = "read" => Drift /\ Asked /\ call.op \in {"read", "update"}
  /\ call.pc = "write" =>
       Drift /\ Asked /\ ReadBack /\ call.op \in {"update", "write"}
  /\ ReadSound /\ UpdateExact

LEMMA BitFacts ==
  ASSUME reg \in Registers
  PROVE  /\ Bits \subseteq 0..7
         /\ Layout[reg].ro \cap Flags = {} /\ Layout[reg].rw \cap Flags = {}
         /\ Layout[reg].ro \cap Layout[reg].rw = {}
<1> USE DEF Layout, Bits, Flags
<1>1. CASE reg = "CON"
  BY <1>1
<1>2. CASE reg = "FLTCON"
  BY <1>2
<1>3. CASE reg = "ECCCON"
  BY <1>3
<1>4. CASE reg = "OSC"
  BY <1>4
<1>5. CASE reg = "INT"
  BY <1>5
<1>6. CASE reg = "FIFOSTA"
  BY <1>6
<1>7. CASE reg = "ECCSTAT"
  BY <1>7
<1>8. CASE reg = "CRC"
  BY <1>8
<1> QED
  BY <1>1, <1>2, <1>3, <1>4, <1>5, <1>6, <1>7, <1>8 DEF Registers

\* Every mask of the driver leaves the status bits alone and takes in all the
\* flags, and where the register is not read back no other bit of the driver
\* shares a byte with the mask.
LEMMA UpdateFacts ==
  ASSUME reg \in Registers, NEW u \in Updates
  PROVE  /\ u[1] \in SUBSET (0..7) /\ u[2] \in SUBSET (0..7)
         /\ u[1] \cap Layout[reg].ro = {} /\ Flags \subseteq u[1]
         /\ ~ReadsBack => \A b \in Bits \ (u[1] \cup Layout[reg].ro) :
                            Byte(b) \notin MaskBytes(u[1])
<1> USE DEF Layout, Bits, Flags, Updates, ReadsBack
<1>1. CASE reg = "CON"
  BY <1>1
<1>2. CASE reg = "FLTCON"
  BY <1>2 DEF Byte, MaskBytes
<1>3. CASE reg = "ECCCON"
  BY <1>3
<1>4. CASE reg = "OSC"
  BY <1>4
<1>5. CASE reg = "INT"
  BY <1>5 DEF Byte, MaskBytes
<1>6. CASE reg = "FIFOSTA"
  BY <1>6
<1>7. CASE reg = "ECCSTAT"
  BY <1>7 DEF Byte, MaskBytes
<1>8. CASE reg = "CRC"
  BY <1>8 DEF Byte, MaskBytes
<1> QED
  BY <1>1, <1>2, <1>3, <1>4, <1>5, <1>6, <1>7, <1>8 DEF Registers

\* A bit of the mask lies in a byte of the mask.
LEMMA MaskFacts ==
  ASSUME NEW mask \in SUBSET (0..7), NEW b \in mask
  PROVE  Byte(b) \in MaskBytes(mask)
<1>1. Byte(b) \in 0..3
  BY DEF Byte
<1> QED
  BY <1>1 DEF MaskBytes

\* The terms that depend on the register of the call.
LEMMA SameReg ==
  ASSUME reg' = reg
  PROVE  /\ Bits' = Bits /\ Flags' = Flags /\ ReadsBack' = ReadsBack
         /\ Layout[reg]' = Layout[reg]
  BY DEF Bits, Flags, ReadsBack

LEMMA RegStart == RegInit => RegInv
<1> SUFFICES ASSUME RegInit PROVE RegInv
  OBVIOUS
<1>1. map \in {"crc", "nocrc"}
  BY DEF RegInit, MapReg
<1>2. reg \in Registers /\ call \in Calls /\ call.pc = "idle" /\ cell = {}
  BY DEF RegInit, Registers, Layout, Calls, Idle
<1> QED
  BY <1>1, <1>2 DEF RegInv, ReadSound, UpdateExact

\* A call begins with the register untouched.
LEMMA RegCalls ==
  ASSUME RegInv, RegRead \/ RegUpdateBits \/ RegWrite
  PROVE  RegInv'
<1>1. /\ UNCHANGED <<map, reg, cell>> /\ changed' = {} /\ before' = cell
  BY DEF RegRead, RegUpdateBits, RegWrite, Call
<1>2. map' \in {"crc", "nocrc"} /\ reg' \in Registers /\ cell' \subseteq Bits'
  BY <1>1, SameReg DEF RegInv
<1>3. Drift'
  BY <1>1 DEF Drift
<1>4. CASE RegRead
  <2>1. call' \in Calls /\ call'.pc = "read" /\ call'.op = "read"
    BY <1>4 DEF RegRead, Call, Calls, Idle
  <2> QED
    BY <2>1, <1>2, <1>3 DEF RegInv, Asked, ReadSound, UpdateExact
<1>5. CASE RegUpdateBits
  <2>1. PICK u \in Updates :
          Call([Idle EXCEPT !.pc = IF map = "crc" \/ ReadsBack THEN "read"
                                                               ELSE "write",
                            !.op = "update", !.mask = u[1], !.val = u[2]])
    BY <1>5 DEF RegUpdateBits
  <2>2. /\ call' \in Calls /\ call'.op = "update" /\ call'.mask = u[1]
        /\ call'.pc = IF map = "crc" \/ ReadsBack THEN "read" ELSE "write"
    BY <2>1, UpdateFacts DEF Call, Calls, Idle, RegInv
  <2>3. Asked'
    BY <1>1, <2>2, SameReg, UpdateFacts DEF Asked, RegInv, MaskBytes, Byte
  <2>4. call'.pc = "write" => ReadBack'
    BY <1>1, <2>2, SameReg DEF ReadBack
  <2> QED
    BY <2>2, <2>3, <2>4, <1>2, <1>3 DEF RegInv, ReadSound, UpdateExact
<1>6. CASE RegWrite
  <2>1. PICK v \in SUBSET Layout[reg].rw :
          Call([Idle EXCEPT !.pc = "write", !.op = "write",
                            !.mask = Bits \ Layout[reg].ro, !.val = v])
    BY <1>6 DEF RegWrite
  <2>2. v \in SUBSET (0..7) /\ v \cap Flags = {}
    BY BitFacts DEF RegInv, Bits
  <2>3. /\ call' \in Calls /\ call'.pc = "write" /\ call'.op = "write"
        /\ call'.mask = Bits \ Layout[reg].ro /\ call'.val = v
    BY <2>1, <2>2, BitFacts DEF Call, Calls, Idle, RegInv
  <2>4. Asked' /\ ReadBack'
    BY <1>1, <2>2, <2>3, SameReg DEF Asked, ReadBack
  <2> QED
    BY <2>3, <2>4, <1>2, <1>3 DEF RegInv, ReadSound, UpdateExact
<1> QED
  BY <1>4, <1>5, <1>6

\* What a transfer of the data of a read does to the call.
LEMMA ReadSteps ==
  ASSUME RegInv, ReadTransfer
  PROVE  /\ call' \in Calls
         /\ UNCHANGED <<call.op, call.mask, call.val>>
         /\ \/ call'.pc = "read"
            \/ call'.pc = "done" /\ call'.err
            \/ /\ call'.pc = IF call.op = "read" THEN "done" ELSE "write"
               /\ call'.orig = cell \/ (reg = "OSC" /\ lost')
<1>1. call.pc = "read" /\ call \in Calls /\ cell \in SUBSET (0..7)
  BY BitFacts DEF RegInv, ReadTransfer
<1>2. ASSUME NEW v \in SUBSET (0..7), Got(v)
      PROVE  /\ call' \in Calls /\ UNCHANGED <<call.op, call.mask, call.val>>
             /\ call'.pc = IF call.op = "read" THEN "done" ELSE "write"
             /\ call'.orig = v
  BY <1>1, <1>2 DEF Got, Calls
<1>3. ASSUME Return(TRUE)
      PROVE  /\ call' \in Calls /\ UNCHANGED <<call.op, call.mask, call.val>>
             /\ call'.pc = "done" /\ call'.err
  BY <1>1, <1>3 DEF Return, Calls
<1>4. ASSUME call' = [call EXCEPT !.tries = @ + 1]
      PROVE  /\ call' \in Calls /\ UNCHANGED <<call.op, call.mask, call.val>>
             /\ call'.pc = "read"
  BY <1>1, <1>4 DEF Calls
<1>5. CASE Got(cell)
  BY <1>1, <1>2, <1>5
<1>6. CASE Return(TRUE)
  BY <1>3, <1>6
<1>7. CASE /\ \E v \in SUBSET Bits : v # cell /\ BadCrc(v)
           /\ lost' = (lost \/ reg = "OSC")
  <2>1. PICK v \in SUBSET Bits : BadCrc(v)
    BY <1>7
  <2>2. v \in SUBSET (0..7)
    BY BitFacts DEF RegInv
  <2>3. reg = "OSC" => lost'
    BY <1>7, Zenon
  <2> QED
    BY <2>1, <2>2, <2>3, <1>2, <1>3, <1>4 DEF BadCrc
<1> QED
  BY <1>5, <1>6, <1>7 DEF ReadTransfer

LEMMA RegReads ==
  ASSUME RegInv, ReadTransfer
  PROVE  RegInv'
<1>1. /\ UNCHANGED <<map, reg, cell, before, changed>> /\ call.pc = "read"
  BY DEF ReadTransfer
<1>2. Drift /\ Asked /\ call.op \in {"read", "update"}
  BY <1>1 DEF RegInv
<1>3. Drift' /\ Asked' /\ call'.op \in {"read", "update"}
  BY <1>1, <1>2, ReadSteps, SameReg DEF Drift, Asked, MaskBytes, Byte
<1>4. call'.pc = "write" => ReadBack' /\ call'.op = "update"
  BY <1>1, <1>2, ReadSteps, SameReg DEF ReadBack, Drift, RegInv
<1>5. ReadSound'
  BY <1>1, <1>2, ReadSteps, SameReg DEF ReadSound
<1>6. UpdateExact'
  BY <1>1, <1>2, ReadSteps DEF UpdateExact
<1> QED
  BY <1>1, <1>3, <1>4, <1>5, <1>6, ReadSteps, SameReg DEF RegInv

\* What a write leaves in the register, for each bit but those the controller
\* changed during the call.
LEMMA StoredExact ==
  ASSUME RegInv, call.pc = "write", ~lost,
         NEW b \in Bits, b \notin Flags, b \notin changed
  PROVE  b \in Stored <=> IF b \in call.mask THEN b \in call.val
                                             ELSE b \in before
<1>1. Drift /\ Asked /\ ReadBack /\ call.op \in {"update", "write"}
  BY DEF RegInv
<1>2. /\ reg \in Registers /\ map \in {"crc", "nocrc"}
      /\ call.mask \in SUBSET (0..7)
  BY DEF RegInv, Calls
<1>3. b \in cell <=> b \in before
  BY <1>1 DEF Drift
<1>4. Byte(b) \in 0..3
  BY <1>2, BitFacts DEF Byte
<1>5. CASE b \in Layout[reg].ro
  BY <1>1, <1>3, <1>5 DEF Stored, Asked
<1>6. CASE b \notin Layout[reg].ro /\ b \in call.mask
  <2>1. Byte(b) \in Written
    BY <1>2, <1>4, <1>6, MaskFacts DEF Written
  <2> QED
    BY <1>6, <2>1 DEF Stored, Modified
<1>7. CASE b \notin Layout[reg].ro /\ b \notin call.mask
  <2>1. call.op = "update"
    BY <1>1, <1>7 DEF Asked
  <2>2. CASE Byte(b) \notin Written
    BY <1>3, <1>7, <2>2 DEF Stored
  <2>3. CASE Byte(b) \in Written
    <3>1. map = "crc" \/ ReadsBack
      BY <1>1, <1>2, <1>7, <2>1, <2>3 DEF Asked, Written
    <3>2. b \in call.orig <=> b \in before
      BY <1>1, <2>1, <3>1 DEF ReadBack
    <3> QED
      BY <1>7, <2>3, <3>2 DEF Stored, Modified
  <2> QED
    BY <2>2, <2>3
<1> QED
  BY <1>5, <1>6, <1>7

\* What it leaves in the interrupt flags.
LEMMA StoredFlags ==
  ASSUME RegInv, call.pc = "write", NEW b \in Flags
  PROVE  /\ b \in Bits /\ b \in call.mask
         /\ b \in cell <=> b \in before \cup changed
         /\ b \in Stored <=> b \in call.val /\ b \in cell
<1>1. Drift /\ Asked /\ call.op \in {"update", "write"}
  BY DEF RegInv
<1>2. /\ reg \in Registers /\ map \in {"crc", "nocrc"}
      /\ call.mask \in SUBSET (0..7)
  BY DEF RegInv, Calls
<1>3. b \in Bits /\ b \notin Layout[reg].ro
  BY <1>2, BitFacts DEF Bits, Flags
<1>4. b \in call.mask
  BY <1>1, <1>3 DEF Asked
<1>5. Byte(b) \in Written
  <2>1. Byte(b) \in 0..3
    BY <1>2, <1>3, BitFacts DEF Byte
  <2> QED
    BY <1>2, <1>4, <2>1, MaskFacts DEF Written
<1>6. b \in cell <=> b \in before \cup changed
  BY <1>1, <1>3 DEF Drift
<1>7. b \in Stored <=> b \in Modified /\ b \in cell
  BY <1>3, <1>5 DEF Stored
<1> QED
  BY <1>3, <1>4, <1>6, <1>7 DEF Modified

LEMMA RegWrites ==
  ASSUME RegInv, WriteTransfer
  PROVE  RegInv'
<1>1. UNCHANGED <<map, reg, before, changed>> /\ call.pc = "write"
  BY DEF WriteTransfer
<1>2. /\ Drift /\ Asked /\ ReadBack /\ call.op \in {"update", "write"}
      /\ reg \in Registers /\ call \in Calls /\ cell \subseteq Bits
  BY <1>1 DEF RegInv
<1>3. cell' = cell \/ cell' = Stored
  BY DEF WriteTransfer
<1>4. cell' \subseteq Bits'
  BY <1>1, <1>2, <1>3, SameReg DEF Stored
<1>5. /\ call' \in Calls /\ call'.pc = "done"
      /\ UNCHANGED <<call.op, call.mask, call.val>>
  <2>1. ASSUME NEW err \in BOOLEAN, Return(err)
        PROVE  /\ call' \in Calls /\ call'.pc = "done"
               /\ UNCHANGED <<call.op, call.mask, call.val>>
    BY <1>2, <2>1 DEF Return, Calls
  <2>2. Return(TRUE) \/ Return(FALSE)
    BY DEF WriteTransfer
  <2> QED
    BY <2>1, <2>2
<1>6. ReadSound'
  BY <1>2, <1>5 DEF ReadSound
<1>7. UpdateExact'
  <2> SUFFICES ASSUME ~call'.err, ~lost', NEW b \in Bits
      PROVE  IF b \in Flags
               THEN b \in cell' <=>
                      /\ b \in before \cup changed
                      /\ b \in call.mask /\ b \notin call.val
                           => b \in changed /\ b \in cell'
               ELSE b \notin changed =>
                      (b \in cell' <=> IF b \in call.mask THEN b \in call.val
                                                          ELSE b \in before)
    BY <1>1, <1>5, SameReg DEF UpdateExact
  <2>1. ~Return(TRUE)
    BY <1>2 DEF Return, Calls
  <2>2. ~lost /\ (cell' = Stored \/ (NothingToDo /\ cell' = cell))
    <3>1. \/ NothingToDo /\ UNCHANGED <<cell, lost>>
          \/ cell' = Stored /\ UNCHANGED lost
          \/ lost' = TRUE
      BY <2>1, Zenon DEF WriteTransfer
    <3>2. CASE NothingToDo /\ UNCHANGED <<cell, lost>>
      BY <3>2, Zenon
    <3>3. CASE cell' = Stored /\ UNCHANGED lost
      BY <3>3, Zenon
    <3> QED
      BY <3>1, <3>2, <3>3, Zenon
  <2>3. CASE cell' = Stored
    BY <1>1, <2>2, <2>3, StoredExact, StoredFlags
  <2>4. CASE NothingToDo /\ cell' = cell
    <3>1. /\ map = "crc" /\ call.op = "update"
          /\ b \in call.mask => (b \in call.orig <=> b \in call.val)
      BY <2>4 DEF NothingToDo, Modified
    <3>2. b \notin changed =>
            (b \in call.orig <=> b \in before) /\ (b \in cell <=> b \in before)
      BY <1>2, <2>2, <3>1 DEF ReadBack, Drift
    <3> QED
      BY <1>1, <2>4, <3>1, <3>2, StoredFlags
  <2> QED
    BY <2>2, <2>3, <2>4
<1> QED
  BY <1>1, <1>4, <1>5, <1>6, <1>7, SameReg DEF RegInv

\* The controller changes status bits and raises flags, and nothing else.
LEMMA RegController ==
  ASSUME RegInv, StatusChanges \/ FlagRises
  PROVE  RegInv'
<1>1. /\ UNCHANGED <<map, reg, call, before, lost>>
      /\ call.pc \in {"read", "write"}
  BY DEF StatusChanges, FlagRises
<1>2. Drift /\ Asked /\ cell \subseteq Bits /\ reg \in Registers
  BY <1>1 DEF RegInv
<1>3. PICK b \in Layout[reg].ro \cup Flags :
        /\ changed' = changed \cup {b}
        /\ cell' = cell \cup {b} \/ (b \notin Flags /\ cell' = cell \ {b})
  BY <1>2, BitFacts DEF StatusChanges, FlagRises
<1>4. Drift' /\ Asked' /\ cell' \subseteq Bits'
  <2>1. b \in Bits
    BY <1>3 DEF Bits, Flags
  <2>2. cell' \subseteq Bits' /\ Drift'
    BY <1>1, <1>2, <1>3, <2>1, SameReg DEF Drift
  <2> QED
    BY <1>1, <1>2, <2>2, SameReg DEF Asked, MaskBytes, Byte
<1>5. ReadBack => ReadBack'
  BY <1>1, <1>3, SameReg DEF ReadBack
<1>6. ReadSound' /\ UpdateExact'
  BY <1>1 DEF ReadSound, UpdateExact
<1> QED
  BY <1>1, <1>4, <1>5, <1>6, SameReg DEF RegInv

LEMMA RegStep ==
  ASSUME RegInv, [RegNext]_regVars
  PROVE  RegInv'
<1>1. CASE RegReturn
  <2>1. /\ call' \in Calls /\ call'.pc = "idle"
    BY <1>1 DEF RegReturn, Idle, Calls
  <2>2. map' \in {"crc", "nocrc"} /\ reg' \in Registers
    BY <1>1 DEF RegReturn, RegInv
  <2>3. cell' \subseteq Bits'
    BY <1>1 DEF RegReturn, Bits
  <2> QED
    BY <2>1, <2>2, <2>3 DEF RegInv, ReadSound, UpdateExact
<1>2. CASE UNCHANGED regVars
  BY <1>2, SameReg DEF regVars, RegInv, Drift, Asked, ReadBack, ReadSound,
     UpdateExact, MaskBytes, Byte
<1> QED
  BY <1>1, <1>2, RegCalls, RegReads, RegWrites, RegController DEF RegNext

\* On either bus, whatever the controller does to the register during the
\* call, a read that succeeds returns what the register held.
THEOREM ReadsSound == RegSpec => []ReadSound
<1>1. RegInv => ReadSound
  BY DEF RegInv
<1>2. RegInv /\ [RegNext]_regVars => RegInv'
  BY RegStep
<1> QED
  BY RegStart, <1>1, <1>2, PTL DEF RegSpec

\* On either bus an update that succeeds and was not refused changes what it
\* was asked to change and nothing else.
THEOREM UpdatesExact == RegSpec => []UpdateExact
<1>1. RegInv => UpdateExact
  BY DEF RegInv
<1>2. RegInv /\ [RegNext]_regVars => RegInv'
  BY RegStep
<1> QED
  BY RegStart, <1>1, <1>2, PTL DEF RegSpec

=============================================================================
