---------------------------- MODULE McpTxProofs ----------------------------
(***************************************************************************)
(* Theorems about McpTx for every ring size, sequence number width, number *)
(* of frames and number of SPI failures, as long as the ring counters do   *)
(* not wrap (NoWrap; run tx_wrap shows what happens when they do).         *)
(***************************************************************************)
EXTENDS McpTxInv, RingLemmas

-----------------------------------------------------------------------------
(* Slots and counters.                                                     *)

\* The slot of every counter is a slot of the ring.
LEMMA SlotType == ASSUME NEW c \in Int PROVE Slot(c) \in Slots
  BY ModRange, RingAssumption DEF Slot, Slots

\* Without wrap-around the ring arithmetic is that of the integers.
LEMMA PlainCounters ==
  ASSUME NoWrap, DriverInv
  PROVE  /\ Sub(tx_head, tx_tail) = tx_head - tx_tail
         /\ TefLen = tef_head - tef_tail
         /\ TefLen \in 0 .. ObjNum
         /\ TefLinearLen \in 0 .. ObjNum
         /\ TefLinearLen <= ObjNum - Slot(tef_tail)
         /\ TefLinearLen <= TefLen
         /\ Slot(tef_tail) \in Slots
<1>1. Slot(tef_tail) \in Slots
  BY SlotType DEF DriverInv, TypeOK, CounterTypes
<1>2. /\ tx_head \in Int /\ tx_tail \in Int
      /\ tef_head \in Int /\ tef_tail \in Int
  BY DEF DriverInv, TypeOK, CounterTypes
<1>3. ObjNum \in Nat
  BY RingAssumption
<1>4. Sub(tx_head, tx_tail) = tx_head - tx_tail
  BY <1>2, <1>3 DEF DriverInv, DriverCursors, Sub
<1>5. TefLen = tef_head - tef_tail /\ TefLen \in 0 .. ObjNum
  BY <1>2, <1>3 DEF DriverInv, DriverCursors, Sub, TefLen
<1> QED
  BY <1>1, <1>3, <1>4, <1>5 DEF TefLinearLen, Slots

\* The head that tef_ring_update computes is ahead of the old one.
LEMMA NewHeadAhead ==
  ASSUME NoWrap, DriverInv
  PROVE  /\ NewTefHead \in 0 .. Wrap - 1
         /\ NewTefHead > tef_head
<1>1. /\ tef_head \in Nat /\ tef_head <= MaxFrames
      /\ seen \in 0 .. ObjNum - 1 /\ ObjNum \in Nat \ {0}
      /\ Wrap \in Nat
  BY RingAssumption, BoundAssumption
  DEF DriverInv, TypeOK, CounterTypes, ThreadTypes, DriverCursors, Slots
<1>2. Slot(tef_head) \in 0 .. ObjNum - 1 /\ Slot(tef_head) <= tef_head
  <2>1. /\ tef_head \div ObjNum \in Int
        /\ tef_head = ObjNum * (tef_head \div ObjNum) + Slot(tef_head)
        /\ Slot(tef_head) \in 0 .. ObjNum - 1
    BY <1>1, ModDef, ModRange DEF Slot
  <2>2. tef_head \div ObjNum >= 0
    BY <1>1, <2>1
  <2>3. ObjNum * (tef_head \div ObjNum) >= 0
    BY <1>1, <2>1, <2>2
  <2> QED BY <1>1, <2>1, <2>3
<1> QED
  BY <1>1, <1>2, BoundAssumption DEF NewTefHead, Add, NoWrap

LEMMA DriverInit == NoWrap /\ Init => DriverInv
  BY RingAssumption, BoundAssumption
  DEF NoWrap, Init, ZeroedRam, DriverInv, TypeOK, CounterTypes, ThreadTypes, SlotTypes,
      ChipTypes, DriverCursors, XmitKnows, IrqKnows, Slots, Frames, None

LEMMA DriverStep ==
  ASSUME NoWrap, DriverInv, [Next]_vars
  PROVE  DriverInv'
<1> USE RingAssumption, BoundAssumption DEF NoWrap, None, XmitStep, IrqStep,
                                            rings, locals, chip
<1>1. CASE XmitEnter
  <2>1. CounterTypes' /\ DriverCursors'
    BY <1>1, PlainCounters DEF XmitEnter, DriverInv, TypeOK, CounterTypes, ThreadTypes, DriverCursors, XmitKnows, IrqKnows, Add, LimitToTxHead
  <2>2. ThreadTypes' /\ XmitKnows' /\ IrqKnows'
    BY <1>1, PlainCounters, SlotType DEF XmitEnter, DriverInv, TypeOK, CounterTypes, ThreadTypes, ChipTypes, DriverCursors, XmitKnows, IrqKnows, Add, TxFull
  <2>3. SlotTypes'
    BY <1>1, SlotType DEF XmitEnter, DriverInv, TypeOK, SlotTypes, CounterTypes, XmitKnows, Frames
  <2>4. ChipTypes'
    BY <1>1, SlotType DEF XmitEnter, DriverInv, TypeOK, ChipTypes, CounterTypes, ThreadTypes, CurrentSlot, Sub
  <2> QED BY <2>1, <2>2, <2>3, <2>4 DEF DriverInv, TypeOK
<1>2. CASE XmitRecheck
  <2>1. CounterTypes' /\ DriverCursors'
    BY <1>2, PlainCounters DEF XmitRecheck, DriverInv, TypeOK, CounterTypes, ThreadTypes, DriverCursors, XmitKnows, IrqKnows, Add, LimitToTxHead
  <2>2. ThreadTypes' /\ XmitKnows' /\ IrqKnows'
    <3>1. CASE TxFull
      BY <1>2, <3>1 DEF XmitRecheck, DriverInv, TypeOK, ThreadTypes, XmitKnows, IrqKnows
    <3>2. CASE ~TxFull
      <4>1. tx_head < tx_tail + ObjNum
        BY <3>2, PlainCounters DEF TxFull, DriverInv, TypeOK, CounterTypes, DriverCursors
      <4> QED
        BY <1>2, <3>2, <4>1 DEF XmitRecheck, DriverInv, TypeOK, ThreadTypes, XmitKnows, IrqKnows
    <3> QED BY <3>1, <3>2
  <2>3. SlotTypes'
    BY <1>2, SlotType DEF XmitRecheck, DriverInv, TypeOK, SlotTypes, CounterTypes, XmitKnows, Frames
  <2>4. ChipTypes'
    BY <1>2, SlotType DEF XmitRecheck, DriverInv, TypeOK, ChipTypes, CounterTypes, ThreadTypes, CurrentSlot, Sub
  <2> QED BY <2>1, <2>2, <2>3, <2>4 DEF DriverInv, TypeOK
<1>3. CASE XmitPublish
  <2>1. CounterTypes' /\ DriverCursors'
    BY <1>3, PlainCounters DEF XmitPublish, TxObjFromSkb, DriverInv, TypeOK, CounterTypes, ThreadTypes, DriverCursors, XmitKnows, IrqKnows, Add, LimitToTxHead
  <2>2. ThreadTypes' /\ XmitKnows' /\ IrqKnows'
    BY <1>3, PlainCounters, SlotType DEF XmitPublish, TxObjFromSkb, DriverInv, TypeOK, CounterTypes, ThreadTypes, ChipTypes, DriverCursors, XmitKnows, IrqKnows, Add, TxFull
  <2>3. SlotTypes'
    BY <1>3, SlotType DEF XmitPublish, TxObjFromSkb, DriverInv, TypeOK, SlotTypes, CounterTypes, XmitKnows, Frames
  <2>4. ChipTypes'
    BY <1>3, SlotType DEF XmitPublish, TxObjFromSkb, DriverInv, TypeOK, ChipTypes, CounterTypes, ThreadTypes, CurrentSlot, Sub
  <2> QED BY <2>1, <2>2, <2>3, <2>4 DEF DriverInv, TypeOK
<1>4. CASE XmitWrite
  <2>1. CounterTypes' /\ DriverCursors'
    BY <1>4, PlainCounters DEF XmitWrite, DriverInv, TypeOK, CounterTypes, ThreadTypes, DriverCursors, XmitKnows, IrqKnows, Add, LimitToTxHead
  <2>2. ThreadTypes' /\ XmitKnows' /\ IrqKnows'
    BY <1>4, PlainCounters, SlotType DEF XmitWrite, DriverInv, TypeOK, CounterTypes, ThreadTypes, ChipTypes, DriverCursors, XmitKnows, IrqKnows, Add, TxFull
  <2>3. SlotTypes'
    BY <1>4, SlotType DEF XmitWrite, DriverInv, TypeOK, SlotTypes, CounterTypes, XmitKnows, Frames
  <2>4. ChipTypes'
    BY <1>4, SlotType DEF XmitWrite, DriverInv, TypeOK, ChipTypes, CounterTypes, ThreadTypes, CurrentSlot, Sub
  <2> QED BY <2>1, <2>2, <2>3, <2>4 DEF DriverInv, TypeOK
<1>5. CASE ChipSend
  <2>1. CounterTypes' /\ DriverCursors'
    BY <1>5, PlainCounters DEF ChipSend, DriverInv, TypeOK, CounterTypes, ThreadTypes, DriverCursors, XmitKnows, IrqKnows, Add, LimitToTxHead
  <2>2. ThreadTypes' /\ XmitKnows' /\ IrqKnows'
    BY <1>5, PlainCounters, SlotType DEF ChipSend, DriverInv, TypeOK, CounterTypes, ThreadTypes, ChipTypes, DriverCursors, XmitKnows, IrqKnows, Add, TxFull
  <2>3. SlotTypes'
    <3>1. Slot(chipTail) \in Slots
      BY SlotType DEF DriverInv, TypeOK, ChipTypes
    <3> QED BY <1>5, <3>1 DEF ChipSend, DriverInv, TypeOK, SlotTypes
  <2>4. ChipTypes'
    BY <1>5, SlotType DEF ChipSend, DriverInv, TypeOK, ChipTypes, CounterTypes, ThreadTypes, CurrentSlot, Sub
  <2> QED BY <2>1, <2>2, <2>3, <2>4 DEF DriverInv, TypeOK
<1>6. CASE ChipStoreTef
  <2>1. CounterTypes' /\ DriverCursors'
    BY <1>6, PlainCounters DEF ChipStoreTef, DriverInv, TypeOK, CounterTypes, ThreadTypes, DriverCursors, XmitKnows, IrqKnows, Add, LimitToTxHead
  <2>2. ThreadTypes' /\ XmitKnows' /\ IrqKnows'
    BY <1>6, PlainCounters, SlotType DEF ChipStoreTef, DriverInv, TypeOK, CounterTypes, ThreadTypes, ChipTypes, DriverCursors, XmitKnows, IrqKnows, Add, TxFull
  <2>3. SlotTypes'
    BY <1>6, SlotType DEF ChipStoreTef, DriverInv, TypeOK, SlotTypes, CounterTypes, XmitKnows, Frames
  <2>4. ChipTypes'
    BY <1>6, SlotType DEF ChipStoreTef, DriverInv, TypeOK, ChipTypes, CounterTypes, ThreadTypes, CurrentSlot, Sub
  <2> QED BY <2>1, <2>2, <2>3, <2>4 DEF DriverInv, TypeOK
<1>7. CASE IrqReadTail
  <2>1. CounterTypes' /\ DriverCursors'
    BY <1>7, PlainCounters DEF IrqReadTail, ChipTxTail, DriverInv, TypeOK, CounterTypes, ThreadTypes, DriverCursors, XmitKnows, IrqKnows, Add, LimitToTxHead
  <2>2. ThreadTypes' /\ XmitKnows' /\ IrqKnows'
    BY <1>7, PlainCounters, SlotType DEF IrqReadTail, ChipTxTail, DriverInv, TypeOK, CounterTypes, ThreadTypes, ChipTypes, DriverCursors, XmitKnows, IrqKnows, Add, TxFull
  <2>3. SlotTypes'
    BY <1>7, SlotType DEF IrqReadTail, ChipTxTail, DriverInv, TypeOK, SlotTypes, CounterTypes, XmitKnows, Frames
  <2>4. ChipTypes'
    BY <1>7, SlotType DEF IrqReadTail, ChipTxTail, DriverInv, TypeOK, ChipTypes, CounterTypes, ThreadTypes, CurrentSlot, Sub
  <2> QED BY <2>1, <2>2, <2>3, <2>4 DEF DriverInv, TypeOK
<1>8. CASE IrqUpdate
  <2>1. CounterTypes' /\ DriverCursors'
    BY <1>8, NewHeadAhead, PlainCounters DEF IrqUpdate, DriverInv, TypeOK, CounterTypes, ThreadTypes, DriverCursors, XmitKnows, IrqKnows, Add, LimitToTxHead
  <2>2. ThreadTypes' /\ XmitKnows' /\ IrqKnows'
    BY <1>8, NewHeadAhead, PlainCounters, SlotType DEF IrqUpdate, DriverInv, TypeOK, CounterTypes, ThreadTypes, ChipTypes, DriverCursors, XmitKnows, IrqKnows, Add, TxFull
  <2>3. SlotTypes'
    BY <1>8, SlotType DEF IrqUpdate, DriverInv, TypeOK, SlotTypes, CounterTypes, XmitKnows, Frames
  <2>4. ChipTypes'
    BY <1>8, SlotType DEF IrqUpdate, DriverInv, TypeOK, ChipTypes, CounterTypes, ThreadTypes, CurrentSlot, Sub
  <2> QED BY <2>1, <2>2, <2>3, <2>4 DEF DriverInv, TypeOK
<1>9. CASE IrqReadLinear
  <2>1. CounterTypes' /\ DriverCursors'
    BY <1>9, PlainCounters DEF IrqReadLinear, DriverInv, TypeOK, CounterTypes, ThreadTypes, DriverCursors, XmitKnows, IrqKnows, Add, LimitToTxHead
  <2>2. ThreadTypes' /\ XmitKnows' /\ IrqKnows'
    <3>1. ThreadTypes' /\ XmitKnows'
      BY <1>9, PlainCounters, SlotType DEF IrqReadLinear, IrqStep, rings, chip,
         DriverInv, TypeOK, CounterTypes, ThreadTypes, DriverCursors, XmitKnows,
         Add, TxFull
    <3>2. IrqKnows'
      BY <1>9, PlainCounters DEF IrqReadLinear, IrqStep, rings, DriverInv, TypeOK,
         CounterTypes, ThreadTypes, DriverCursors, IrqKnows
    <3> QED BY <3>1, <3>2
  <2>3. SlotTypes'
    <3>1. ASSUME NEW i \in Slots, i < TefLinearLen
          PROVE  Slot(tef_tail) + i \in Slots
      BY <3>1, PlainCounters DEF Slots
    <3> QED
      BY <1>9, <3>1 DEF IrqReadLinear, DriverInv, TypeOK, SlotTypes
  <2>4. ChipTypes'
    BY <1>9, SlotType DEF IrqReadLinear, DriverInv, TypeOK, ChipTypes, CounterTypes, ThreadTypes, CurrentSlot, Sub
  <2> QED BY <2>1, <2>2, <2>3, <2>4 DEF DriverInv, TypeOK
<1>10. CASE IrqReadRest
  <2>1. CounterTypes' /\ DriverCursors'
    BY <1>10, PlainCounters DEF IrqReadRest, DriverInv, TypeOK, CounterTypes, ThreadTypes, DriverCursors, XmitKnows, IrqKnows, Add, LimitToTxHead
  <2>2. ThreadTypes' /\ XmitKnows' /\ IrqKnows'
    BY <1>10, PlainCounters, SlotType DEF IrqReadRest, DriverInv, TypeOK, CounterTypes, ThreadTypes, ChipTypes, DriverCursors, XmitKnows, IrqKnows, Add, TxFull
  <2>3. SlotTypes'
    <3>1. ASSUME NEW i \in Slots, TefLinearLen <= i
          PROVE  i - TefLinearLen \in Slots
      BY <3>1, PlainCounters DEF Slots
    <3> QED
      BY <1>10, <3>1 DEF IrqReadRest, DriverInv, TypeOK, SlotTypes
  <2>4. ChipTypes'
    BY <1>10, SlotType DEF IrqReadRest, DriverInv, TypeOK, ChipTypes, CounterTypes, ThreadTypes, CurrentSlot, Sub
  <2> QED BY <2>1, <2>2, <2>3, <2>4 DEF DriverInv, TypeOK
<1>11. CASE IrqHandleOne
  <2>1. CounterTypes' /\ DriverCursors'
    BY <1>11, PlainCounters DEF IrqHandleOne, DriverInv, TypeOK, CounterTypes, ThreadTypes, DriverCursors, XmitKnows, IrqKnows, Add, LimitToTxHead
  <2>2. ThreadTypes' /\ XmitKnows' /\ IrqKnows'
    BY <1>11, PlainCounters, SlotType DEF IrqHandleOne, DriverInv, TypeOK, CounterTypes, ThreadTypes, ChipTypes, DriverCursors, XmitKnows, IrqKnows, Add, TxFull
  <2>3. SlotTypes'
    <3>1. Slot(tef_tail) \in Slots
      BY PlainCounters
    <3> QED BY <1>11, <3>1 DEF IrqHandleOne, DriverInv, TypeOK, SlotTypes
  <2>4. ChipTypes'
    BY <1>11, SlotType DEF IrqHandleOne, DriverInv, TypeOK, ChipTypes, CounterTypes, ThreadTypes, CurrentSlot, Sub
  <2> QED BY <2>1, <2>2, <2>3, <2>4 DEF DriverInv, TypeOK
<1>12. CASE IrqAdvance
  <2>1. CounterTypes' /\ DriverCursors'
    BY <1>12, PlainCounters DEF IrqAdvance, DriverInv, TypeOK, CounterTypes, ThreadTypes, DriverCursors, XmitKnows, IrqKnows, Add, LimitToTxHead
  <2>2. ThreadTypes' /\ XmitKnows' /\ IrqKnows'
    BY <1>12, PlainCounters, SlotType DEF IrqAdvance, DriverInv, TypeOK, CounterTypes, ThreadTypes, ChipTypes, DriverCursors, XmitKnows, IrqKnows, Add, TxFull
  <2>3. SlotTypes'
    BY <1>12, SlotType DEF IrqAdvance, DriverInv, TypeOK, SlotTypes, CounterTypes, XmitKnows, Frames
  <2>4. ChipTypes'
    BY <1>12, SlotType DEF IrqAdvance, DriverInv, TypeOK, ChipTypes, CounterTypes, ThreadTypes, CurrentSlot, Sub
  <2> QED BY <2>1, <2>2, <2>3, <2>4 DEF DriverInv, TypeOK
<1>17. CASE XmitEcho
  <2>1. UNCHANGED <<rings, accepted, reported, stopped, ipc, locals, spiq, chip>>
        /\ UNCHANGED <<obj, lastEcho, asyncFails, syncFails>>
    BY <1>17 DEF XmitEcho, XmitStep
  <2>2. xpc = "echo" /\ xpc' = "write"
    BY <1>17 DEF XmitEcho, XmitStep
  <2>3. /\ obj \in [Slots -> Frames \cup {None}]
        /\ echo \in [Slots -> Frames \cup {None}]
    BY DEF DriverInv, TypeOK, SlotTypes
  <2>4. echo' \in [Slots -> Frames \cup {None}]
    <3>1. CurrentSlot \in Slots
      BY <2>2, SlotType, PlainCounters DEF DriverInv, TypeOK, CounterTypes, XmitKnows, CurrentSlot, Sub
    <3>2. obj[CurrentSlot] \in Frames \cup {None}
      BY <2>3, <3>1
    <3> HIDE DEF CurrentSlot
    <3> QED
      BY <1>17, <2>3, <3>1, <3>2 DEF XmitEcho
  <2> QED
    BY <2>1, <2>2, <2>4 DEF DriverInv, TypeOK, CounterTypes, ThreadTypes,
       SlotTypes, ChipTypes, DriverCursors, XmitKnows, IrqKnows, rings, locals, chip
<1> USE PlainCounters DEF DriverInv, TypeOK, CounterTypes, ThreadTypes,
    SlotTypes, ChipTypes, DriverCursors, XmitKnows, IrqKnows
<1>13. CASE XmitEnterBusy
  BY <1>13 DEF XmitEnterBusy
<1>14. CASE XmitBusyStop
  BY <1>14 DEF XmitBusyStop
<1>15. CASE XmitDecide
  BY <1>15 DEF XmitDecide
<1>16. CASE XmitStop
  BY <1>16 DEF XmitStop
<1>18. CASE XmitWriteFails
  BY <1>18 DEF XmitWriteFails
<1>19. CASE SpiTransfer
  BY <1>19 DEF SpiTransfer, Loaded
<1>26. CASE SpiTransferFails
  <2>1. Head(spiq) \in Slots /\ Tail(spiq) \in Seq(Slots)
    BY <1>26 DEF SpiTransferFails
  <2>2. Loaded \in [Slots -> Frames \cup {0, None}]
    BY <2>1 DEF Loaded
  <2>3. txram' \in [Slots -> Frames \cup {0, None}]
    BY <1>26, <2>2, Zenon DEF SpiTransferFails
  <2>4. asyncFails' \in 0 .. MaxAsyncFails
    BY <1>26 DEF SpiTransferFails
  <2> QED
    BY <1>26, <2>1, <2>3, <2>4 DEF SpiTransferFails
<1>20. CASE IrqLoopEnds
  BY <1>20 DEF IrqLoopEnds
<1>21. CASE IrqUinc
  BY <1>21 DEF IrqUinc
<1>22. CASE IrqFree
  BY <1>22 DEF IrqFree
<1>23. CASE IrqWake
  BY <1>23 DEF IrqWake
<1>24. CASE IrqSpiFails
  BY <1>24 DEF IrqSpiFails
<1>25. CASE UNCHANGED vars
  BY <1>25 DEF vars
<1> QED
  BY <1>1, <1>2, <1>3, <1>4, <1>5, <1>6, <1>7, <1>8, <1>9, <1>10, <1>11, <1>12, <1>13, <1>14, <1>15, <1>16, <1>17, <1>18, <1>19, <1>20, <1>21, <1>22, <1>23, <1>24, <1>25, <1>26 DEF Next, Xmit, Controller, Irq

-----------------------------------------------------------------------------
(* What holds whatever fails.                                              *)

\* The invariant of the driver's own state.
LEMMA DriverInvariant == ASSUME NoWrap PROVE Spec => []DriverInv
<1>1. Init => DriverInv
  BY DriverInit
<1>2. DriverInv /\ [Next]_vars => DriverInv'
  BY DriverStep
<1> QED BY <1>1, <1>2, PTL DEF Spec

\* The ring counters of mcp251xfd_tx_ring and mcp251xfd_tef_ring, the locals
\* of handle_tefif and the SPI queue keep their types.
THEOREM TypeCorrect == ASSUME NoWrap PROVE Spec => []TypeOK
<1>1. DriverInv => TypeOK
  BY DEF DriverInv
<1> QED BY <1>1, DriverInvariant, PTL

\* tef_ring_update never passes the TX head and handle_tefif never reads more
\* than one ring of TEF objects, however many SPI transfers fail, of either
\* thread: until 2^32 frames have been sent the min() is enough.
THEOREM HeadBounded == ASSUME NoWrap PROVE Spec => []TefHeadBounded
<1>1. DriverInv => TefHeadBounded
  BY RingAssumption
  DEF DriverInv, TypeOK, CounterTypes, DriverCursors, TefHeadBounded, Sub
<1> QED BY <1>1, DriverInvariant, PTL
=============================================================================
