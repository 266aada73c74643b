-------------------------- MODULE McpTxChipProofs --------------------------
(***************************************************************************)
(* Theorems about the driver and the controller together, for every ring   *)
(* size, sequence number width and number of frames, as long as the ring   *)
(* counters do not wrap: RingInv is inductive whatever SPI transfer fails, *)
(* and TxInv if spi_async does not.  One lemma per conjunct.               *)
(***************************************************************************)
EXTENDS McpTxProofs, SequenceTheorems

-----------------------------------------------------------------------------
(* Slots of a window of the ring.                                          *)

\* Adding to a counter moves its slot, around the end of the ring.
LEMMA SlotAdd ==
  ASSUME NEW c \in Int, NEW i \in 0 .. ObjNum
  PROVE  /\ Slot(c) + i < ObjNum => Slot(c + i) = Slot(c) + i
         /\ Slot(c) + i >= ObjNum => Slot(c + i) = Slot(c) + i - ObjNum
<1>1. ObjNum \in Nat \ {0}
  BY RingAssumption
<1> QED BY <1>1, ModAdd, Zenon DEF Slot

\* Two counters less than a ring apart have different slots.
LEMMA SlotDistinct ==
  ASSUME NEW a \in Int, NEW b \in Int, a # b, a - b < ObjNum, b - a < ObjNum
  PROVE  Slot(a) # Slot(b)
<1>1. ObjNum \in Nat \ {0}
  BY RingAssumption
<1>2. CASE a < b
  BY <1>1, <1>2, ModDistinct DEF Slot
<1>3. CASE b < a
  BY <1>1, <1>3, ModDistinct DEF Slot
<1> QED BY <1>2, <1>3

\* A ring further on is the same slot.
LEMMA SlotPeriod ==
  ASSUME NEW c \in Int PROVE Slot(c + ObjNum) = Slot(c)
<1>1. ObjNum \in Nat \ {0} /\ Slot(c) \in 0 .. ObjNum - 1
  BY RingAssumption, SlotType DEF Slots
<1>2. Slot(c) + ObjNum >= ObjNum
  BY <1>1
<1>3. Slot(c + ObjNum) = Slot(c) + ObjNum - ObjNum
  BY <1>1, <1>2, SlotAdd
<1> QED BY <1>1, <1>3

-----------------------------------------------------------------------------
(* The invariant, conjunct by conjunct.                                    *)

\* The numbers the steps below reason about, and their order.
Numbers ==
  /\ accepted \in Nat /\ chipHead \in Nat /\ chipTail \in Nat
  /\ tefPut \in Nat /\ tefGet \in Nat /\ Len(spiq) \in Nat
  /\ tx_tail \in Nat /\ tef_tail \in Nat /\ tef_head \in Nat
  /\ tx_head = accepted /\ reported = tef_tail
  /\ len \in 0 .. ObjNum /\ ok \in 0 .. ObjNum
  /\ ObjNum \in Nat \ {0} /\ ObjNum < SeqMod /\ SeqMod \in Nat
  /\ MaxFrames \in Nat /\ accepted <= MaxFrames
  /\ Wrap \in Nat /\ asyncFails \in Nat

Order ==
  /\ tx_tail <= tef_tail /\ tef_tail <= tefPut /\ tefPut <= chipTail
  /\ chipTail <= tefPut + 1
  /\ chipTail <= chipHead /\ chipHead <= accepted
  /\ Loading => chipHead <= accepted - 1
  /\ tef_tail <= tef_head /\ tef_head <= accepted
  /\ accepted <= tx_tail + ObjNum

LEMMA TxOrder == ASSUME RingInv PROVE Numbers /\ Order
<1>1. spiq \in Seq(Slots)
  BY DEF RingInv, DriverInv, TypeOK, ChipTypes
<1>2. Len(spiq) \in Nat
  BY <1>1
<1>3. Numbers
  BY <1>2, RingAssumption, BoundAssumption
  DEF RingInv, DriverInv, DriverCursors, TypeOK, CounterTypes, ChipTypes,
      ThreadTypes, Numbers
<1> QED
  BY <1>2, <1>3 DEF Numbers, Order, RingInv, DriverInv, DriverCursors, ChipInv,
                     ChipCursors

LEMMA ChipInit == NoWrap /\ Init => ChipInv /\ InFlight
<1> SUFFICES ASSUME NoWrap, Init PROVE ChipInv /\ InFlight
  OBVIOUS
<1> USE RingAssumption, BoundAssumption DEF Init, ZeroedRam, None
<1>1. ChipCursors
  BY DEF ChipCursors, Loading
<1>2. InFlight
  BY DEF InFlight, Window
<1>p. Prepared
  BY DEF Prepared, Window
<1>3. TefChecked
  <2>1. ASSUME NEW f \in Window, f < 0 PROVE tefram[Slot(f)] = 0
    BY SlotType DEF Window, Slots
  <2> QED BY <2>1 DEF TefChecked, Window
<1>4. EchoSlots
  <2>1. ASSUME NEW f \in Window PROVE echo[Slot(f)] = None
    BY SlotType DEF Window, Slots
  <2> QED BY <2>1 DEF EchoSlots, EchoWaits, Window
<1>5. ReadObjs
  BY DEF ReadObjs
<1> QED BY <1>1, <1>2, <1>p, <1>3, <1>4, <1>5 DEF ChipInv

\* handle_tefif_one accepts only the TEF object of the frame it expects.
LEMMA SeqTells ==
  ASSUME RingInv, ipc = "handle", ok < len, SeqMatches
  PROVE  /\ tef_tail < tefPut /\ tef_tail = tx_tail + ok
         /\ Seq7(tefram[Slot(tef_tail)]) = Seq7(tef_tail)
<1>1. tef_tail = tx_tail + ok
  BY DEF RingInv, DriverInv, IrqKnows
<1>2. ok \in Slots
  BY TxOrder DEF Numbers, Slots
<1>3. Seq7(objs[ok]) = Seq7(tx_tail + ok)
  BY <1>1 DEF SeqMatches
<1>4. ReadObjs
  BY DEF RingInv, ChipInv
<1>5. tx_tail + ok < tefPut /\ objs[ok] = tefram[Slot(tx_tail + ok)]
  BY <1>2, <1>3, <1>4, TxOrder DEF Numbers, ReadObjs
<1> QED
  BY <1>1, <1>3, <1>5

LEMMA CursorsStep ==
  ASSUME NoWrap, RingInv, [Next]_vars
  PROVE  ChipCursors'
<1>a. Numbers /\ Order /\ ChipCursors /\ IrqKnows
  BY TxOrder DEF RingInv, ChipInv, DriverInv
<1> USE <1>a DEF NoWrap, XmitStep, IrqStep, rings, locals, chip,
                 Numbers, Order, ChipCursors, Loading
<1>1. CASE XmitPublish
  BY <1>1 DEF XmitPublish, TxObjFromSkb
<1>2. CASE XmitWrite
  <2>1. Len(spiq') = Len(spiq) + 1
    BY <1>2 DEF XmitWrite, RingInv, DriverInv, TypeOK, ChipTypes
  <2> QED
    BY <1>2, <2>1 DEF XmitWrite
<1>3. CASE SpiTransfer
  <2>1. Len(spiq') = Len(spiq) - 1
    BY <1>3 DEF SpiTransfer, RingInv, DriverInv, TypeOK, ChipTypes
  <2> QED
    BY <1>3, <2>1 DEF SpiTransfer
<1>4. CASE ChipSend
  BY <1>4 DEF ChipSend
<1>5. CASE ChipStoreTef
  BY <1>5 DEF ChipStoreTef
<1>6. CASE IrqHandleOne
  <2>1. tef_tail < tefPut
    BY <1>6, SeqTells DEF IrqHandleOne
  <2>2. tef_tail' = tef_tail + 1
    BY <1>6 DEF IrqHandleOne, Add
  <2> QED
    BY <1>6, <2>1, <2>2 DEF IrqHandleOne
<1>7. CASE IrqReadTail
  BY <1>7 DEF IrqReadTail, ChipTxTail, IrqKnows
<1>8. CASE IrqLoopEnds
  BY <1>8 DEF IrqLoopEnds, IrqKnows
<1>9. CASE IrqUinc
  BY <1>9 DEF IrqUinc, IrqKnows
<1>10. CASE IrqAdvance
  <2>1. tx_tail' = tef_tail
    BY <1>10 DEF IrqAdvance, Add, IrqKnows
  <2> QED
    BY <1>10, <2>1 DEF IrqAdvance
<1>11. CASE IrqSpiFails
  <2>1. PICK n \in 0 .. (IF ipc = "uinc" THEN ok ELSE 0) : tefGet' = tefGet + n
    BY <1>11 DEF IrqSpiFails
  <2>2. tx_tail <= tefGet' /\ tefGet' <= tef_tail
    BY <2>1 DEF IrqKnows
  <2> QED
    BY <1>11, <2>2 DEF IrqSpiFails
<1>12. CASE IrqUpdate \/ IrqReadLinear \/ IrqReadRest
  <2>1. /\ UNCHANGED <<tx_tail, tef_tail, tefGet, tefPut, chipTail, chipHead>>
        /\ UNCHANGED <<accepted, spiq, asyncFails, xpc>>
        /\ ipc \in {"update", "read", "readrest"}
        /\ ipc' \in {"read", "readrest", "handle"}
    BY <1>12 DEF IrqUpdate, IrqReadLinear, IrqReadRest
  <2> QED
    BY <2>1 DEF IrqKnows
<1>13. CASE IrqFree \/ IrqWake
  BY <1>13 DEF IrqFree, IrqWake
<1>14. CASE XmitEnter \/ XmitEnterBusy \/ XmitBusyStop \/ XmitRecheck
            \/ XmitDecide \/ XmitStop \/ XmitEcho
  BY <1>14 DEF XmitEnter, XmitEnterBusy, XmitBusyStop, XmitRecheck, XmitDecide,
               XmitStop, XmitEcho
<1>15. CASE XmitWriteFails
  BY <1>15 DEF XmitWriteFails
<1>17. CASE SpiTransferFails
  <2>1. Len(spiq') = Len(spiq) - 1
    BY <1>17 DEF SpiTransferFails, RingInv, DriverInv, TypeOK, ChipTypes
  <2> QED
    BY <1>17, <2>1 DEF SpiTransferFails
<1>16. CASE UNCHANGED vars
  BY <1>16 DEF vars
<1> QED
  BY <1>1, <1>2, <1>3, <1>4, <1>5, <1>6, <1>7, <1>8, <1>9, <1>10, <1>11,
     <1>12, <1>13, <1>14, <1>15, <1>16, <1>17 DEF Next, Xmit, Controller, Irq

\* A frame is prepared in a TX object only when the frame before it in that
\* object is completed, and then it stays there.
LEMMA PreparedStep ==
  ASSUME NoWrap, RingInv, [Next]_vars
  PROVE  Prepared'
<1>a. Numbers /\ Order /\ Prepared /\ XmitKnows
  BY TxOrder DEF RingInv, ChipInv, DriverInv
<1>b. Slots = 0 .. ObjNum - 1 /\ DOMAIN obj = Slots
  BY DEF RingInv, DriverInv, TypeOK, SlotTypes, Slots
<1>c. \A c \in Int : Slot(c) \in Slots
  BY SlotType
<1>1. CASE XmitPublish
  <2>1. accepted' = accepted + 1
    BY <1>1 DEF XmitPublish
  <2>2. ASSUME NEW f \in Window, 0 <= f, accepted + 1 - ObjNum <= f,
               f < accepted + 1
        PROVE  obj'[Slot(f)] = f
    <3>1. CASE f = accepted
      BY <3>1, <1>1, <1>a, <1>b, <1>c DEF XmitPublish, TxObjFromSkb, Numbers
    <3>2. CASE f < accepted
      <4>1. Slot(f) # Slot(accepted)
        BY <1>a, <2>2, <3>2, SlotDistinct DEF Numbers, Order, Window
      <4>2. obj'[Slot(f)] = obj[Slot(f)]
        BY <4>1, <1>1, <1>a, <1>b, <1>c
        DEF XmitPublish, TxObjFromSkb, Numbers, Window
      <4>3. obj[Slot(f)] = f
        BY <2>2, <3>2, <1>a DEF Prepared, Numbers, Window
      <4> QED BY <4>2, <4>3
    <3> QED BY <3>1, <3>2, <2>2, <1>a DEF Window, Numbers
  <2>3. ASSUME NEW f \in Window, 0 <= f, accepted' - ObjNum <= f, f < accepted'
        PROVE  obj'[Slot(f)] = f
    BY <2>1, <2>2, <2>3, <1>a DEF Numbers, Window
  <2> QED
    BY <2>3 DEF Prepared
<1>2. ASSUME ~XmitPublish
      PROVE  UNCHANGED <<obj, accepted>>
  <2> USE <1>2 DEF chip, rings, locals
  <2>1. CASE Xmit
    BY <2>1 DEF Xmit, XmitEnter, XmitEnterBusy, XmitBusyStop, XmitRecheck,
                XmitDecide, XmitStop, XmitEcho, XmitWrite, XmitWriteFails
  <2>2. CASE Controller
    BY <2>2 DEF Controller, SpiTransfer, SpiTransferFails, ChipSend,
                ChipStoreTef
  <2>3. CASE Irq
    BY <2>3 DEF Irq, IrqReadTail, IrqUpdate, IrqReadLinear, IrqReadRest,
                IrqHandleOne, IrqLoopEnds, IrqUinc, IrqAdvance, IrqFree, IrqWake
  <2>4. CASE IrqSpiFails
    BY <2>4 DEF IrqSpiFails
  <2>5. CASE UNCHANGED vars
    BY <2>5 DEF vars
  <2> QED BY <2>1, <2>2, <2>3, <2>4, <2>5 DEF Next
<1> QED
  BY <1>1, <1>2, <1>a DEF Prepared

LEMMA InFlightStep ==
  ASSUME NoWrap, NoAsyncFails, TxInv, [Next]_vars
  PROVE  InFlight'
<1>a. /\ Numbers /\ Order /\ ChipCursors /\ InFlight /\ XmitKnows
      /\ Prepared /\ asyncFails = 0
  BY TxOrder
  DEF TxInv, RingInv, ChipInv, DriverInv, NoAsyncFails, TypeOK, ThreadTypes
<1>b. /\ spiq \in Seq(Slots) /\ Slots = 0 .. ObjNum - 1
      /\ DOMAIN txram = Slots
  BY DEF TxInv, RingInv, DriverInv, TypeOK, ChipTypes, SlotTypes, Slots
<1>c. \A c \in Int : Slot(c) \in Slots
  BY SlotType
<1>1. CASE XmitWrite
  <2>1. CurrentSlot = Slot(chipHead + Len(spiq))
    <3>1. Sub(tx_head, 1) = accepted - 1 /\ accepted = chipHead + Len(spiq) + 1
      BY <1>1, <1>a DEF XmitWrite, XmitStep, XmitKnows, Sub, Numbers,
                        ChipCursors, Loading
    <3>2. Sub(tx_head, 1) = chipHead + Len(spiq)
      BY <3>1, <1>a DEF Numbers
    <3> QED BY <3>2 DEF CurrentSlot
  <2>2. Len(spiq') = Len(spiq) + 1
    BY <1>1, <1>b DEF XmitWrite
  <2>3. ASSUME NEW i \in 1 .. Len(spiq')
        PROVE  spiq'[i] = Slot(chipHead + i - 1)
    <3>1. CASE i = Len(spiq')
      <4>1. spiq'[i] = CurrentSlot
        BY <3>1, <2>2, <1>1, <1>b DEF XmitWrite
      <4>2. chipHead + i - 1 = chipHead + Len(spiq)
        BY <3>1, <2>2, <1>a DEF Numbers
      <4> QED BY <4>1, <4>2, <2>1
    <3>2. CASE i # Len(spiq')
      <4>1. i \in 1 .. Len(spiq) /\ spiq'[i] = spiq[i]
        BY <3>2, <2>2, <1>1, <1>b, <1>a DEF XmitWrite, Numbers
      <4> QED BY <4>1, <1>a DEF InFlight
    <3> QED BY <3>1, <3>2
  <2>4. UNCHANGED chip
    BY <1>1 DEF XmitWrite
  <2> QED
    BY <1>a, <2>3, <2>4 DEF InFlight, chip
<1>2. CASE SpiTransfer
  <2>1. /\ Len(spiq') = Len(spiq) - 1 /\ Len(spiq) > 0
        /\ Head(spiq) = spiq[1]
        /\ \A i \in 1 .. Len(spiq') : spiq'[i] = spiq[i + 1]
    BY <1>2, <1>b DEF SpiTransfer
  <2>2. Head(spiq) = Slot(chipHead)
    <3>1. spiq[1] = Slot(chipHead + 1 - 1)
      BY <1>a, <2>1 DEF InFlight, Numbers
    <3>2. chipHead + 1 - 1 = chipHead
      BY <1>a DEF Numbers
    <3> QED BY <2>1, <3>1, <3>2
  <2>3. ASSUME NEW i \in 1 .. Len(spiq')
        PROVE  spiq'[i] = Slot(chipHead + 1 + i - 1)
    <3>1. /\ i + 1 \in 1 .. Len(spiq)
          /\ chipHead + (i + 1) - 1 = chipHead + 1 + i - 1
      BY <1>a, <2>1 DEF Numbers
    <3>2. spiq[i + 1] = Slot(chipHead + (i + 1) - 1)
      BY <1>a, <3>1 DEF InFlight
    <3> QED BY <2>1, <3>1, <3>2
  <2>4. obj[Slot(chipHead)] = chipHead
    <3>1. chipHead < accepted /\ chipHead \in Window
      BY <1>a, <2>1 DEF Numbers, Order, ChipCursors, Window
    <3> QED BY <1>a, <3>1 DEF Prepared, Numbers, Order
  <2>t. txram' = [txram EXCEPT ![Slot(chipHead)] = chipHead]
    BY <1>2, <2>2, <2>4 DEF SpiTransfer, Loaded
  <2>5. ASSUME NEW f \in Window, chipTail <= f, f < chipHead + 1
        PROVE  txram'[Slot(f)] = f
    <3>1. CASE f = chipHead
      BY <3>1, <2>t, <1>a, <1>b, <1>c DEF Numbers
    <3>2. CASE f < chipHead
      <4>1. chipHead < accepted
        BY <1>a, <2>1 DEF Numbers, ChipCursors
      <4>2. Slot(f) # Slot(chipHead)
        BY <1>a, <2>5, <3>2, <4>1, SlotDistinct DEF Numbers, Order, Window
      <4>3. txram'[Slot(f)] = txram[Slot(f)]
        BY <4>2, <2>t
      <4>4. txram[Slot(f)] = f
        BY <2>5, <3>2, <1>a DEF InFlight
      <4> QED BY <4>3, <4>4
    <3> QED BY <3>1, <3>2, <2>5, <1>a DEF Window, Numbers
  <2>6. UNCHANGED <<chipTail, wire>> /\ chipHead' = chipHead + 1
    BY <1>2 DEF SpiTransfer
  <2> QED
    BY <1>a, <2>3, <2>5, <2>6 DEF InFlight, Numbers, Window
<1>3. CASE ChipSend
  <2>1. chipTail \in Window /\ chipTail < chipHead
    BY <1>3, <1>a DEF ChipSend, Numbers, Order, Window
  <2>2. txram[Slot(chipTail)] = chipTail
    BY <1>a, <2>1 DEF InFlight, Numbers
  <2> QED
    BY <1>3, <1>a, <2>2 DEF ChipSend, InFlight, Numbers, Window
<1>4. ASSUME ~XmitWrite, ~SpiTransfer, ~ChipSend
      PROVE  UNCHANGED <<spiq, txram, chipHead, chipTail, wire>>
  <2> USE <1>4 DEF chip, rings, locals
  <2>1. CASE Xmit
    BY <2>1 DEF Xmit, XmitEnter, XmitEnterBusy, XmitBusyStop, XmitRecheck,
                XmitPublish, XmitDecide, XmitStop, XmitEcho, XmitWriteFails
  <2>2. CASE Controller
    BY <2>2, <1>a DEF Controller, SpiTransferFails, ChipStoreTef, NoAsyncFails
  <2>3. CASE Irq
    BY <2>3 DEF Irq, IrqReadTail, IrqUpdate, IrqReadLinear, IrqReadRest,
                IrqHandleOne, IrqLoopEnds, IrqUinc, IrqAdvance, IrqFree, IrqWake
  <2>4. CASE IrqSpiFails
    BY <2>4 DEF IrqSpiFails
  <2>5. CASE UNCHANGED vars
    BY <2>5 DEF vars
  <2> QED BY <2>1, <2>2, <2>3, <2>4, <2>5 DEF Next
<1> QED
  BY <1>1, <1>2, <1>3, <1>4, <1>a DEF InFlight

LEMMA TefStep ==
  ASSUME NoWrap, RingInv, [Next]_vars
  PROVE  TefChecked'
<1>a. Numbers /\ Order /\ ChipCursors /\ TefChecked
  BY TxOrder DEF RingInv, ChipInv
<1>b. Slots = 0 .. ObjNum - 1 /\ DOMAIN tefram = Slots
  BY DEF RingInv, DriverInv, TypeOK, SlotTypes, Slots
<1>1. CASE ChipStoreTef
  <2>1. /\ tefram' = [tefram EXCEPT ![Slot(tefPut)] = wire]
        /\ tefPut' = tefPut + 1 /\ tef_tail' = tef_tail
    BY <1>1 DEF ChipStoreTef, rings
  <2>2. ASSUME NEW f \in Window, tefPut + 1 - ObjNum <= f, f < tef_tail
        PROVE  Seq7(tefram'[Slot(f)]) = Seq7(IF f < 0 THEN 0 ELSE f)
    <3>1. Slot(f) # Slot(tefPut)
      BY <1>a, <2>2, SlotDistinct DEF Numbers, Order, Window
    <3>2. tefram'[Slot(f)] = tefram[Slot(f)]
      BY <3>1, <2>1
    <3>3. tefPut - ObjNum <= f
      BY <1>a, <2>2 DEF Numbers, Window
    <3> QED BY <1>a, <2>2, <3>2, <3>3 DEF TefChecked
  <2>3. ASSUME NEW f \in Window, tefPut' - ObjNum <= f, f < tef_tail'
        PROVE  Seq7(tefram'[Slot(f)]) = Seq7(IF f < 0 THEN 0 ELSE f)
    BY <2>1, <2>2, <2>3, <1>a DEF Numbers, Window
  <2> QED
    BY <2>3 DEF TefChecked
<1>2. CASE IrqHandleOne
  <2>0. tef_tail' = Add(tef_tail, 1) /\ UNCHANGED chip /\ tef_tail < tefPut
    BY <1>2, SeqTells DEF IrqHandleOne
  <2>1. /\ tef_tail' = tef_tail + 1 /\ UNCHANGED <<tefram, tefPut>>
    <3>1. tef_tail \in Nat /\ Wrap \in Nat /\ tef_tail + 1 < Wrap
      BY <2>0, <1>a DEF NoWrap, Numbers, Order
    <3> QED BY <2>0, <3>1 DEF Add, chip
  <2>2. Seq7(tefram[Slot(tef_tail)]) = Seq7(tef_tail)
    BY <1>2, SeqTells DEF IrqHandleOne
  <2>3. ASSUME NEW f \in Window, tefPut - ObjNum <= f, f < tef_tail + 1
        PROVE  Seq7(tefram[Slot(f)]) = Seq7(IF f < 0 THEN 0 ELSE f)
    <3>1. CASE f = tef_tail
      BY <2>2, <3>1, <1>a DEF Numbers
    <3>2. CASE f < tef_tail
      BY <2>3, <3>2, <1>a DEF TefChecked
    <3> QED BY <2>3, <3>1, <3>2, <1>a DEF Numbers, Window
  <2> QED
    BY <2>1, <2>3 DEF TefChecked
<1>3. ASSUME ~ChipStoreTef, ~IrqHandleOne
      PROVE  UNCHANGED <<tefram, tefPut, tef_tail>>
  <2> USE <1>3 DEF chip, rings, locals
  <2>1. CASE Xmit
    BY <2>1 DEF Xmit, XmitEnter, XmitEnterBusy, XmitBusyStop, XmitRecheck,
                XmitPublish, XmitDecide, XmitStop, XmitEcho, XmitWrite,
                XmitWriteFails
  <2>2. CASE Controller
    BY <2>2 DEF Controller, SpiTransfer, SpiTransferFails, ChipSend
  <2>3. CASE Irq
    BY <2>3 DEF Irq, IrqReadTail, IrqUpdate, IrqReadLinear, IrqReadRest,
                IrqLoopEnds, IrqUinc, IrqAdvance, IrqFree, IrqWake
  <2>4. CASE IrqSpiFails
    BY <2>4 DEF IrqSpiFails
  <2>5. CASE UNCHANGED vars
    BY <2>5 DEF vars
  <2> QED BY <2>1, <2>2, <2>3, <2>4, <2>5 DEF Next
<1> QED
  BY <1>1, <1>2, <1>3, <1>a DEF TefChecked

\* The echo slot of the frame that start_xmit is about to store is free, and
\* the slot handle_tefif_one completes holds the frame it reports.
LEMMA EchoFacts ==
  ASSUME RingInv
  PROVE  /\ xpc = "echo" => echo[Slot(accepted - 1)] = None
         /\ tef_tail < tefPut => echo[Slot(tef_tail)] = tef_tail
<1>a. Numbers /\ Order /\ EchoSlots
  BY TxOrder DEF RingInv, ChipInv
<1>1. ASSUME xpc = "echo"
      PROVE  echo[Slot(accepted - 1)] = None
  <2>1. /\ accepted - 1 \in Window
        /\ tef_tail <= accepted - 1 /\ accepted - 1 < tef_tail + ObjNum
    BY <1>1, <1>a DEF Numbers, Order, Loading, Window
  <2>2. ~EchoWaits(accepted - 1)
    BY <1>1, <1>a DEF EchoWaits, Numbers
  <2> QED BY <1>a, <2>1, <2>2 DEF EchoSlots
<1>2. ASSUME tef_tail < tefPut
      PROVE  echo[Slot(tef_tail)] = tef_tail
  <2>1. tef_tail \in Window /\ tef_tail < tef_tail + ObjNum
    BY <1>a DEF Numbers, Order, Window
  <2>2. EchoWaits(tef_tail)
    BY <1>2, <1>a DEF EchoWaits, Numbers, Order, Loading
  <2> QED BY <1>a, <2>1, <2>2 DEF EchoSlots, Numbers
<1> QED BY <1>1, <1>2

LEMMA EchoStep ==
  ASSUME NoWrap, RingInv, [Next]_vars
  PROVE  EchoSlots'
<1>a. Numbers /\ Order /\ Prepared /\ EchoSlots /\ XmitKnows
  BY TxOrder DEF RingInv, ChipInv, DriverInv
<1>b. Slots = 0 .. ObjNum - 1 /\ DOMAIN echo = Slots
  BY DEF RingInv, DriverInv, TypeOK, SlotTypes, Slots
<1>c. \A c \in Int : Slot(c) \in Slots
  BY SlotType
<1>1. CASE XmitEcho
  <2>0. xpc = "echo" /\ xpc' = "write" /\ Loading
    BY <1>1 DEF XmitEcho, XmitStep, Loading
  <2>1. CurrentSlot = Slot(accepted - 1)
    BY <2>0, <1>a DEF XmitKnows, Sub, Numbers, CurrentSlot
  <2>2. obj[Slot(accepted - 1)] = accepted - 1
    BY <2>0, <1>a DEF Numbers, Order, Prepared, Window
  <2>3. echo' = [echo EXCEPT ![Slot(accepted - 1)] = accepted - 1]
    BY <1>1, <2>0, <2>1, <2>2, EchoFacts DEF XmitEcho
  <2>4. ASSUME NEW f \in Window, tef_tail <= f, f < tef_tail + ObjNum
        PROVE  echo'[Slot(f)] = IF f < accepted THEN f ELSE None
    <3>1. CASE f = accepted - 1
      BY <3>1, <2>3, <1>a, <1>b, <1>c DEF Numbers
    <3>2. CASE f # accepted - 1
      <4>1. Slot(f) # Slot(accepted - 1)
        BY <2>0, <2>4, <3>2, <1>a, SlotDistinct DEF Numbers, Order, Window
      <4>2. echo'[Slot(f)] = echo[Slot(f)]
        BY <4>1, <2>3
      <4> QED
        BY <4>2, <3>2, <2>0, <2>4, <1>a
        DEF EchoSlots, EchoWaits, Numbers, Window
    <3> QED BY <3>1, <3>2
  <2>5. UNCHANGED <<tef_tail, accepted, reported, lastEcho>>
    BY <1>1 DEF XmitEcho, rings
  <2> QED
    BY <2>0, <2>4, <2>5, <1>a DEF EchoSlots, EchoWaits
<1>2. CASE IrqHandleOne
  <2>0. tef_tail < tefPut
    BY <1>2, SeqTells DEF IrqHandleOne
  <2>1. /\ tef_tail' = tef_tail + 1 /\ reported' = reported + 1
        /\ lastEcho' = tef_tail
        /\ echo' = [echo EXCEPT ![Slot(tef_tail)] = None]
        /\ UNCHANGED <<xpc, accepted>>
    BY <1>2, <1>a, <2>0, EchoFacts DEF IrqHandleOne, Add, NoWrap, Numbers, Order
  <2>2. ASSUME NEW f \in Window, tef_tail + 1 <= f, f < tef_tail + 1 + ObjNum
        PROVE  echo'[Slot(f)] = IF EchoWaits(f) THEN f ELSE None
    <3>1. CASE f = tef_tail + ObjNum
      <4>1. Slot(f) = Slot(tef_tail)
        BY <3>1, <1>a, SlotPeriod DEF Numbers
      <4>2. ~EchoWaits(f)
        BY <3>1, <1>a DEF EchoWaits, Numbers, Order
      <4> QED BY <4>1, <4>2, <2>1, <1>a, <1>b, <1>c DEF Numbers
    <3>2. CASE f < tef_tail + ObjNum
      <4>1. Slot(f) # Slot(tef_tail)
        BY <3>2, <2>2, <1>a, SlotDistinct DEF Numbers, Window
      <4>2. echo'[Slot(f)] = echo[Slot(f)]
        BY <4>1, <2>1
      <4> QED BY <4>2, <3>2, <2>2, <1>a DEF EchoSlots, Numbers, Window
    <3> QED BY <3>1, <3>2, <2>2, <1>a DEF Numbers, Window
  <2>3. ASSUME NEW f \in Window, tef_tail + 1 <= f
        PROVE  EchoWaits(f)' <=> EchoWaits(f)
    BY <2>1, <2>3, <1>a DEF EchoWaits, Numbers, Window
  <2> QED
    BY <2>1, <2>2, <2>3, <1>a DEF EchoSlots, Numbers
<1>3. CASE XmitPublish
  BY <1>3, <1>a DEF XmitPublish, TxObjFromSkb, XmitStep, EchoSlots, EchoWaits,
                    Numbers
<1>4. CASE XmitEnter \/ XmitEnterBusy \/ XmitBusyStop \/ XmitRecheck
           \/ XmitDecide \/ XmitStop \/ XmitWrite \/ XmitWriteFails
  <2>1. /\ UNCHANGED <<tef_tail, accepted, reported, lastEcho, echo>>
        /\ xpc' \in {"decide", "stop", "echo"}
             <=> xpc \in {"decide", "stop", "echo"}
    BY <1>4 DEF XmitEnter, XmitEnterBusy, XmitBusyStop, XmitRecheck, XmitDecide,
                XmitStop, XmitWrite, XmitWriteFails, XmitStep, rings
  <2> QED BY <2>1, <1>a DEF EchoSlots, EchoWaits
<1>5. CASE Controller \/ (Irq /\ ~IrqHandleOne) \/ IrqSpiFails \/ UNCHANGED vars
  <2>1. UNCHANGED <<tef_tail, accepted, reported, lastEcho, echo, xpc>>
    BY <1>5 DEF Controller, SpiTransfer, SpiTransferFails, ChipSend,
                ChipStoreTef, Irq,
                IrqReadTail, IrqUpdate, IrqReadLinear, IrqReadRest,
                IrqLoopEnds, IrqUinc, IrqAdvance, IrqFree, IrqWake,
                IrqSpiFails, rings, vars
  <2> QED BY <2>1, <1>a DEF EchoSlots, EchoWaits
<1> QED
  BY <1>1, <1>2, <1>3, <1>4, <1>5 DEF Next, Xmit

\* A TEF slot that is read although the controller has not written it again
\* has a sequence number other than the expected one: its object was the one
\* the driver accepted a ring ago.
LEMMA TefObject ==
  ASSUME RingInv, tx_tail < tefPut, tx_tail = tef_tail,
         NEW f \in Int, tx_tail <= f, f < tef_head
  PROVE  \/ f < tefPut
         \/ Seq7(tefram[Slot(f)]) # Seq7(f)
<1>a. Numbers /\ Order /\ TefChecked
  BY TxOrder DEF RingInv, ChipInv
<1>1. CASE f < tefPut
  BY <1>1
<1>2. CASE f >= tefPut
  <2>1. Slot(f - ObjNum) = Slot(f)
    <3>1. f - ObjNum \in Int /\ f - ObjNum + ObjNum = f
      BY <1>a DEF Numbers
    <3>2. Slot(f - ObjNum + ObjNum) = Slot(f - ObjNum)
      BY <3>1, SlotPeriod
    <3> QED BY <3>1, <3>2
  <2>2. /\ f - ObjNum \in Window
        /\ tefPut - ObjNum <= f - ObjNum /\ f - ObjNum < tef_tail
    BY <1>2, <1>a DEF Numbers, Order, Window
  <2> DEFINE g == IF f - ObjNum < 0 THEN 0 ELSE f - ObjNum
  <2>3. Seq7(tefram[Slot(f)]) = Seq7(g)
    BY <2>1, <2>2, <1>a DEF TefChecked
  <2>4. g \in Int /\ g < f /\ f - g < SeqMod /\ SeqMod \in Nat \ {0}
    BY <1>2, <1>a DEF Numbers, Order
  <2> HIDE DEF g
  <2>5. g % SeqMod # f % SeqMod
    BY <2>4, ModDistinct
  <2> QED BY <2>3, <2>5 DEF Seq7
<1> QED BY <1>1, <1>2, <1>a DEF Numbers

LEMMA ReadStep ==
  ASSUME NoWrap, RingInv, [Next]_vars
  PROVE  ReadObjs'
<1>a. /\ Numbers /\ Order /\ ChipCursors /\ ReadObjs /\ IrqKnows
      /\ TefLen = tef_head - tef_tail
  BY TxOrder, PlainCounters DEF RingInv, ChipInv, DriverInv
<1>b. Slots = 0 .. ObjNum - 1 /\ Slot(tef_tail) \in Slots
  BY <1>a, SlotType DEF Slots, Numbers
<1>1. CASE IrqReadLinear
  <2>0. /\ ipc = "read" /\ tef_tail = tx_tail /\ tx_tail < tefPut
    BY <1>1, <1>a DEF IrqReadLinear, IrqStep, IrqKnows, ChipCursors
  <2>1. ASSUME NEW i \in Slots, i < TefLinearLen
        PROVE  \/ objs'[i] = tefram[Slot(tx_tail + i)] /\ tx_tail + i < tefPut
               \/ Seq7(objs'[i]) # Seq7(tx_tail + i)
    <3>1. objs'[i] = tefram[Slot(tef_tail) + i]
      BY <1>1, <2>1 DEF IrqReadLinear
    <3>2. /\ Slot(tef_tail) + i < ObjNum /\ tx_tail + i < tef_head
          /\ i \in 0 .. ObjNum
      BY <2>0, <2>1, <1>a, <1>b DEF TefLinearLen, Numbers, Order
    <3>3. Slot(tx_tail + i) = Slot(tef_tail) + i
      BY <3>2, <2>0, <1>a, SlotAdd DEF Numbers
    <3> QED BY <3>1, <3>2, <3>3, <2>0, <1>a, TefObject DEF Numbers
  <2>2. /\ ipc' = "handle" => len' = TefLinearLen
        /\ UNCHANGED <<tx_tail, tef_tail, tef_head, tefPut, tefram>>
    <3>1. /\ len' = TefLen
          /\ UNCHANGED <<tx_tail, tef_tail, tef_head, tefPut, tefram>>
      BY <1>1 DEF IrqReadLinear, rings, chip
    <3>2. ipc' = "handle" => ~(TefLinearLen < TefLen)
      BY <1>1 DEF IrqReadLinear, IrqStep
    <3>3. ~(TefLinearLen < TefLen) => TefLinearLen = TefLen
      BY <1>a, <1>b DEF TefLinearLen, Numbers
    <3> QED BY <3>1, <3>2, <3>3
  <2>3. TefLinearLen' = TefLinearLen
    BY <2>2 DEF TefLinearLen, TefLen
  <2> QED BY <2>1, <2>2, <2>3 DEF ReadObjs
<1>2. CASE IrqReadRest
  <2>0. /\ ipc = "readrest" /\ tef_tail = tx_tail /\ tx_tail < tefPut
        /\ ok = 0 /\ tx_tail + len = tef_head
    BY <1>2, <1>a DEF IrqReadRest, IrqStep, IrqKnows, ChipCursors
  <2>1. ASSUME NEW i \in Slots, i < len
        PROVE  \/ objs'[i] = tefram[Slot(tx_tail + i)] /\ tx_tail + i < tefPut
               \/ Seq7(objs'[i]) # Seq7(tx_tail + i)
    <3>1. CASE TefLinearLen <= i
      <4>1. objs'[i] = tefram[i - TefLinearLen]
        BY <1>2, <2>1, <3>1 DEF IrqReadRest
      <4>2. TefLinearLen = ObjNum - Slot(tef_tail)
        BY <2>0, <2>1, <3>1, <1>a, <1>b DEF TefLinearLen, Numbers
      <4>3. /\ Slot(tef_tail) + i >= ObjNum /\ tx_tail + i < tef_head
            /\ i \in 0 .. ObjNum
            /\ i - TefLinearLen = Slot(tef_tail) + i - ObjNum
        BY <4>2, <2>0, <2>1, <3>1, <1>a, <1>b DEF Numbers
      <4>4. Slot(tx_tail + i) = Slot(tef_tail) + i - ObjNum
        BY <4>3, <2>0, <1>a, SlotAdd DEF Numbers
      <4> QED BY <4>1, <4>3, <4>4, <2>0, <1>a, TefObject DEF Numbers
    <3>2. CASE ~(TefLinearLen <= i)
      <4>1. objs'[i] = objs[i]
        BY <1>2, <3>2, <2>1 DEF IrqReadRest
      <4>2. ok <= i /\ i < TefLinearLen
        BY <3>2, <2>0, <1>a, <1>b DEF TefLinearLen, Numbers
      <4>3. \/ objs[i] = tefram[Slot(tx_tail + i)] /\ tx_tail + i < tefPut
            \/ Seq7(objs[i]) # Seq7(tx_tail + i)
        BY <4>2, <2>0, <1>a DEF ReadObjs
      <4> QED BY <4>1, <4>3
    <3> QED BY <3>1, <3>2
  <2>2. ipc' = "handle" /\ UNCHANGED <<tx_tail, tefPut, tefram, len>>
    BY <1>2 DEF IrqReadRest, IrqStep, rings, chip
  <2> QED BY <2>1, <2>2 DEF ReadObjs
<1>3. CASE IrqHandleOne
  BY <1>3, <1>a, <1>b DEF IrqHandleOne, chip, ReadObjs, Numbers
<1>4. CASE IrqReadTail \/ IrqUpdate \/ IrqLoopEnds \/ IrqUinc \/ IrqAdvance
           \/ IrqFree \/ IrqWake \/ IrqSpiFails
  <2>1. ipc' \notin {"readrest", "handle"}
    BY <1>4 DEF IrqReadTail, ChipTxTail, IrqUpdate, IrqLoopEnds, IrqUinc,
                IrqAdvance, IrqFree, IrqWake, IrqSpiFails, IrqStep
  <2> QED BY <2>1 DEF ReadObjs
<1>5. CASE Xmit \/ Controller \/ UNCHANGED vars
  <2>1. UNCHANGED <<ipc, ok, len, objs, tx_tail, tef_head, tef_tail>>
    BY <1>5 DEF Xmit, XmitEnter, XmitEnterBusy, XmitBusyStop, XmitRecheck,
                XmitPublish, TxObjFromSkb, XmitDecide, XmitStop, XmitEcho,
                XmitWrite, XmitWriteFails, Controller, SpiTransfer,
                SpiTransferFails, ChipSend,
                ChipStoreTef, rings, locals, vars
  <2>2. \/ UNCHANGED <<tefPut, tefram>>
        \/ /\ tefPut' = tefPut + 1 /\ tefPut < chipTail
           /\ tefram' = [tefram EXCEPT ![Slot(tefPut)] = wire]
    BY <1>5 DEF Xmit, XmitEnter, XmitEnterBusy, XmitBusyStop, XmitRecheck,
                XmitPublish, TxObjFromSkb, XmitDecide, XmitStop, XmitEcho,
                XmitWrite, XmitWriteFails, Controller, SpiTransfer,
                SpiTransferFails, ChipSend,
                ChipStoreTef, chip, vars
  <2>3. TefLinearLen' = TefLinearLen
    BY <2>1 DEF TefLinearLen, TefLen
  <2>4. ASSUME NEW i \in Slots, tx_tail + i < tefPut
        PROVE  tefram'[Slot(tx_tail + i)] = tefram[Slot(tx_tail + i)]
    <3>1. CASE UNCHANGED tefram
      BY <3>1
    <3>2. CASE /\ tefPut < chipTail
               /\ tefram' = [tefram EXCEPT ![Slot(tefPut)] = wire]
      <4>1. Slot(tx_tail + i) # Slot(tefPut)
        BY <1>a, <1>b, <2>4, <3>2, SlotDistinct DEF Numbers, Order
      <4> QED BY <3>2, <4>1
    <3> QED BY <2>2, <3>1, <3>2
  <2>5. \A i \in Slots : tx_tail + i < tefPut => tx_tail + i < tefPut'
    BY <2>2, <1>a, <1>b DEF Numbers
  <2> QED BY <2>1, <2>3, <2>4, <2>5, <1>a DEF ReadObjs
<1> QED
  BY <1>1, <1>2, <1>3, <1>4, <1>5 DEF Next, Irq

LEMMA RingStep ==
  ASSUME NoWrap, RingInv, [Next]_vars
  PROVE  RingInv'
<1>1. DriverInv'
  BY DriverStep DEF RingInv
<1>2. ChipInv'
  BY CursorsStep, PreparedStep, TefStep, EchoStep, ReadStep DEF ChipInv
<1> QED BY <1>1, <1>2 DEF RingInv

-----------------------------------------------------------------------------
(* What holds whatever SPI transfer fails.                                 *)

\* The part of the invariant that ties the cursors, the echo slots and the TEF
\* together, asynchronous messages that are lost included.
THEOREM RingInvariant == ASSUME NoWrap PROVE Spec => []RingInv
<1>1. Init => RingInv
  BY DriverInit, ChipInit DEF RingInv
<1>2. RingInv /\ [Next]_vars => RingInv'
  BY RingStep
<1> QED BY <1>1, <1>2, PTL DEF Spec

\* The controller's TEF, which has no flow control, never overflows and never
\* has more objects released than it holds.
THEOREM TefSafe == ASSUME NoWrap PROVE Spec => []TefNeverOverflows
<1>1. ASSUME RingInv PROVE TefNeverOverflows
  <2>1. Numbers /\ Order /\ ChipCursors
    BY <1>1, TxOrder DEF RingInv, ChipInv
  <2> QED BY <2>1 DEF ChipCursors, Numbers, Order, TefNeverOverflows
<1> QED BY <1>1, RingInvariant, PTL

\* can_put_echo_skb never drops an skb and can_get_echo_skb never misses one.
THEOREM EchoCorrect == ASSUME NoWrap PROVE Spec => []EchoOwned
<1>1. ASSUME RingInv PROVE EchoOwned
  <2>a. Numbers /\ XmitKnows
    BY <1>1, TxOrder DEF RingInv, DriverInv
  <2>1. ASSUME xpc = "echo" PROVE CurrentSlot = Slot(accepted - 1)
    BY <2>1, <2>a DEF XmitKnows, Sub, Numbers, CurrentSlot
  <2>2. ASSUME ipc = "handle", ok < len, SeqMatches
        PROVE  echo[Slot(tef_tail)] = reported
    BY <1>1, <2>2, <2>a, SeqTells, EchoFacts DEF Numbers
  <2> QED BY <1>1, <2>1, <2>2, EchoFacts DEF EchoOwned
<1> QED BY <1>1, RingInvariant, PTL

\* A stopped queue has frames to complete, or one of the threads is about to
\* look at the ring again.
StoppedForReason ==
  stopped => \/ tx_tail # tx_head
             \/ ipc \in {"free", "wake"}
             \/ xpc = "recheck"

\* The test of the ring and the stop of the queue in start_xmit against the
\* release of the ring and the wake in handle_tefif.
LEMMA StopHasReason == ASSUME NoWrap PROVE Spec => []StoppedForReason
<1>1. Init => StoppedForReason
  BY DEF Init, StoppedForReason
<1>2. ASSUME RingInv, StoppedForReason, [Next]_vars PROVE StoppedForReason'
  <2>a. Numbers /\ Order /\ IrqKnows
    BY <1>2, TxOrder DEF RingInv, DriverInv
  <2>b. TxFull => tx_tail # tx_head
    BY <1>2, <2>a, PlainCounters DEF RingInv, TxFull, Numbers
  <2> USE <1>2 DEF XmitStep, IrqStep, rings, locals, chip, StoppedForReason
  <2>1. CASE XmitStop
    BY <2>1, <2>a DEF XmitStop, Loading, Numbers, Order
  <2>2. CASE XmitBusyStop
    BY <2>2 DEF XmitBusyStop
  <2>3. CASE XmitRecheck
    BY <2>3, <2>b DEF XmitRecheck
  <2>4. CASE XmitPublish
    BY <2>4, <2>a DEF XmitPublish, TxObjFromSkb, Add, NoWrap, Numbers, Order
  <2>5. CASE IrqAdvance
    BY <2>5 DEF IrqAdvance
  <2>6. CASE IrqFree
    BY <2>6, <2>b DEF IrqFree
  <2>7. CASE IrqWake
    BY <2>7 DEF IrqWake
  <2>8. CASE XmitEnter \/ XmitEnterBusy \/ XmitDecide \/ XmitEcho
             \/ XmitWrite \/ XmitWriteFails
    BY <2>8 DEF XmitEnter, XmitEnterBusy, XmitDecide, XmitEcho, XmitWrite,
                XmitWriteFails
  <2>9. CASE Controller
    BY <2>9 DEF Controller, SpiTransfer, SpiTransferFails, ChipSend,
                ChipStoreTef
  <2>10. CASE IrqReadTail \/ IrqUpdate \/ IrqReadLinear \/ IrqReadRest
              \/ IrqHandleOne \/ IrqLoopEnds \/ IrqUinc \/ IrqSpiFails
    BY <2>10 DEF IrqReadTail, ChipTxTail, IrqUpdate, IrqReadLinear, IrqReadRest,
                 IrqHandleOne, IrqLoopEnds, IrqUinc, IrqSpiFails
  <2>11. CASE UNCHANGED vars
    BY <2>11 DEF vars
  <2> QED
    BY <2>1, <2>2, <2>3, <2>4, <2>5, <2>6, <2>7, <2>8, <2>9, <2>10, <2>11
    DEF Next, Xmit, Irq
<1> QED BY <1>1, <1>2, RingInvariant, PTL DEF Spec

\* The stop in start_xmit and the wake in handle_tefif never miss each other:
\* a stopped queue has somebody who is about to look at the ring, or a frame
\* whose TEF object will make the handler look.  The exceptions are those of
\* NoLostWakeup: a handler that died of a failing transfer, and a frame whose
\* SPI message was lost.
THEOREM WakeupNotLost == ASSUME NoWrap PROVE Spec => []NoLostWakeup
<1>1. ASSUME RingInv, StoppedForReason PROVE NoLostWakeup
  <2>a. Numbers /\ Order /\ ChipCursors /\ IrqKnows /\ ThreadTypes
    BY <1>1, TxOrder DEF RingInv, ChipInv, DriverInv, TypeOK
  <2>b. spiq \in Seq(Slots)
    BY <1>1 DEF RingInv, DriverInv, TypeOK, ChipTypes
  <2>1. ASSUME tx_tail # tx_head, ipc = "idle", asyncFails = 0
        PROVE  AnswerDue
    <3>1. tefGet < accepted
      BY <2>1, <2>a DEF IrqKnows, ChipCursors, Numbers, Order
    <3>2. CASE Loading \/ spiq # <<>>
      BY <3>2 DEF Loading, AnswerDue
    <3>3. CASE ~Loading /\ spiq = <<>>
      <4>1. Len(spiq) = 0
        BY <3>3
      <4>2. tefGet < chipHead
        BY <2>1, <2>a, <3>1, <3>3, <4>1 DEF ChipCursors, Numbers
      <4> QED BY <2>a, <4>2 DEF AnswerDue, Numbers
    <3> QED BY <3>2, <3>3
  <2> QED
    BY <1>1, <2>1, <2>a DEF StoppedForReason, NoLostWakeup, ThreadTypes, Numbers
<1> QED BY <1>1, StopHasReason, RingInvariant, PTL

-----------------------------------------------------------------------------
(* What holds as long as spi_async succeeds.                               *)

\* The inductive invariant, with the place of each frame.
THEOREM TxInvariant == ASSUME NoWrap, NoAsyncFails PROVE Spec => []TxInv
<1>1. Init => TxInv
  BY DriverInit, ChipInit DEF TxInv, RingInv
<1>2. TxInv /\ [Next]_vars => TxInv'
  BY RingStep, InFlightStep DEF TxInv
<1> QED BY <1>1, <1>2, PTL DEF Spec

\* No TX object, and no slot of the controller's TX FIFO, is reused before
\* its frame was sent.
THEOREM SlotsNotReused ==
  ASSUME NoWrap, NoAsyncFails PROVE Spec => []NoReuseInFlight
<1>1. ASSUME TxInv PROVE NoReuseInFlight
  <2>a. /\ Numbers /\ Order /\ ChipCursors /\ Prepared /\ InFlight
    BY <1>1, TxOrder DEF TxInv, RingInv, ChipInv
  <2>1. ASSUME NEW i \in 1 .. Len(spiq)
        PROVE  obj[spiq[i]] = chipHead + i - 1
    <3>1. /\ chipHead + i - 1 \in Window
          /\ chipHead <= chipHead + i - 1 /\ chipHead + i - 1 < accepted
      BY <2>a DEF Numbers, Order, ChipCursors, Window
    <3>2. obj[Slot(chipHead + i - 1)] = chipHead + i - 1
      BY <3>1, <2>a DEF Prepared, Numbers, Order, Window
    <3> QED BY <3>2, <2>a DEF InFlight
  <2>2. ASSUME NEW f \in Frames PROVE f \in Window
    BY <2>a DEF Frames, Window, Numbers
  <2> QED BY <2>1, <2>2, <2>a DEF InFlight, NoReuseInFlight
<1> QED BY <1>1, TxInvariant, PTL

\* The driver, the SPI queue and the controller implement TxService: every
\* frame is sent once and in order, and its echo handed back once, in order
\* and after it was sent.
THEOREM ServiceImplemented ==
  ASSUME NoWrap, NoAsyncFails PROVE Spec => ServiceSpec
<1> USE DEF Service!vars, None
<1>1. Init => Service!Init
  BY DEF Init, Service!Init
<1>2. ASSUME TxInv, [Next]_vars PROVE [Service!Next]_(Service!vars)
  <2>a. Numbers /\ Order /\ InFlight /\ XmitKnows
    BY <1>2, TxOrder DEF TxInv, RingInv, DriverInv
  <2> USE <1>2 DEF XmitStep, IrqStep, rings, locals, chip
  <2>1. CASE XmitPublish
    <3>1. accepted - reported < ObjNum
      BY <2>1, <2>a DEF XmitPublish, TxObjFromSkb, XmitKnows, Numbers, Order
    <3> QED
      BY <2>1, <3>1
      DEF XmitPublish, TxObjFromSkb, Service!Next, Service!Accept
  <2>2. CASE ChipSend
    <3>1. /\ chipTail < accepted /\ chipTail < chipHead
          /\ chipTail \in Window /\ chipTail <= chipTail
      BY <2>2, <2>a DEF ChipSend, Numbers, Order, Window
    <3>2. txram[Slot(chipTail)] = chipTail
      BY <3>1, <2>a DEF InFlight
    <3> QED BY <2>2, <3>1, <3>2 DEF ChipSend, Service!Next, Service!Send
  <2>3. CASE IrqHandleOne
    <3>1. reported < chipTail /\ echo[Slot(tef_tail)] = reported
      BY <1>2, <2>3, <2>a, SeqTells, EchoFacts
      DEF TxInv, IrqHandleOne, Numbers, Order
    <3> QED BY <2>3, <3>1 DEF IrqHandleOne, Service!Next, Service!Report
  <2>4. ASSUME ~XmitPublish, ~ChipSend, ~IrqHandleOne
        PROVE  UNCHANGED <<accepted, chipTail, reported, wire, lastEcho>>
    <3> USE <2>4
    <3>1. CASE Xmit
      BY <3>1 DEF Xmit, XmitEnter, XmitEnterBusy, XmitBusyStop, XmitRecheck,
                  XmitDecide, XmitStop, XmitEcho, XmitWrite, XmitWriteFails
    <3>2. CASE Controller
      BY <3>2 DEF Controller, SpiTransfer, SpiTransferFails, ChipStoreTef
    <3>3. CASE Irq
      BY <3>3 DEF Irq, IrqReadTail, IrqUpdate, IrqReadLinear, IrqReadRest,
                  IrqLoopEnds, IrqUinc, IrqAdvance, IrqFree, IrqWake
    <3>4. CASE IrqSpiFails
      BY <3>4 DEF IrqSpiFails
    <3>5. CASE UNCHANGED vars
      BY <3>5 DEF vars
    <3> QED BY <3>1, <3>2, <3>3, <3>4, <3>5 DEF Next
  <2> QED BY <2>1, <2>2, <2>3, <2>4
<1> QED BY <1>1, <1>2, TxInvariant, PTL DEF Spec, ServiceSpec, Service!Spec
=============================================================================
