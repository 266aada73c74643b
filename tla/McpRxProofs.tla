---------------------------- MODULE McpRxProofs ----------------------------
(***************************************************************************)
(* Theorems about McpRx for every ring size, every number of frames and    *)
(* every number of SPI failures, the wrap-around of the ring counters      *)
(* included: RxInv is inductive and the driver implements RxService.       *)
(***************************************************************************)
EXTENDS McpRx, RingLemmas, SequenceTheorems

-----------------------------------------------------------------------------
(* Counters that wrap.                                                     *)

\* The slot of every counter is a slot of the ring.
LEMMA RxSlotType == ASSUME NEW c \in Int PROVE Slot(c) \in Slots
<1>1. ObjNum \in Nat \ {0}
  BY RxAssumption
<1> QED BY <1>1, ModRange DEF Slot, Slots

\* Adding to a wrapped counter.
LEMMA WrapAdd ==
  ASSUME NEW c \in Int, NEW d \in 0 .. ObjNum
  PROVE  /\ Add(c % Wrap, d) = (c + d) % Wrap
         /\ Sub((c + d) % Wrap, c % Wrap) = d
         /\ c % Wrap \in 0 .. Wrap - 1
<1>1. Wrap \in Nat \ {0} /\ ObjNum \in Nat \ {0} /\ d \in 0 .. Wrap /\ d < Wrap
  BY RxAssumption
<1>2. c % Wrap \in 0 .. Wrap - 1
  BY <1>1, ModRange
<1>3. /\ (c % Wrap) + d < Wrap => (c + d) % Wrap = (c % Wrap) + d
      /\ (c % Wrap) + d >= Wrap => (c + d) % Wrap = (c % Wrap) + d - Wrap
  BY <1>1, ModAdd, Zenon
<1> QED BY <1>1, <1>2, <1>3 DEF Add, Sub

\* A wrapped counter points to the slot of the unbounded one.
LEMMA WrapSlot ==
  ASSUME NEW c \in Int PROVE Slot(c % Wrap) = Slot(c)
<1>1. Wrap \in Nat \ {0} /\ ObjNum \in Nat \ {0} /\ Wrap % ObjNum = 0
  BY RxAssumption
<1> QED BY <1>1, ModMod DEF Slot

\* Adding to a counter moves its slot, around the end of the ring.
LEMMA RxSlotAdd ==
  ASSUME NEW c \in Int, NEW i \in 0 .. ObjNum
  PROVE  /\ Slot(c) + i < ObjNum => Slot(c + i) = Slot(c) + i
         /\ Slot(c) + i >= ObjNum => Slot(c + i) = Slot(c) + i - ObjNum
<1>1. ObjNum \in Nat \ {0}
  BY RxAssumption
<1> QED BY <1>1, ModAdd, Zenon DEF Slot

\* Two counters less than a ring apart have different slots.
LEMMA RxSlotDistinct ==
  ASSUME NEW a \in Int, NEW b \in Int, a < b, b - a < ObjNum
  PROVE  Slot(a) # Slot(b)
<1>1. ObjNum \in Nat \ {0}
  BY RxAssumption
<1> QED BY <1>1, ModDistinct DEF Slot

\* From a head equal to the tail and a FIFO that is not empty, the new head
\* that rx_ring_update computes is exactly the controller's.
LEMMA NewHeadExact ==
  ASSUME NEW g \in Nat, NEW d \in 1 .. ObjNum,
         head = g % Wrap, rxPut = g + d
  PROVE  NewHead = (g + d) % Wrap
<1> DEFINE r == Slot(head)
<1>1. /\ Wrap \in Nat \ {0} /\ ObjNum \in Nat \ {0} /\ Wrap % ObjNum = 0
      /\ g \in Int /\ d \in 0 .. ObjNum
  BY RxAssumption
<1>2. head \in 0 .. Wrap - 1 /\ Add(head, d) = (g + d) % Wrap
  BY <1>1, WrapAdd
<1>3. 0 <= head - r /\ head - r + ObjNum <= Wrap /\ r \in 0 .. ObjNum - 1
  <2>1. head \in Int
    BY <1>1, <1>2
  <2> QED BY <2>1, <1>1, <1>2, RoundDown, ModRange DEF Slot
<1>4. r = Slot(g)
  BY WrapSlot
<1>5. /\ r + d < ObjNum => Slot(rxPut) = r + d
      /\ r + d >= ObjNum => Slot(rxPut) = r + d - ObjNum
  BY <1>1, <1>4, RxSlotAdd
<1> HIDE DEF r
<1>6. CASE r + d < ObjNum
  <2>1. head - r + Slot(rxPut) = head + d /\ head + d < Wrap /\ head + d > head
    BY <1>1, <1>2, <1>3, <1>5, <1>6
  <2>2. NewHead = head + d
    BY <2>1, <1>1, <1>2 DEF NewHead, r
  <2>3. Add(head, d) = head + d
    BY <2>1, <1>1, <1>2 DEF Add
  <2> QED BY <2>2, <2>3, <1>2
<1>7. CASE r + d >= ObjNum
  <2>1. /\ head - r + Slot(rxPut) = head + d - ObjNum
        /\ head + d - ObjNum <= head
    BY <1>1, <1>2, <1>3, <1>5, <1>7
  <2>2. NewHead = Add(head + d - ObjNum, ObjNum)
    BY <2>1, <1>1, <1>2 DEF NewHead, r
  <2>3. Add(head + d - ObjNum, ObjNum) = Add(head, d)
    BY <1>1, <1>2 DEF Add
  <2> QED BY <2>2, <2>3, <1>2
<1> QED BY <1>1, <1>3, <1>6, <1>7

-----------------------------------------------------------------------------
(* The invariant.                                                          *)

\* The numbers the steps below reason about.
Numbers ==
  /\ rxGet \in Nat /\ rxPut \in Nat /\ handled \in Nat
  /\ len \in 0 .. ObjNum /\ ok \in 0 .. ObjNum
  /\ ObjNum \in Nat \ {0} /\ Wrap \in Nat \ {0} /\ ObjNum < Wrap
  /\ Slots = 0 .. ObjNum - 1
  /\ stored \in Seq(Nat) /\ rxram \in [Slots -> Nat \cup {None}]
  /\ objs \in [Slots -> Nat \cup {None}] /\ arrived \in Nat

LEMMA RxNumbers == ASSUME RxInv PROVE Numbers
<1>1. stored \in Seq(Nat)
  BY DEF RxInv, TypeOK
<1>2. rxPut \in Nat
  BY <1>1 DEF rxPut
<1> QED BY <1>1, <1>2, RxAssumption DEF RxInv, TypeOK, Numbers, Slots

\* Between the head and the tail lie only objects the controller has filled.
LEMMA RxLens ==
  ASSUME RxInv, ipc \in {"chunk", "deliver"}
  PROVE  /\ RxLen \in 0 .. ObjNum /\ RxLen <= rxPut - rxGet
         /\ head = (rxGet + RxLen) % Wrap /\ tail = rxGet % Wrap
         /\ Slot(tail) = Slot(rxGet) /\ Slot(tail) \in Slots
         /\ RxLinearLen \in 0 .. RxLen
         /\ RxLinearLen <= ObjNum - Slot(tail)
         /\ RxLinearLen = 0 => RxLen = 0
<1>1. Numbers /\ Cursors
  BY RxNumbers DEF RxInv
<1>2. PICK d \in 0 .. ObjNum : d <= rxPut - rxGet /\ head = (rxGet + d) % Wrap
  BY <1>1 DEF Cursors
<1>3. tail = rxGet % Wrap /\ rxGet \in Int
  BY <1>1 DEF Cursors, Numbers
<1>4. RxLen = d
  BY <1>2, <1>3, WrapAdd DEF RxLen
<1>5. Slot(tail) = Slot(rxGet) /\ Slot(tail) \in Slots
  BY <1>3, WrapSlot, RxSlotType
<1> QED
  BY <1>1, <1>2, <1>3, <1>4, <1>5 DEF Numbers, RxLinearLen

LEMMA RxInit == Init => RxInv
<1> SUFFICES ASSUME Init PROVE RxInv
  OBVIOUS
<1> USE RxAssumption DEF Init, None, rxPut
<1>1. TypeOK
  <2>1. stored \in Seq(Nat)
    BY SMT
  <2>2. head \in 0 .. Wrap - 1 /\ tail \in 0 .. Wrap - 1
    BY SMT
  <2>3. /\ objs \in [Slots -> Nat \cup {None}]
        /\ rxram \in [Slots -> Nat \cup {None}]
    BY SMT
  <2>4. len \in 0 .. ObjNum /\ ok \in 0 .. ObjNum /\ spiFails \in 0 .. MaxSpiFails
    BY SMT
  <2> QED BY <2>1, <2>2, <2>3, <2>4 DEF TypeOK
<1>2. Cursors
  <2>1. 0 % Wrap = 0
    BY ModUnique
  <2> QED BY <2>1 DEF Cursors
<1>3. Contents /\ Chunk
  BY DEF Contents, Chunk
<1> QED BY <1>1, <1>2, <1>3 DEF RxInv

LEMMA RxTypeStep == ASSUME RxInv, [Next]_vars PROVE TypeOK'
<1>a. Numbers /\ TypeOK
  BY RxNumbers DEF RxInv
<1> USE <1>a DEF IrqStep, thread, fifo
<1>1. CASE ChipReceive
  <2>1. Slot(rxPut) \in Slots
    BY RxSlotType DEF Numbers
  <2>2. stored' \in Seq(Nat)
    BY <1>1 DEF ChipReceive, Numbers
  <2>3. rxram' \in [Slots -> Nat \cup {None}] /\ arrived' \in Nat
    BY <1>1, <2>1 DEF ChipReceive, Numbers
  <2> QED BY <1>1, <2>2, <2>3 DEF ChipReceive, TypeOK
<1>2. CASE ChipLose
  BY <1>2 DEF ChipLose, TypeOK
<1>3. CASE IrqPin \/ IrqReadInt \/ RxEnds \/ OvRead \/ OvClear \/ OvReport
  BY <1>3 DEF IrqPin, IrqReadInt, RxEnds, OvRead, OvClear, OvReport, TypeOK
<1>4. CASE RxUpdate
  <2>1. NewHead \in 0 .. Wrap - 1
    <3>1. /\ Pending /\ head = rxGet % Wrap
          /\ rxPut - rxGet \in 1 .. ObjNum /\ rxPut = rxGet + (rxPut - rxGet)
      BY <1>4 DEF RxUpdate, RxInv, Cursors, Pending, Numbers
    <3>2. NewHead = (rxGet + (rxPut - rxGet)) % Wrap
      BY <3>1, NewHeadExact DEF Numbers
    <3> QED BY <3>2, ModRange DEF Numbers
  <2> QED BY <1>4, <2>1 DEF RxUpdate, TypeOK
<1>5. CASE RxRead
  <2>1. /\ RxLinearLen \in 0 .. ObjNum
        /\ \A i \in Slots : i < RxLinearLen => Slot(tail) + i \in Slots
    BY <1>5, RxLens DEF RxRead, Numbers
  <2>2. objs' \in [Slots -> Nat \cup {None}]
    BY <1>5, <2>1 DEF RxRead, TypeOK
  <2>3. len' \in 0 .. ObjNum /\ ok' \in 0 .. ObjNum
    BY <1>5, <2>1 DEF RxRead, Numbers
  <2> QED BY <1>5, <2>2, <2>3 DEF RxRead, TypeOK
<1>6. CASE RxDeliver
  <2>1. ok \in Slots /\ ok + 1 \in 0 .. ObjNum
    BY <1>6 DEF RxDeliver, Numbers
  <2>2. objs[ok] \in Nat \cup {None}
    BY <2>1 DEF TypeOK
  <2> QED BY <1>6, <2>1, <2>2 DEF RxDeliver, TypeOK
<1>7. CASE RxUinc
  <2>1. tail' \in 0 .. Wrap - 1
    <3>1. tail \in 0 .. Wrap - 1
      BY DEF TypeOK
    <3> QED BY <1>7, <3>1 DEF RxUinc, Add, Numbers
  <2> QED BY <1>7, <2>1 DEF RxUinc, TypeOK
<1>8. CASE RxSpiFails
  <2>1. PICK n \in 0 .. (IF ipc = "deliver" THEN len ELSE 0) : rxGet' = rxGet + n
    BY <1>8 DEF RxSpiFails
  <2>2. rxGet' \in Nat
    BY <2>1 DEF Numbers
  <2>3. ovif' \in BOOLEAN
    BY <1>8 DEF RxSpiFails, TypeOK
  <2>4. spiFails' \in 0 .. MaxSpiFails
    BY <1>8, RxAssumption DEF RxSpiFails, TypeOK
  <2> QED BY <1>8, <2>2, <2>3, <2>4 DEF RxSpiFails, TypeOK
<1>9. CASE UNCHANGED vars
  BY <1>9 DEF vars, TypeOK
<1> QED
  BY <1>1, <1>2, <1>3, <1>4, <1>5, <1>6, <1>7, <1>8, <1>9 DEF Next, Chip, Irq

LEMMA RxCursorsStep == ASSUME RxInv, [Next]_vars PROVE Cursors'
<1>a. Numbers /\ Cursors
  BY RxNumbers DEF RxInv
<1> USE <1>a DEF IrqStep, thread, fifo
<1>1. CASE ChipReceive
  <2>1. rxPut' = rxPut + 1
    BY <1>1 DEF ChipReceive, rxPut, Numbers
  <2>2. UNCHANGED <<head, tail, ipc, rxGet>> /\ rxPut - rxGet < ObjNum
    BY <1>1 DEF ChipReceive
  <2> HIDE DEF rxPut
  <2>3. ASSUME NEW d \in 0 .. ObjNum, d <= rxPut - rxGet
        PROVE  d <= rxPut' - rxGet'
    BY <2>1, <2>2, <2>3 DEF Numbers
  <2>4. Pending => Pending'
    BY <2>1, <2>2 DEF Pending, Numbers
  <2>5. rxGet' <= rxPut' /\ rxPut' <= rxGet' + ObjNum
    BY <2>1, <2>2 DEF Cursors, Numbers
  <2>6. ASSUME ipc \in {"chunk", "deliver"}
        PROVE  \E d \in 0 .. ObjNum : d <= rxPut' - rxGet' /\ head' = (rxGet' + d) % Wrap
    <3>1. PICK d \in 0 .. ObjNum : d <= rxPut - rxGet /\ head = (rxGet + d) % Wrap
      BY <2>6 DEF Cursors
    <3> QED BY <3>1, <2>2, <2>3
  <2> QED BY <2>2, <2>4, <2>5, <2>6 DEF Cursors
<1>2. CASE ChipLose \/ OvRead \/ OvClear \/ OvReport \/ RxRead \/ RxDeliver
  BY <1>2 DEF ChipLose, OvRead, OvClear, OvReport, RxRead, RxDeliver, Cursors,
              Pending, rxPut
<1>3. CASE IrqPin \/ IrqReadInt
  BY <1>3 DEF IrqPin, IrqReadInt, Cursors, Pending, rxPut
<1>4. CASE RxUpdate
  <2>1. /\ head = rxGet % Wrap
        /\ rxPut - rxGet \in 1 .. ObjNum /\ rxPut = rxGet + (rxPut - rxGet)
    BY <1>4 DEF RxUpdate, Cursors, Pending, Numbers
  <2>2. NewHead = (rxGet + (rxPut - rxGet)) % Wrap
    BY <2>1, NewHeadExact DEF Numbers
  <2>3. UNCHANGED <<tail, rxGet, rxPut>> /\ head' = NewHead /\ ipc' = "chunk"
    BY <1>4 DEF RxUpdate, rxPut
  <2>4. \E d \in 0 .. ObjNum : d <= rxPut - rxGet /\ head' = (rxGet + d) % Wrap
    <3>1. rxPut - rxGet \in 0 .. ObjNum /\ rxPut - rxGet <= rxPut - rxGet
      BY <2>1 DEF Numbers
    <3> QED BY <3>1, <2>2, <2>3
  <2> QED BY <1>4, <2>3, <2>4 DEF RxUpdate, Cursors
<1>5. CASE RxEnds
  <2>1. RxLen = 0
    BY <1>5, RxLens DEF RxEnds
  <2>2. head = tail
    <3>1. head = (rxGet + 0) % Wrap /\ tail = rxGet % Wrap /\ rxGet + 0 = rxGet
      BY <1>5, <2>1, RxLens DEF RxEnds, Numbers
    <3> QED BY <3>1
  <2> QED BY <1>5, <2>2 DEF RxEnds, Cursors, rxPut
<1>6. CASE RxUinc
  <2>1. /\ len = RxLinearLen /\ len \in 0 .. RxLen
        /\ RxLen \in 0 .. ObjNum /\ RxLen <= rxPut - rxGet
        /\ head = (rxGet + RxLen) % Wrap /\ tail = rxGet % Wrap
    BY <1>6, RxLens DEF RxUinc, RxInv, Chunk
  <2>2. tail' = (rxGet + len) % Wrap
    <3>1. tail' = Add(tail, len) /\ rxGet \in Int /\ len \in 0 .. ObjNum
      BY <1>6 DEF RxUinc, Numbers
    <3> QED BY <3>1, <2>1, WrapAdd
  <2>3. /\ rxGet' = rxGet + len /\ UNCHANGED <<head, rxPut>> /\ ipc' = "chunk"
    BY <1>6 DEF RxUinc, rxPut
  <2>4. \E d \in 0 .. ObjNum : d <= rxPut - rxGet' /\ head = (rxGet' + d) % Wrap
    <3>1. /\ RxLen - len \in 0 .. ObjNum
          /\ rxGet' + (RxLen - len) = rxGet + RxLen
          /\ RxLen - len <= rxPut - rxGet'
      BY <2>1, <2>3 DEF Numbers
    <3> QED BY <3>1, <2>1
  <2>5. rxGet' <= rxPut' /\ rxPut' <= rxGet' + ObjNum
    BY <2>1, <2>3 DEF Cursors, Numbers
  <2> QED BY <2>2, <2>3, <2>4, <2>5 DEF Cursors
<1>7. CASE RxSpiFails
  <2>1. PICK n \in 0 .. (IF ipc = "deliver" THEN len ELSE 0) : rxGet' = rxGet + n
    BY <1>7 DEF RxSpiFails
  <2>2. n \in 0 .. ObjNum /\ n <= rxPut - rxGet
    BY <2>1, RxLens DEF RxInv, Chunk, Cursors, Numbers
  <2>3. ipc' = "dead" /\ UNCHANGED rxPut
    BY <1>7 DEF RxSpiFails, rxPut
  <2> QED BY <2>1, <2>2, <2>3 DEF Cursors, Numbers
<1>8. CASE UNCHANGED vars
  BY <1>8 DEF vars, Cursors, Pending, rxPut
<1> QED
  BY <1>1, <1>2, <1>3, <1>4, <1>5, <1>6, <1>7, <1>8 DEF Next, Chip, Irq

\* handle_rxif_one gets the object of a frame that was kept, the next one.
LEMMA RxObject ==
  ASSUME RxInv, ipc = "deliver", ok < len
  PROVE  /\ handled = rxGet + ok /\ handled < rxPut
         /\ objs[ok] = stored[handled + 1]
<1>a. Numbers /\ Chunk /\ Cursors
  BY RxNumbers DEF RxInv
<1>1. /\ handled = rxGet + ok /\ len <= rxPut - rxGet
  BY <1>a, RxLens DEF Chunk, Numbers
<1>2. ok \in Slots
  BY <1>a DEF Numbers
<1>3. objs[ok] = stored[rxGet + ok + 1]
  BY <1>a, <1>2 DEF Chunk
<1> QED BY <1>a, <1>1, <1>3 DEF Numbers

LEMMA RxContentsStep == ASSUME RxInv, [Next]_vars PROVE Contents'
<1>a. Numbers /\ Contents /\ Cursors
  BY RxNumbers DEF RxInv
<1> USE DEF thread, fifo
<1>1. CASE ChipReceive
  <2>1. /\ rxPut' = rxPut + 1 /\ stored' = Append(stored, arrived)
        /\ rxram' = [rxram EXCEPT ![Slot(rxPut)] = arrived]
        /\ rxGet' = rxGet /\ rxPut - rxGet < ObjNum
    BY <1>1, <1>a DEF ChipReceive, rxPut, Numbers
  <2>2. Slot(rxPut) \in Slots
    BY <1>a, RxSlotType DEF Numbers
  <2>3. ASSUME NEW k \in 1 .. rxPut + 1, k > rxGet
        PROVE  rxram'[Slot(k - 1)] = stored'[k]
    <3>1. CASE k = rxPut + 1
      <4>1. k - 1 = rxPut
        BY <3>1, <1>a DEF Numbers
      <4>2. stored'[k] = arrived
        BY <3>1, <2>1, <1>a DEF rxPut, Numbers
      <4> QED BY <4>1, <4>2, <2>1, <2>2, <1>a DEF Numbers
    <3>2. CASE k # rxPut + 1
      <4>1. k \in 1 .. rxPut /\ k - 1 \in Int /\ k - 1 < rxPut /\ rxPut - (k - 1) < ObjNum
        BY <2>1, <2>3, <3>2, <1>a DEF Numbers
      <4>2. Slot(k - 1) # Slot(rxPut)
        BY <4>1, <1>a, RxSlotDistinct DEF Numbers
      <4>3. rxram'[Slot(k - 1)] = rxram[Slot(k - 1)]
        BY <4>2, <2>1
      <4>4. stored'[k] = stored[k]
        BY <4>1, <2>1, <1>a DEF rxPut, Numbers
      <4> QED BY <4>1, <4>3, <4>4, <2>3, <1>a DEF Contents
    <3> QED BY <3>1, <3>2
  <2> QED BY <2>1, <2>3 DEF Contents
<1>2. CASE RxUinc \/ RxSpiFails
  <2>1. PICK n \in Nat : rxGet' = rxGet + n
    <3>1. len \in Nat
      BY <1>a DEF Numbers
    <3>2. CASE RxUinc
      BY <3>1, <3>2 DEF RxUinc
    <3>3. CASE RxSpiFails
      <4>1. PICK n \in 0 .. (IF ipc = "deliver" THEN len ELSE 0) : rxGet' = rxGet + n
        BY <3>3 DEF RxSpiFails
      <4> QED BY <4>1, <3>1
    <3> QED BY <1>2, <3>2, <3>3
  <2>2. UNCHANGED <<rxram, stored, rxPut>>
    BY <1>2 DEF RxUinc, RxSpiFails, rxPut
  <2> QED BY <2>1, <2>2, <1>a DEF Contents, Numbers
<1>3. ASSUME ~ChipReceive, ~RxUinc, ~RxSpiFails
      PROVE  UNCHANGED <<rxram, stored, rxGet>>
  BY <1>3 DEF Next, Chip, ChipLose, Irq, IrqPin, IrqReadInt, RxUpdate, RxRead,
              RxDeliver, RxEnds, OvRead, OvClear, OvReport, vars
<1> QED BY <1>1, <1>2, <1>3, <1>a DEF Contents, rxPut

LEMMA RxChunkStep == ASSUME RxInv, [Next]_vars PROVE Chunk'
<1>a. Numbers /\ Contents /\ Cursors /\ Chunk
  BY RxNumbers DEF RxInv
<1> USE DEF thread, fifo, IrqStep
<1>1. CASE ChipReceive
  <2>1. /\ rxPut' = rxPut + 1 /\ UNCHANGED <<thread, ipc, rxGet, handled>>
        /\ \A k \in 1 .. rxPut : stored'[k] = stored[k]
    BY <1>1, <1>a DEF ChipReceive, rxPut, Numbers
  <2>2. RxLinearLen' = RxLinearLen
    BY <2>1 DEF RxLinearLen, RxLen
  <2>3. ASSUME ipc = "deliver", NEW i \in Slots, i < len
        PROVE  rxGet + i + 1 \in 1 .. rxPut
    BY <2>3, <1>a, RxLens DEF Chunk, Numbers
  <2>4. ASSUME ipc = "deliver", NEW i \in Slots, i < len
        PROVE  objs'[i] = stored'[rxGet + i + 1]
    BY <2>1, <2>3, <2>4, <1>a DEF Chunk
  <2>5. handled <= rxPut + 1
    BY <1>a DEF Chunk, Numbers
  <2> QED BY <2>1, <2>2, <2>4, <2>5, <1>a DEF Chunk
<1>2. CASE RxRead
  <2>1. /\ ipc = "chunk" /\ ipc' = "deliver" /\ len' = RxLinearLen /\ ok' = 0
        /\ UNCHANGED <<head, tail, handled, rxGet, stored, rxPut>>
        /\ objs' = [i \in Slots |-> IF i < RxLinearLen THEN rxram[Slot(tail) + i]
                                                       ELSE objs[i]]
    BY <1>2 DEF RxRead, rxPut
  <2>2. RxLinearLen' = RxLinearLen
    BY <2>1 DEF RxLinearLen, RxLen
  <2>3. ASSUME NEW i \in Slots, i < RxLinearLen
        PROVE  objs'[i] = stored[rxGet + i + 1]
    <3>1. /\ i \in 0 .. ObjNum /\ Slot(rxGet) + i < ObjNum
          /\ rxGet + i + 1 \in 1 .. rxPut /\ rxGet + i + 1 > rxGet
          /\ rxGet + i + 1 - 1 = rxGet + i /\ rxGet \in Int
      BY <2>1, <2>3, <1>a, RxLens DEF Numbers
    <3>2. Slot(rxGet + i) = Slot(tail) + i
      BY <3>1, <2>1, RxSlotAdd, RxLens
    <3>3. rxram[Slot(rxGet + i)] = stored[rxGet + i + 1]
      BY <3>1, <1>a DEF Contents
    <3> QED BY <3>2, <3>3, <2>1, <2>3
  <2>4. handled = rxGet /\ RxLinearLen \in Nat
    BY <2>1, <1>a, RxLens DEF Chunk, Numbers
  <2> QED BY <2>1, <2>2, <2>3, <2>4, <1>a DEF Chunk, Numbers
<1>3. CASE RxDeliver
  <2>1. handled < rxPut
    BY <1>3, RxObject DEF RxDeliver
  <2>2. RxLinearLen' = RxLinearLen /\ rxPut' = rxPut
    BY <1>3 DEF RxDeliver, RxLinearLen, RxLen, rxPut
  <2> QED BY <1>3, <2>1, <2>2, <1>a DEF RxDeliver, Chunk, Numbers
<1>4. CASE RxUinc
  <2>1. rxPut' = rxPut
    BY <1>4 DEF RxUinc, rxPut
  <2> QED BY <1>4, <2>1, <1>a DEF RxUinc, Chunk, Numbers
<1>5. CASE RxSpiFails
  <2>1. PICK n \in 0 .. (IF ipc = "deliver" THEN len ELSE 0) : rxGet' = rxGet + n
    BY <1>5 DEF RxSpiFails
  <2>2. /\ ipc' = "dead" /\ UNCHANGED <<handled, rxPut>>
        /\ ipc = "deliver" => ok = len
    BY <1>5 DEF RxSpiFails, rxPut
  <2> QED BY <2>1, <2>2, <1>a DEF Chunk, Numbers
<1>6. CASE IrqPin \/ IrqReadInt \/ RxUpdate \/ RxEnds \/ OvRead \/ OvClear \/ OvReport
  <2>1. /\ ipc' \notin {"deliver", "dead"} /\ UNCHANGED <<handled, rxGet, rxPut>>
        /\ ipc \notin {"deliver", "dead"}
    BY <1>6 DEF IrqPin, IrqReadInt, RxUpdate, RxEnds, OvRead, OvClear, OvReport,
                rxPut
  <2> QED BY <2>1, <1>a DEF Chunk
<1>7. CASE ChipLose \/ UNCHANGED vars
  <2>1. UNCHANGED <<ipc, head, tail, len, ok, objs, handled, rxGet, stored>>
    BY <1>7 DEF ChipLose, vars
  <2> QED BY <2>1, <1>a DEF Chunk, RxLinearLen, RxLen, rxPut
<1> QED BY <1>1, <1>2, <1>3, <1>4, <1>5, <1>6, <1>7 DEF Next, Chip, Irq

-----------------------------------------------------------------------------
(* The theorems.                                                           *)

\* The inductive invariant.
THEOREM RxInvariant == Spec => []RxInv
<1>1. Init => RxInv
  BY RxInit
<1>2. RxInv /\ [Next]_vars => RxInv'
  BY RxTypeStep, RxCursorsStep, RxContentsStep, RxChunkStep DEF RxInv
<1> QED BY <1>1, <1>2, PTL DEF Spec

\* Every variable of the receive path keeps its type: the cursors of the
\* driver stay in the range of its counters, FIFOCI and the objects of a read
\* within the ring.
THEOREM TypeCorrect == Spec => []TypeOK
<1>1. RxInv => TypeOK
  BY DEF RxInv
<1> QED BY <1>1, RxInvariant, PTL

\* rx_ring_update never takes an object for received that the controller has
\* not filled, the wrap of the counters included.
THEOREM RxHeadBacked == Spec => []HeadBacked
<1>1. ASSUME RxInv PROVE HeadBacked
  <2>a. Numbers /\ Cursors
    BY <1>1, RxNumbers DEF RxInv
  <2>1. CASE ipc \in {"chunk", "deliver"}
    BY <1>1, <2>1, <2>a, RxLens DEF HeadBacked, RxLen
  <2>2. CASE ipc \in {"idle", "update", "ovread", "ovclear", "ovreport"}
    <3>1. Sub(head, tail) = 0
      <4>1. head = tail /\ head \in Int
        BY <1>1, <2>2, <2>a DEF Cursors, RxInv, TypeOK
      <4> QED BY <4>1 DEF Sub
    <3> QED BY <3>1, <2>2, <2>a DEF HeadBacked, Cursors, Numbers
  <2> QED BY <1>1, <2>1, <2>2 DEF RxInv, TypeOK, HeadBacked
<1> QED BY <1>1, RxInvariant, PTL

\* The answer to a lost frame is given or still pending, whenever the next one is
\* lost, unless a failing transfer has ended the handler.
THEOREM RxLossReported == Spec => []LossNotForgotten
<1>1. Init => LossNotForgotten
  BY DEF Init, LossNotForgotten
<1>2. ASSUME LossNotForgotten, [Next]_vars PROVE LossNotForgotten'
  <2> USE <1>2 DEF LossNotForgotten, IrqStep, thread, fifo
  <2>1. CASE Chip
    BY <2>1 DEF Chip, ChipReceive, ChipLose
  <2>2. CASE Irq
    BY <2>2 DEF Irq, IrqPin, IrqReadInt, RxUpdate, RxRead, RxDeliver, RxUinc,
                RxEnds, OvRead, OvClear, OvReport
  <2>3. CASE RxSpiFails
    BY <2>3 DEF RxSpiFails
  <2>4. CASE UNCHANGED vars
    BY <2>4 DEF vars
  <2> QED BY <2>1, <2>2, <2>3, <2>4 DEF Next
<1> QED BY <1>1, <1>2, PTL DEF Spec

\* The driver and the controller implement RxService: frames are passed on
\* once and in order, and lost only when the RX FIFO is full.
THEOREM RxImplemented == Spec => ServiceSpec
<1> USE DEF Service!vars, None
<1>1. Init => Service!Init
  BY DEF Init, Service!Init
<1>2. ASSUME RxInv, [Next]_vars PROVE [Service!Next]_(Service!vars)
  <2>a. Numbers /\ Chunk /\ Cursors
    BY <1>2, RxNumbers DEF RxInv
  <2> USE <1>2 DEF IrqStep, thread, fifo
  <2>1. CASE ChipReceive
    BY <2>1 DEF ChipReceive, rxPut, Service!Next, Service!Keep
  <2>2. CASE ChipLose
    BY <2>2 DEF ChipLose, rxPut, Service!Next, Service!Lose
  <2>3. CASE RxDeliver
    <3>1. handled < rxPut /\ objs[ok] = stored[handled + 1]
      BY <2>3, RxObject DEF RxDeliver
    <3> QED BY <2>3, <3>1 DEF RxDeliver, rxPut, Service!Next, Service!PassOn
  <2>4. CASE RxUinc \/ RxSpiFails
    <3>1. PICK n \in 0 .. ObjNum : rxGet' = rxGet + n /\ rxGet' <= handled
      <4>1. CASE RxUinc
        <5>1. rxGet' = rxGet + len /\ len \in 0 .. ObjNum /\ handled = rxGet + len
          BY <4>1, <2>a DEF RxUinc, Chunk, Numbers
        <5> QED BY <5>1, <2>a DEF Numbers
      <4>2. CASE RxSpiFails
        <5>1. PICK n \in 0 .. (IF ipc = "deliver" THEN len ELSE 0) : rxGet' = rxGet + n
          BY <4>2 DEF RxSpiFails
        <5>2. ipc = "deliver" => handled = rxGet + len
          BY <4>2, <2>a DEF RxSpiFails, Chunk
        <5>3. n \in 0 .. ObjNum /\ rxGet + n <= handled
          BY <5>1, <5>2, <2>a DEF Chunk, Numbers
        <5> QED BY <5>1, <5>3
      <4> QED BY <2>4, <4>1, <4>2
    <3>2. UNCHANGED <<arrived, stored, handled, last, report>>
      BY <2>4 DEF RxUinc, RxSpiFails
    <3>3. CASE n = 0
      BY <3>1, <3>2, <3>3, <2>a DEF Numbers
    <3>4. CASE n \in 1 .. ObjNum
      BY <3>1, <3>2, <3>4 DEF Service!Next, Service!Free
    <3> QED BY <3>1, <3>3, <3>4, <2>a DEF Numbers
  <2>5. CASE OvReport
    BY <2>5 DEF OvReport, Service!Next, Service!ReportLoss, Service!AnswerLoss
  <2>6. CASE IrqPin \/ IrqReadInt \/ RxUpdate \/ RxRead \/ RxEnds \/ OvRead \/ OvClear
    BY <2>6 DEF IrqPin, IrqReadInt, RxUpdate, RxRead, RxEnds, OvRead, OvClear
  <2>7. CASE UNCHANGED vars
    BY <2>7 DEF vars
  <2> QED BY <2>1, <2>2, <2>3, <2>4, <2>5, <2>6, <2>7 DEF Next, Chip, Irq
<1> QED BY <1>1, <1>2, RxInvariant, PTL DEF Spec, ServiceSpec, Service!Spec
=============================================================================
