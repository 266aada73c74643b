------------------------------- MODULE McpTx -------------------------------
(***************************************************************************)
(* Transmit path of the mcp251xfd CAN driver: start_xmit (called by the    *)
(* network stack, one call at a time), the queue of asynchronous SPI       *)
(* messages, the TX FIFO and Transmit Event FIFO (TEF) of the controller,  *)
(* and mcp251xfd_handle_tefif in the threaded interrupt handler.           *)
(*                                                                         *)
(* A frame is the number of its call to start_xmit, 0, 1, 2, ...  The ring *)
(* counters of the driver are unsigned integers that wrap at Wrap (2^32 in *)
(* the code); the counters of the controller are history: the driver only  *)
(* ever sees chipTail modulo the ring size (FIFOCI).  SPI accesses of the  *)
(* interrupt thread may overtake queued frames, which allows more          *)
(* interleavings than the FIFO of the SPI core.                            *)
(***************************************************************************)
EXTENDS Integers, Sequences

CONSTANTS
  ObjNum,           \* tx_ring->obj_num: 8 for classical CAN, 4 for CAN FD
  SeqMod,           \* sequence numbers compared modulo this (7 bits: 128)
  Wrap,             \* the ring counters are modulo this (2^32)
  MaxFrames,        \* bound: calls of start_xmit that accept a frame
  MaxAsyncFails,    \* bound: spi_async calls or their messages that fail
  MaxSyncFails      \* bound: SPI transfers of the interrupt thread that fail

ASSUME RingAssumption ==
  /\ ObjNum \in Nat \ {0, 1}
  /\ SeqMod \in Nat /\ ObjNum < SeqMod
  /\ Wrap \in Nat /\ ObjNum < Wrap
  /\ Wrap % ObjNum = 0 /\ Wrap % SeqMod = 0

ASSUME BoundAssumption ==
  /\ MaxFrames \in Nat
  /\ MaxAsyncFails \in Nat
  /\ MaxSyncFails \in Nat

VARIABLES
  \* the rings of the driver
  tx_head, tx_tail, tef_head, tef_tail,
  obj,              \* tx_ring->obj[]: the frame prepared in each TX object
  echo,             \* can.echo_skb[]: the frame waiting in each echo slot
  stopped,          \* the TX queue of the network device is stopped
  \* the two threads of the driver
  xpc,              \* where start_xmit is
  ipc,              \* where the interrupt thread is
  seen,             \* chip_tx_tail as read by tef_ring_update
  len,              \* len in handle_tefif
  objs,             \* hw_tef_obj[]: the TEF objects read, as frame numbers
  ok,               \* i in handle_tefif: objects handled so far
  \* SPI core and controller
  spiq,             \* TX objects whose message is queued by spi_async
  txram, tefram,    \* TX objects and TEF objects in controller RAM
  chipHead,         \* frames loaded into the TX FIFO
  chipTail,         \* frames sent from the TX FIFO
  tefPut, tefGet,   \* TEF objects written and released
  \* history
  accepted,         \* frames accepted
  wire,             \* the frame that was last on the bus
  lastEcho,         \* the frame whose echo was handed back last
  reported,         \* echoes handed back
  asyncFails, syncFails

rings == <<tx_head, tx_tail, tef_head, tef_tail>>
locals == <<seen, len, objs, ok>>
chip == <<txram, tefram, chipHead, chipTail, tefPut, tefGet, wire>>
vars == <<rings, obj, echo, stopped, xpc, ipc, locals, spiq, chip,
          accepted, lastEcho, reported, asyncFails, syncFails>>

None == -1
Slots == 0 .. ObjNum - 1
Frames == 0 .. MaxFrames - 1

-----------------------------------------------------------------------------
(* Unsigned arithmetic of the ring counters.                               *)

Add(c, n) == IF c + n >= Wrap THEN c + n - Wrap ELSE c + n
Sub(c, d) == IF c >= d THEN c - d ELSE c - d + Wrap

\* The slot a counter points to: counter & (obj_num - 1).
Slot(c) == c % ObjNum

\* Mutant: the ring counts as full one frame too late.
TxFullLate == Sub(tx_head, tx_tail) > ObjNum

\* mcp251xfd_get_tx_free() = 0
TxFull == Sub(tx_head, tx_tail) = ObjNum

TefLen == Sub(tef_head, tef_tail)

\* Mutant: the first read stops one object short of the end of the TEF.
LinearLenShort ==
  LET room == ObjNum - 1 - Slot(tef_tail)
  IN  IF TefLen < room THEN TefLen ELSE room

\* Objects up to the end of the TEF, the rest is read from its beginning.
TefLinearLen ==
  IF TefLen < ObjNum - Slot(tef_tail) THEN TefLen ELSE ObjNum - Slot(tef_tail)

\* Bits of the sequence number that handle_tefif_one compares.
Seq7(f) == f % SeqMod

\* chip_ecc_init fills the controller RAM with zeroes: sequence number 0.
ZeroedRam == [s \in Slots |-> 0]

-----------------------------------------------------------------------------
Init ==
  /\ tx_head = 0 /\ tx_tail = 0 /\ tef_head = 0 /\ tef_tail = 0
  /\ obj = [s \in Slots |-> None]
  /\ echo = [s \in Slots |-> None]
  /\ stopped = FALSE
  /\ xpc = "idle" /\ ipc = "idle"
  /\ seen = 0 /\ len = 0 /\ ok = 0
  /\ objs = [i \in Slots |-> None]
  /\ spiq = <<>>
  /\ txram = ZeroedRam /\ tefram = ZeroedRam
  /\ chipHead = 0 /\ chipTail = 0 /\ tefPut = 0 /\ tefGet = 0
  /\ accepted = 0 /\ reported = 0
  /\ wire = None /\ lastEcho = None
  /\ asyncFails = 0 /\ syncFails = 0

-----------------------------------------------------------------------------
(* start_xmit.  The network stack calls it while the queue is not stopped. *)

XmitStep(from, to) == xpc = from /\ xpc' = to

\* tx_busy(): with room in the ring the frame is taken at once.
XmitEnter ==
  /\ ~stopped
  /\ accepted < MaxFrames
  /\ ~TxFull
  /\ XmitStep("idle", "publish")
  /\ UNCHANGED <<rings, obj, echo, stopped, ipc, locals, spiq, chip,
                 accepted, lastEcho, reported, asyncFails, syncFails>>

\* tx_busy(): without room ...
XmitEnterBusy ==
  /\ ~stopped
  /\ accepted < MaxFrames
  /\ TxFull
  /\ XmitStep("idle", "busy")
  /\ UNCHANGED <<rings, obj, echo, stopped, ipc, locals, spiq, chip,
                 accepted, lastEcho, reported, asyncFails, syncFails>>

\* ... the queue is stopped ...
XmitBusyStop ==
  /\ XmitStep("busy", "recheck")
  /\ stopped' = TRUE
  /\ UNCHANGED <<rings, obj, echo, ipc, locals, spiq, chip,
                 accepted, lastEcho, reported, asyncFails, syncFails>>

\* Mutant: the ring is not looked at again.
NoRecheck ==
  /\ XmitStep("recheck", "idle")
  /\ UNCHANGED <<rings, obj, echo, stopped, ipc, locals, spiq, chip,
                 accepted, lastEcho, reported, asyncFails, syncFails>>

\* ... and the ring looked at again, as the interrupt thread may have made
\* room before it could see the stopped queue.
XmitRecheck ==
  /\ IF TxFull
       THEN XmitStep("recheck", "idle") /\ UNCHANGED stopped
       ELSE XmitStep("recheck", "publish") /\ stopped' = FALSE
  /\ UNCHANGED <<rings, obj, echo, ipc, locals, spiq, chip,
                 accepted, lastEcho, reported, asyncFails, syncFails>>

\* tx_obj_from_skb(): the frame is prepared in the object at tx_head.
TxObjFromSkb == [obj EXCEPT ![Slot(tx_head)] = accepted]

\* tx_obj_from_skb() and tx_ring->head++
XmitPublish ==
  /\ XmitStep("publish", "decide")
  /\ obj' = TxObjFromSkb
  /\ tx_head' = Add(tx_head, 1)
  /\ accepted' = accepted + 1
  /\ UNCHANGED <<tx_tail, tef_head, tef_tail, echo, stopped, ipc, locals,
                 spiq, chip, lastEcho, reported, asyncFails, syncFails>>

\* Stop the queue if the frame fills the ring: the test ...
XmitDecide ==
  /\ IF Sub(tx_head, tx_tail) >= ObjNum
       THEN XmitStep("decide", "stop")
       ELSE XmitStep("decide", "echo")
  /\ UNCHANGED <<rings, obj, echo, stopped, ipc, locals, spiq, chip,
                 accepted, lastEcho, reported, asyncFails, syncFails>>

\* ... and netif_stop_queue().
XmitStop ==
  /\ XmitStep("stop", "echo")
  /\ stopped' = TRUE
  /\ UNCHANGED <<rings, obj, echo, ipc, locals, spiq, chip,
                 accepted, lastEcho, reported, asyncFails, syncFails>>

\* The object being transmitted is the one before tx_head.
CurrentSlot == Slot(Sub(tx_head, 1))

\* can_put_echo_skb(): a slot in use is kept and the new frame dropped.
XmitEcho ==
  /\ XmitStep("echo", "write")
  /\ echo' = IF echo[CurrentSlot] = None
               THEN [echo EXCEPT ![CurrentSlot] = obj[CurrentSlot]]
               ELSE echo
  /\ UNCHANGED <<rings, obj, stopped, ipc, locals, spiq, chip,
                 accepted, lastEcho, reported, asyncFails, syncFails>>

\* tx_obj_write(): the SPI message is queued.
XmitWrite ==
  /\ XmitStep("write", "idle")
  /\ spiq' = Append(spiq, CurrentSlot)
  /\ UNCHANGED <<rings, obj, echo, stopped, ipc, locals, chip,
                 accepted, lastEcho, reported, asyncFails, syncFails>>

\* spi_async() fails: the error is logged and the frame counts as sent.
XmitWriteFails ==
  /\ asyncFails < MaxAsyncFails
  /\ XmitStep("write", "idle")
  /\ asyncFails' = asyncFails + 1
  /\ UNCHANGED <<rings, obj, echo, stopped, ipc, locals, spiq, chip,
                 accepted, lastEcho, reported, syncFails>>

Xmit ==
  \/ XmitEnter \/ XmitEnterBusy \/ XmitBusyStop \/ XmitRecheck
  \/ XmitPublish \/ XmitDecide \/ XmitStop \/ XmitEcho \/ XmitWrite \/ XmitWriteFails

-----------------------------------------------------------------------------
(* SPI core and controller.                                                *)

\* The object of the first queued message, at the address of its slot.
Loaded == [txram EXCEPT ![Head(spiq)] = obj[Head(spiq)]]

\* A queued message is transferred: the object is loaded, then UINC and TXREQ
\* move the head of the TX FIFO.
SpiTransfer ==
  /\ spiq # <<>>
  /\ txram' = Loaded
  /\ chipHead' = chipHead + 1
  /\ spiq' = Tail(spiq)
  /\ UNCHANGED <<rings, obj, echo, stopped, xpc, ipc, locals, tefram,
                 chipTail, tefPut, tefGet, wire,
                 accepted, lastEcho, reported, asyncFails, syncFails>>

\* A queued message fails before UINC.  The message has no completion callback:
\* the driver never knows.
SpiTransferFails ==
  /\ asyncFails < MaxAsyncFails
  /\ spiq # <<>>
  /\ txram' \in {txram, Loaded}
  /\ spiq' = Tail(spiq)
  /\ asyncFails' = asyncFails + 1
  /\ UNCHANGED <<rings, obj, echo, stopped, xpc, ipc, locals, tefram,
                 chipHead, chipTail, tefPut, tefGet, wire,
                 accepted, lastEcho, reported, syncFails>>

\* The controller sends the object at the tail of its TX FIFO.  FIFOCI moves
\* now, the TEF object is written a little later, before the next frame.
ChipSend ==
  /\ chipTail < chipHead
  /\ chipTail = tefPut
  /\ wire' = txram[Slot(chipTail)]
  /\ chipTail' = chipTail + 1
  /\ UNCHANGED <<rings, obj, echo, stopped, xpc, ipc, locals, spiq, txram,
                 tefram, chipHead, tefPut, tefGet,
                 accepted, lastEcho, reported, asyncFails, syncFails>>

\* The controller stores the TEF object.
ChipStoreTef ==
  /\ tefPut < chipTail
  /\ tefram' = [tefram EXCEPT ![Slot(tefPut)] = wire]
  /\ tefPut' = tefPut + 1
  /\ UNCHANGED <<rings, obj, echo, stopped, xpc, ipc, locals, spiq, txram,
                 chipHead, chipTail, tefGet, wire,
                 accepted, lastEcho, reported, asyncFails, syncFails>>

Controller == SpiTransfer \/ SpiTransferFails \/ ChipSend \/ ChipStoreTef

-----------------------------------------------------------------------------
(* The interrupt thread: mcp251xfd_handle_tefif.                           *)

IrqStep(from, to) == ipc = from /\ ipc' = to

\* FIFOCI of the TX FIFO: its tail modulo the ring size.
ChipTxTail == Slot(chipTail)

\* Mutant: the handler runs although TEFIF is not pending.
SpuriousReadTail ==
  /\ IrqStep("idle", "update")
  /\ seen' = ChipTxTail
  /\ UNCHANGED <<rings, obj, echo, stopped, xpc, len, objs, ok, spiq, chip,
                 accepted, lastEcho, reported, asyncFails, syncFails>>

\* mcp251xfd_irq() found TEFIF pending and calls handle_tefif, which reads
\* the tail of the TX FIFO.
IrqReadTail ==
  /\ tefPut > tefGet
  /\ IrqStep("idle", "update")
  /\ seen' = ChipTxTail
  /\ UNCHANGED <<rings, obj, echo, stopped, xpc, len, objs, ok, spiq, chip,
                 accepted, lastEcho, reported, asyncFails, syncFails>>

\* Mutant: a controller tail equal to the head is taken for no progress.
StalledTefHead ==
  LET base == tef_head - Slot(tef_head) + seen
  IN  IF base < tef_head THEN Add(base, ObjNum) ELSE base

\* The new TEF head as the code computes it, in unsigned arithmetic.
NewTefHead ==
  LET base == tef_head - Slot(tef_head) + seen
  IN  IF base <= tef_head THEN Add(base, ObjNum) ELSE base

\* Mutant: the new head is not limited by the TX head.
Unlimited(h) == h

\* min(new_head, tx_ring->head)
LimitToTxHead(h) == IF h <= tx_head THEN h ELSE tx_head

\* tef_ring_update(): >= the old head, but not beyond the TX head.
IrqUpdate ==
  /\ IrqStep("update", "read")
  /\ tef_head' = LimitToTxHead(NewTefHead)
  /\ ok' = 0
  /\ UNCHANGED <<tx_head, tx_tail, tef_tail, obj, echo, stopped, xpc, seen,
                 len, objs, spiq, chip,
                 accepted, lastEcho, reported, asyncFails, syncFails>>

\* First read: from the TEF tail up to the end of the ring.
IrqReadLinear ==
  /\ IF TefLinearLen < TefLen
       THEN IrqStep("read", "readrest")
       ELSE IrqStep("read", "handle")
  /\ len' = TefLen
  /\ objs' = [i \in Slots |-> IF i < TefLinearLen
                                THEN tefram[Slot(tef_tail) + i]
                                ELSE None]
  /\ UNCHANGED <<rings, obj, echo, stopped, xpc, seen, ok, spiq, chip,
                 accepted, lastEcho, reported, asyncFails, syncFails>>

\* Second read: the objects at the beginning of the ring.
IrqReadRest ==
  /\ IrqStep("readrest", "handle")
  /\ objs' = [i \in Slots |-> IF TefLinearLen <= i /\ i < len
                                THEN tefram[i - TefLinearLen]
                                ELSE objs[i]]
  /\ UNCHANGED <<rings, obj, echo, stopped, xpc, seen, len, ok, spiq, chip,
                 accepted, lastEcho, reported, asyncFails, syncFails>>

\* Mutant: the sequence number is not compared.
AnySeq == TRUE

SeqMatches == Seq7(objs[ok]) = Seq7(tef_tail)

\* handle_tefif_one() with the expected sequence number: the echo skb is
\* handed back and the TEF tail moves.
IrqHandleOne ==
  /\ ipc = "handle"
  /\ ok < len
  /\ SeqMatches
  /\ lastEcho' = echo[Slot(tef_tail)]
  /\ echo' = [echo EXCEPT ![Slot(tef_tail)] = None]
  /\ tef_tail' = Add(tef_tail, 1)
  /\ reported' = reported + 1
  /\ ok' = ok + 1
  /\ UNCHANGED <<tx_head, tx_tail, tef_head, obj, stopped, xpc, ipc, seen,
                 len, objs, spiq, chip, accepted, asyncFails, syncFails>>

\* The loop ends: all objects handled, or -EAGAIN at a sequence number that
\* does not match.  handle_tefif_recover looks at TEFOVIF first, which is never
\* set (TefNeverOverflows).
IrqLoopEnds ==
  /\ ok < len => ~SeqMatches
  /\ IF ok > 0 THEN IrqStep("handle", "uinc") ELSE IrqStep("handle", "free")
  /\ UNCHANGED <<rings, obj, echo, stopped, xpc, locals, spiq, chip,
                 accepted, lastEcho, reported, asyncFails, syncFails>>

\* Mutant: all objects read are released, not only those handled.
UincAll ==
  /\ IrqStep("uinc", "advance")
  /\ tefGet' = tefGet + len
  /\ UNCHANGED <<rings, obj, echo, stopped, xpc, locals, spiq, txram, tefram,
                 chipHead, chipTail, tefPut, wire,
                 accepted, lastEcho, reported, asyncFails, syncFails>>

\* UINC: release the handled objects in the controller's TEF.
IrqUinc ==
  /\ IrqStep("uinc", "advance")
  /\ tefGet' = tefGet + ok
  /\ UNCHANGED <<rings, obj, echo, stopped, xpc, locals, spiq, txram, tefram,
                 chipHead, chipTail, tefPut, wire,
                 accepted, lastEcho, reported, asyncFails, syncFails>>

\* Mutant: the tail moves by all objects read, not by those handled.
AdvanceAll ==
  /\ IrqStep("advance", "free")
  /\ tx_tail' = Add(tx_tail, len)
  /\ UNCHANGED <<tx_head, tef_head, tef_tail, obj, echo, stopped, xpc,
                 locals, spiq, chip,
                 accepted, lastEcho, reported, asyncFails, syncFails>>

\* tx_ring->tail += len
IrqAdvance ==
  /\ IrqStep("advance", "free")
  /\ tx_tail' = Add(tx_tail, ok)
  /\ UNCHANGED <<tx_head, tef_head, tef_tail, obj, echo, stopped, xpc,
                 locals, spiq, chip,
                 accepted, lastEcho, reported, asyncFails, syncFails>>

\* get_tx_free() ...
IrqFree ==
  /\ IF TxFull THEN IrqStep("free", "idle") ELSE IrqStep("free", "wake")
  /\ UNCHANGED <<rings, obj, echo, stopped, xpc, locals, spiq, chip,
                 accepted, lastEcho, reported, asyncFails, syncFails>>

\* ... and netif_wake_queue().
IrqWake ==
  /\ IrqStep("wake", "idle")
  /\ stopped' = FALSE
  /\ UNCHANGED <<rings, obj, echo, xpc, locals, spiq, chip,
                 accepted, lastEcho, reported, asyncFails, syncFails>>

\* An SPI transfer of handle_tefif fails.  Of the UINC commands any number
\* may have reached the controller.  mcp251xfd_irq() goes to out_fail and
\* masks all interrupts: the thread does not run again.
IrqSpiFails ==
  /\ syncFails < MaxSyncFails
  /\ \/ ipc \in {"read", "readrest", "uinc"}
     \/ ipc = "idle" /\ tefPut > tefGet
     \/ ipc = "handle" /\ ok < len /\ ~SeqMatches
  /\ ipc' = "dead"
  /\ \E n \in 0 .. (IF ipc = "uinc" THEN ok ELSE 0) : tefGet' = tefGet + n
  /\ syncFails' = syncFails + 1
  /\ UNCHANGED <<rings, obj, echo, stopped, xpc, locals, spiq, txram, tefram,
                 chipHead, chipTail, tefPut, wire,
                 accepted, lastEcho, reported, asyncFails>>

Irq ==
  \/ IrqReadTail \/ IrqUpdate \/ IrqReadLinear \/ IrqReadRest
  \/ IrqHandleOne \/ IrqLoopEnds \/ IrqUinc \/ IrqAdvance \/ IrqFree
  \/ IrqWake

Next == Xmit \/ Controller \/ Irq \/ IrqSpiFails

Spec == Init /\ [][Next]_vars

(***************************************************************************)
(* A call of start_xmit returns, queued SPI messages are transferred, the  *)
(* controller sends what it was given (another node acknowledges it) and   *)
(* the kernel schedules the interrupt thread.  Nobody is obliged to send   *)
(* another frame (XmitEnter, XmitEnterBusy).                               *)
(***************************************************************************)
XmitReturns ==
  \/ XmitBusyStop \/ XmitRecheck \/ XmitPublish \/ XmitDecide \/ XmitStop
  \/ XmitEcho \/ XmitWrite

FairSpec ==
  /\ Spec
  /\ WF_vars(XmitReturns)
  /\ WF_vars(SpiTransfer)
  /\ WF_vars(ChipSend)
  /\ WF_vars(ChipStoreTef)
  /\ WF_vars(Irq)
-----------------------------------------------------------------------------
(* Properties.                                                             *)

\* Every variable has its type.  The counters of the driver stay below Wrap.
CounterTypes ==
  /\ tx_head \in 0 .. Wrap - 1 /\ tx_tail \in 0 .. Wrap - 1
  /\ tef_head \in 0 .. Wrap - 1 /\ tef_tail \in 0 .. Wrap - 1
  /\ accepted \in Nat /\ reported \in Nat

ThreadTypes ==
  /\ stopped \in BOOLEAN
  /\ xpc \in {"idle", "busy", "recheck", "publish", "decide", "stop", "echo",
              "write"}
  /\ ipc \in {"idle", "update", "read", "readrest", "handle", "uinc",
              "advance", "free", "wake", "dead"}
  /\ seen \in Slots
  /\ len \in 0 .. ObjNum /\ ok \in 0 .. ObjNum
  /\ asyncFails \in 0 .. MaxAsyncFails /\ syncFails \in 0 .. MaxSyncFails

SlotTypes ==
  /\ obj \in [Slots -> Frames \cup {None}]
  /\ echo \in [Slots -> Frames \cup {None}]
  /\ objs \in [Slots -> Frames \cup {0, None}]
  /\ txram \in [Slots -> Frames \cup {0, None}]
  /\ tefram \in [Slots -> Frames \cup {0, None}]
  /\ wire \in Frames \cup {0, None} /\ lastEcho \in Frames \cup {None}

ChipTypes ==
  /\ spiq \in Seq(Slots)
  /\ chipHead \in Nat /\ chipTail \in Nat
  /\ tefPut \in Nat /\ tefGet \in Nat

TypeOK == CounterTypes /\ ThreadTypes /\ SlotTypes /\ ChipTypes

\* The driver's cursors stay in ring order: TX tail, TEF tail, TEF head, TX
\* head, all within one ring.  In particular what tef_ring_update computes
\* never passes the TX head, and handle_tefif never reads more objects than
\* hw_tef_obj[] holds.
TefHeadBounded ==
  /\ Sub(tef_tail, tx_tail) <= Sub(tef_head, tx_tail)
  /\ Sub(tef_head, tx_tail) <= Sub(tx_head, tx_tail)
  /\ Sub(tx_head, tx_tail) <= ObjNum

\* The controller and the driver agree on the TEF without ever exchanging
\* its tail: no TEF object is released before it was written, and no object
\* is overwritten before it was released (the TEF has as many objects as the
\* TX FIFO and no flow control of its own).
TefNeverOverflows ==
  /\ tefGet <= tefPut
  /\ tefPut - tefGet <= ObjNum
  /\ chipHead - chipTail <= ObjNum

\* A TX object or its slot in controller RAM is never reused while its frame
\* is still to be sent: neither the object whose SPI message is queued nor
\* the slots the TX FIFO has not sent yet change their frame.
NoReuseInFlight ==
  /\ \A i \in 1 .. Len(spiq) : obj[spiq[i]] = chipHead + i - 1
  /\ \A f \in Frames : chipTail <= f /\ f < chipHead => txram[Slot(f)] = f

\* Each echo slot holds the skb of the frame that will be completed from it:
\* start_xmit never finds its slot occupied (which would drop the skb), and
\* handle_tefif_one never finds it empty.
EchoOwned ==
  /\ xpc = "echo" => echo[CurrentSlot] = None
  /\ ipc = "handle" /\ ok < len /\ SeqMatches
       => echo[Slot(tef_tail)] = reported

\* A frame is on its way to the controller, in it, or its TEF object waits for
\* the handler, which will therefore run once more.
AnswerDue ==
  \/ xpc \in {"decide", "stop", "echo", "write"} \/ spiq # <<>>
  \/ chipTail < chipHead \/ tefPut < chipTail \/ tefGet < tefPut

\* No lost wakeup: when the queue is stopped, one of the threads is about to
\* look at the ring again, or a frame is still to be completed and the handler
\* runs or will run for it.  Nobody looks when the handler is dead, and maybe
\* nobody when a message was lost: its frame is never completed.
NoLostWakeup ==
  stopped =>
    \/ ipc \in {"free", "wake"} \/ xpc = "recheck"
    \/ /\ tx_tail # tx_head
       /\ \/ AnswerDue
          \/ ipc \in {"update", "read", "readrest", "handle", "uinc",
                      "advance"}
          \/ ipc = "dead" \/ asyncFails > 0

\* The driver implements the service it promises to the stack.
Service == INSTANCE TxService WITH Depth <- ObjNum, sent <- chipTail
ServiceSpec == Service!Spec

\* A failing transfer of the handler masks the interrupts for good.
HandlerLives == [](ipc # "dead")

\* While the handler lives every accepted frame is sent and reported.
ServiceLive == HandlerLives => Service!Fairness

\* A queue that was stopped is started again.
QueueRestarts == HandlerLives => (stopped ~> ~stopped)

\* -EAGAIN is transient: the handler, called again and again while the TEF
\* interrupt is pending, releases the pending object some time.
PendingTefReleased ==
  HandlerLives => \A k \in Frames : tefGet = k /\ tefPut > k ~> tefGet > k
=============================================================================
