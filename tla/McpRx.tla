------------------------------- MODULE McpRx -------------------------------
(***************************************************************************)
(* Receive path of the mcp251xfd CAN driver: the RX FIFO of the controller *)
(* and, in the threaded interrupt handler, mcp251xfd_handle_rxif and       *)
(* mcp251xfd_handle_rxovif with the part of mcp251xfd_irq that calls them. *)
(*                                                                         *)
(* A frame is the number of its arrival on the bus.  The driver learns     *)
(* where the controller is only from the head modulo the ring size         *)
(* (FIFOCI), which cannot tell a full FIFO from an empty one.              *)
(***************************************************************************)
EXTENDS Integers, Sequences

CONSTANTS
  ObjNum,           \* rx_ring->obj_num, a power of two up to 32
  Wrap,             \* the ring counters are modulo this (2^32)
  RxInt,            \* the rx-int GPIO is connected (priv->rx_int)
  MaxArrivals,      \* bound: frames on the bus
  MaxSpiFails       \* bound: SPI transfers that fail

ASSUME RxAssumption ==
  /\ ObjNum \in Nat \ {0}
  /\ Wrap \in Nat /\ ObjNum < Wrap /\ Wrap % ObjNum = 0
  /\ RxInt \in BOOLEAN
  /\ MaxArrivals \in Nat /\ MaxSpiFails \in Nat

VARIABLES
  \* driver
  head, tail,       \* rx_ring->head, rx_ring->tail
  ipc,              \* where the interrupt thread is
  pin,              \* it is in the rx-int loop, not in the INT loop
  ovpend,           \* RXOVIF in the snapshot priv->regs_status.intf
  len,              \* len in handle_rxif_ring
  objs,             \* rx_ring->obj[]: the objects of one chunk, as frames
  ok,               \* i in handle_rxif_ring: objects of the chunk handled
  \* controller
  rxram,            \* RX objects in controller RAM
  rxGet,            \* RX objects released
  ovif,             \* FIFOSTA.RXOVIF
  \* history
  arrived,          \* frames that were on the bus
  stored,           \* the frames the RX FIFO took, in order
  handled,          \* how many of them handle_rxif_one was called for
  last,             \* the frame queued last to the network stack
  report,           \* what became of the report of a lost frame
  spiFails

thread == <<head, tail, pin, ovpend, len, objs, ok>>
fifo == <<rxram, rxGet, ovif, arrived, stored>>
vars == <<thread, ipc, fifo, handled, last, report, spiFails>>

None == -1
Slots == 0 .. ObjNum - 1
Frames == 0 .. MaxArrivals - 1

\* Mutant: a counter that does not wrap.
AddUnbounded(c, n) == c + n

Add(c, n) == IF c + n >= Wrap THEN c + n - Wrap ELSE c + n
Sub(c, d) == IF c >= d THEN c - d ELSE c - d + Wrap
Slot(c) == c % ObjNum

rxPut == Len(stored)
Pending == rxPut > rxGet

-----------------------------------------------------------------------------
Init ==
  /\ head = 0 /\ tail = 0
  /\ ipc = "idle" /\ pin = FALSE /\ ovpend = FALSE
  /\ len = 0 /\ ok = 0
  /\ objs = [i \in Slots |-> None]
  /\ rxram = [s \in Slots |-> None]
  /\ rxGet = 0 /\ ovif = FALSE
  /\ arrived = 0 /\ stored = <<>> /\ handled = 0
  /\ last = None /\ report = "none"
  /\ spiFails = 0

-----------------------------------------------------------------------------
(* The controller.                                                         *)

\* A frame arrives and there is room for it.
ChipReceive ==
  /\ arrived < MaxArrivals
  /\ rxPut - rxGet < ObjNum
  /\ rxram' = [rxram EXCEPT ![Slot(rxPut)] = arrived]
  /\ stored' = Append(stored, arrived)
  /\ arrived' = arrived + 1
  /\ UNCHANGED <<thread, ipc, rxGet, ovif, handled, last, report, spiFails>>

\* A frame arrives at a full FIFO and is lost.
ChipLose ==
  /\ arrived < MaxArrivals
  /\ rxPut - rxGet = ObjNum
  /\ ovif' = TRUE
  /\ report' = "due"
  /\ arrived' = arrived + 1
  /\ UNCHANGED <<thread, ipc, rxram, rxGet, stored, handled, last, spiFails>>

-----------------------------------------------------------------------------
(* The interrupt thread.                                                   *)

IrqStep(from, to) == ipc = from /\ ipc' = to

\* The first loop of mcp251xfd_irq: the rx-int pin is active.
IrqPin ==
  /\ RxInt
  /\ Pending
  /\ IrqStep("idle", "update")
  /\ pin' = TRUE
  /\ ovpend' = FALSE
  /\ UNCHANGED <<head, tail, len, objs, ok, fifo, handled, last, report,
                 spiFails>>

\* Mutant: handle_rxif is called whichever interrupt is pending.
RxifAssumed ==
  /\ Pending \/ ovif
  /\ IrqStep("idle", "update")
  /\ pin' = FALSE
  /\ ovpend' = ovif
  /\ UNCHANGED <<head, tail, len, objs, ok, fifo, handled, last, report,
                 spiFails>>

\* The second loop: the interrupt flags are read once for all handlers.  The
\* pin was inactive before, a frame may have arrived since.
IrqReadInt ==
  /\ ipc = "idle"
  /\ Pending \/ ovif
  /\ ipc' = IF Pending THEN "update" ELSE "ovread"
  /\ pin' = FALSE
  /\ ovpend' = ovif
  /\ UNCHANGED <<head, tail, len, objs, ok, fifo, handled, last, report,
                 spiFails>>

\* Mutant: a controller head equal to the driver's is taken for no progress.
StalledHead ==
  LET base == head - Slot(head) + Slot(rxPut)
  IN  IF base < head THEN Add(base, ObjNum) ELSE base

\* The new head as the code computes it from FIFOCI, in unsigned arithmetic.
\* Equal slots mean a full FIFO: an empty one would not have interrupted.
NewHead ==
  LET base == head - Slot(head) + Slot(rxPut)
  IN  IF base <= head THEN Add(base, ObjNum) ELSE base

\* mcp251xfd_rx_ring_update()
RxUpdate ==
  /\ IrqStep("update", "chunk")
  /\ head' = NewHead
  /\ UNCHANGED <<tail, pin, ovpend, len, objs, ok, fifo, handled, last,
                 report, spiFails>>

RxLen == Sub(head, tail)

\* Objects up to the end of the FIFO.
RxLinearLen ==
  IF RxLen < ObjNum - Slot(tail) THEN RxLen ELSE ObjNum - Slot(tail)

\* Read the objects up to the end of the FIFO in one transfer.
RxRead ==
  /\ RxLinearLen > 0
  /\ IrqStep("chunk", "deliver")
  /\ len' = RxLinearLen
  /\ ok' = 0
  /\ objs' = [i \in Slots |-> IF i < RxLinearLen THEN rxram[Slot(tail) + i]
                                                 ELSE objs[i]]
  /\ UNCHANGED <<head, tail, pin, ovpend, fifo, handled, last, report,
                 spiFails>>

\* handle_rxif_one(): the frame is queued, or dropped for lack of memory.
RxDeliver ==
  /\ ipc = "deliver"
  /\ ok < len
  /\ last' \in {objs[ok], last}
  /\ handled' = handled + 1
  /\ ok' = ok + 1
  /\ UNCHANGED <<head, tail, ipc, pin, ovpend, len, objs, fifo, report,
                 spiFails>>

\* Mutant: the FIFO is released up to the head, not by the chunk.
UincToHead ==
  /\ ok = len
  /\ IrqStep("deliver", "chunk")
  /\ rxGet' = rxGet + RxLen
  /\ tail' = Add(tail, len)
  /\ UNCHANGED <<head, pin, ovpend, len, objs, ok, rxram, ovif, arrived,
                 stored, handled, last, report, spiFails>>

\* UINC and tail += len
RxUinc ==
  /\ ok = len
  /\ IrqStep("deliver", "chunk")
  /\ rxGet' = rxGet + len
  /\ tail' = Add(tail, len)
  /\ UNCHANGED <<head, pin, ovpend, len, objs, ok, rxram, ovif, arrived,
                 stored, handled, last, report, spiFails>>

\* All chunks done: next the pin again, or the other interrupt flags.
RxEnds ==
  /\ RxLinearLen = 0
  /\ IrqStep("chunk", IF ovpend THEN "ovread" ELSE "idle")
  /\ UNCHANGED <<thread, fifo, handled, last, report, spiFails>>

\* handle_rxovif(): RXOVIF is read for each FIFO ...
OvRead ==
  /\ IrqStep("ovread", IF ovif THEN "ovclear" ELSE "ovreport")
  /\ UNCHANGED <<thread, fifo, handled, last, report, spiFails>>

\* Mutant: handle_rxovif returns after the write, failed or not.
ReturnAfterClear ==
  /\ IrqStep("ovclear", "idle")
  /\ ovif' = FALSE
  /\ UNCHANGED <<thread, rxram, rxGet, arrived, stored, handled, last, report,
                 spiFails>>

\* ... and cleared ...
OvClear ==
  /\ IrqStep("ovclear", "ovreport")
  /\ ovif' = FALSE
  /\ UNCHANGED <<thread, rxram, rxGet, arrived, stored, handled, last,
                 report, spiFails>>

\* ... and an error frame is queued.  When the timestamp cannot be read, or
\* there is no memory or no room for the frame, the overflow is only counted.
OvReport ==
  /\ IrqStep("ovreport", "idle")
  /\ \/ report' = "none"
     \/ report' = IF report = "due" THEN "missing" ELSE report
  /\ UNCHANGED <<thread, fifo, handled, last, spiFails>>

\* An SPI transfer fails; of the UINC commands any number may have reached
\* the controller, and so may the write that clears RXOVIF.  mcp251xfd_irq()
\* goes to out_fail and masks all interrupts, which is taken to reach the
\* controller: the thread does not run again.
RxSpiFails ==
  /\ spiFails < MaxSpiFails
  /\ \/ ipc = "idle" /\ (Pending \/ ovif)
     \/ ipc \in {"update", "ovread", "ovclear"}
     \/ ipc = "chunk" /\ RxLinearLen > 0
     \/ ipc = "deliver" /\ ok = len
  /\ ovif' \in (IF ipc = "ovclear" THEN {ovif, FALSE} ELSE {ovif})
  /\ \E n \in 0 .. (IF ipc = "deliver" THEN len ELSE 0) : rxGet' = rxGet + n
  /\ ipc' = "dead"
  /\ spiFails' = spiFails + 1
  /\ UNCHANGED <<thread, rxram, arrived, stored, handled, last, report>>

Chip == ChipReceive \/ ChipLose

Irq ==
  \/ IrqPin \/ IrqReadInt \/ RxUpdate \/ RxRead \/ RxDeliver \/ RxUinc
  \/ RxEnds \/ OvRead \/ OvClear \/ OvReport

Next == Chip \/ Irq \/ RxSpiFails

Spec == Init /\ [][Next]_vars

\* The kernel schedules the interrupt thread; nobody has to send frames.
FairSpec == Spec /\ WF_vars(Irq)

-----------------------------------------------------------------------------
(* Properties.                                                             *)

\* Every variable has its type.
TypeOK ==
  /\ head \in 0 .. Wrap - 1 /\ tail \in 0 .. Wrap - 1
  /\ ipc \in {"idle", "update", "chunk", "deliver", "ovread", "ovclear",
              "ovreport", "dead"}
  /\ pin \in BOOLEAN /\ ovpend \in BOOLEAN
  /\ len \in 0 .. ObjNum /\ ok \in 0 .. ObjNum
  /\ objs \in [Slots -> Nat \cup {None}]
  /\ rxram \in [Slots -> Nat \cup {None}]
  /\ rxGet \in Nat /\ ovif \in BOOLEAN
  /\ arrived \in Nat /\ stored \in Seq(Nat) /\ handled \in Nat
  /\ last \in Nat \cup {None} /\ report \in {"none", "due", "missing"}
  /\ spiFails \in 0 .. MaxSpiFails

\* The driver never takes an object for received that the controller has not
\* filled, although the head read from the controller cannot tell a full FIFO
\* from an empty one, and the counters may wrap.
HeadBacked ==
  ipc # "dead" => /\ Sub(head, tail) <= rxPut - rxGet
                  /\ tail = rxGet % Wrap

\* A lost frame is not forgotten: until the handler has reported the overflow,
\* or found that it has no error frame for it, RXOVIF is pending in the
\* controller or handle_rxovif is about to look, also when the next frame is lost
\* while the handler clears RXOVIF.
LossNotForgotten ==
  report = "due" => ovif \/ ipc \in {"ovreport", "dead"}

\* The driver and the controller implement the receive service.
Service == INSTANCE RxService WITH Depth <- ObjNum, freed <- rxGet
ServiceSpec == Service!Spec

\* As long as no failing transfer masks the interrupts for good, every frame
\* kept is passed on, its room is given back, and every loss is reported, or
\* found to be without an error frame.
ServiceLive == [](ipc # "dead") => Service!Fairness

-----------------------------------------------------------------------------
(* The inductive invariant.                                                *)

\* The counters of the driver are those of the controller, modulo Wrap: all
\* objects handled are released between two runs of rx_ring_update, and one
\* is there to be read when it runs.
Cursors ==
  /\ rxGet <= rxPut /\ rxPut <= rxGet + ObjNum
  /\ ipc # "dead" => tail = rxGet % Wrap
  /\ ipc \in {"idle", "update", "ovread", "ovclear", "ovreport"} => head = tail
  /\ ipc = "update" => Pending
  /\ ipc \in {"chunk", "deliver"} =>
       \E d \in 0 .. ObjNum : d <= rxPut - rxGet /\ head = (rxGet + d) % Wrap

\* Frames not released are in their slots.
Contents ==
  \A k \in 1 .. rxPut : k > rxGet => rxram[Slot(k - 1)] = stored[k]

\* What was read and how far it is handled.
Chunk ==
  /\ ipc = "deliver" => /\ len = RxLinearLen /\ ok <= len
                        /\ handled = rxGet + ok
                        /\ \A i \in Slots : i < len => objs[i] = stored[rxGet + i + 1]
  /\ ipc \notin {"deliver", "dead"} => handled = rxGet
  /\ rxGet <= handled /\ handled <= rxPut

RxInv == TypeOK /\ Cursors /\ Contents /\ Chunk
=============================================================================
