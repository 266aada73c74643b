------------------------------ MODULE McpTxInv ------------------------------
(***************************************************************************)
(* The inductive invariant of McpTx, in three layers.  DriverInv speaks of *)
(* the driver alone.  ChipInv ties its cursors to those of the controller; *)
(* both survive every SPI failure.  InFlight says where each frame is and  *)
(* needs spi_async to succeed.  All hold as long as the ring counters do   *)
(* not wrap.                                                               *)
(***************************************************************************)
EXTENDS McpTx

\* Fewer frames than the unsigned counters can count.
NoWrap == MaxFrames + ObjNum < Wrap

\* No asynchronous SPI message is lost.
NoAsyncFails == MaxAsyncFails = 0

-----------------------------------------------------------------------------
(* The cursors of the driver.  This part of the state depends on neither   *)
(* the controller nor the contents of the frames.                          *)

DriverCursors ==
  /\ tx_head = accepted /\ tef_tail = reported /\ accepted <= MaxFrames
  /\ tx_tail <= tef_tail /\ tef_tail <= tef_head /\ tef_head <= tx_head
  /\ tx_head <= tx_tail + ObjNum

\* What start_xmit knows between its steps.
XmitKnows ==
  /\ xpc \in {"busy", "recheck", "publish"} => accepted < MaxFrames
  /\ xpc = "publish" => tx_head < tx_tail + ObjNum
  /\ xpc \in {"decide", "stop", "echo", "write"} => tx_head > 0

\* What handle_tefif knows between its steps.
IrqKnows ==
  /\ ipc \in {"idle", "update", "read", "readrest", "free", "wake"}
       => tef_tail = tx_tail
  /\ ipc \in {"read", "readrest"} => ok = 0
  /\ ipc \in {"readrest", "handle"} => tx_tail + len = tef_head
  /\ ipc \in {"handle", "uinc", "advance"} => tx_tail + ok = tef_tail

DriverInv == TypeOK /\ DriverCursors /\ XmitKnows /\ IrqKnows

-----------------------------------------------------------------------------
(* The driver and the controller.                                          *)

\* start_xmit has taken a number for its frame and not queued it yet.
Loading == xpc \in {"decide", "stop", "echo", "write"}

\* A range that holds every frame a slot may have held, or will hold next.
Window == -ObjNum .. MaxFrames + ObjNum

\* The controller's cursors lie between those of the driver, which runs ahead
\* by the frames on their way to spi_async, queued there, and lost.
ChipCursors ==
  /\ tx_tail <= tefGet /\ tefGet <= tef_tail
  /\ ipc \in {"handle", "uinc"} => tefGet = tx_tail
  /\ ipc = "advance" => tefGet = tef_tail
  /\ ipc \in {"update", "read", "readrest"} => tx_tail < tefPut
  /\ tef_tail <= tefPut
  /\ chipTail \in {tefPut, tefPut + 1}
  /\ chipTail <= chipHead
  /\ accepted = chipHead + Len(spiq) + asyncFails + (IF Loading THEN 1 ELSE 0)

\* Each TX object holds the last frame that was prepared in it.
Prepared ==
  \A f \in Window : 0 <= f /\ accepted - ObjNum <= f /\ f < accepted
    => obj[Slot(f)] = f

\* Every TEF slot that was not written again since holds a sequence number the
\* driver has accepted at that place, or still zeroes.
TefChecked ==
  \A f \in Window : tefPut - ObjNum <= f /\ f < tef_tail
    => Seq7(tefram[Slot(f)]) = Seq7(IF f < 0 THEN 0 ELSE f)

\* The echo slots of the frames to be completed are used, all others free.
EchoWaits(f) ==
  tef_tail <= f /\ f < (IF xpc \in {"decide", "stop", "echo"}
                          THEN accepted - 1 ELSE accepted)
EchoSlots ==
  /\ \A f \in Window : tef_tail <= f /\ f < tef_tail + ObjNum
       => echo[Slot(f)] = IF EchoWaits(f) THEN f ELSE None
  /\ lastEcho = reported - 1

\* What was read from the TEF: the object written there last, or one whose
\* sequence number is not the expected one.
ReadObjs ==
  ipc \in {"readrest", "handle"} =>
    \A i \in Slots :
      ok <= i /\ i < (IF ipc = "handle" THEN len ELSE TefLinearLen)
        => \/ objs[i] = tefram[Slot(tx_tail + i)] /\ tx_tail + i < tefPut
           \/ Seq7(objs[i]) # Seq7(tx_tail + i)

ChipInv == ChipCursors /\ Prepared /\ TefChecked /\ EchoSlots /\ ReadObjs

RingInv == DriverInv /\ ChipInv

-----------------------------------------------------------------------------
(* The contents of the frames.                                             *)

\* Where the frames between spi_async and the bus are.
InFlight ==
  /\ \A i \in 1 .. Len(spiq) : spiq[i] = Slot(chipHead + i - 1)
  /\ \A f \in Window : chipTail <= f /\ f < chipHead => txram[Slot(f)] = f
  /\ wire = chipTail - 1

TxInv == RingInv /\ InFlight
=============================================================================
