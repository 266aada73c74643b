----------------------------- MODULE RxService -----------------------------
(***************************************************************************)
(* What the receive side of the mcp251xfd driver promises to the network   *)
(* stack.  Frames on the bus are numbered as they arrive.  Depth of them   *)
(* can be kept at a time.  Those kept are passed on in order, each one     *)
(* once, unless there is no memory for the skb; a frame is lost only when  *)
(* there is no room.  A loss is reported, unless there is no error frame   *)
(* for the report.                                                         *)
(***************************************************************************)
EXTENDS Integers, Sequences

CONSTANT Depth      \* number of RX objects

VARIABLES
  arrived,          \* frames that were on the bus
  stored,           \* the frames that were kept, in order
  handled,          \* how many of them were passed on or dropped
  freed,            \* how many of them gave their room back
  last,             \* the frame passed on last, or -1
  report            \* of a loss: "due", "missing" for want of an error frame

vars == <<arrived, stored, handled, freed, last, report>>

Init ==
  /\ arrived = 0
  /\ stored = <<>>
  /\ handled = 0
  /\ freed = 0
  /\ last = -1
  /\ report = "none"

Keep ==
  /\ Len(stored) - freed < Depth
  /\ stored' = Append(stored, arrived)
  /\ arrived' = arrived + 1
  /\ UNCHANGED <<handled, freed, last, report>>

Lose ==
  /\ Len(stored) - freed = Depth
  /\ arrived' = arrived + 1
  /\ report' = "due"
  /\ UNCHANGED <<stored, handled, freed, last>>

\* Without memory for the skb the frame is dropped.
PassOn ==
  /\ handled < Len(stored)
  /\ handled' = handled + 1
  /\ last' \in {stored[handled + 1], last}
  /\ UNCHANGED <<arrived, stored, freed, report>>

\* The room of frames that were passed on is given back.
Free ==
  /\ \E n \in 1 .. Depth : freed' = freed + n
  /\ freed' <= handled
  /\ UNCHANGED <<arrived, stored, handled, last, report>>

\* The report of a loss covers those before it, the missing ones too.
ReportLoss ==
  /\ report # "none"
  /\ report' = "none"
  /\ UNCHANGED <<arrived, stored, handled, freed, last>>

\* The report of a loss, or the end of the attempt.
AnswerLoss ==
  /\ report = "due"
  /\ report' \in {"none", "missing"}
  /\ UNCHANGED <<arrived, stored, handled, freed, last>>

Next == Keep \/ Lose \/ PassOn \/ Free \/ ReportLoss \/ AnswerLoss

Spec == Init /\ [][Next]_vars

\* What is kept is passed on, its room given back, and the report of a loss does
\* not stay due.
Fairness == WF_vars(PassOn) /\ WF_vars(Free) /\ WF_vars(AnswerLoss)
=============================================================================
