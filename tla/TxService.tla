----------------------------- MODULE TxService -----------------------------
(***************************************************************************)
(* What the transmit side of the mcp251xfd driver promises to the network  *)
(* stack.  Frames are numbered in the order in which start_xmit accepts    *)
(* them.  At most Depth accepted frames wait for their completion; the     *)
(* controller puts them on the bus in that order, each one once; the       *)
(* driver hands their echoes back in that order, each one once and never   *)
(* before the frame was on the bus.                                        *)
(***************************************************************************)
EXTENDS Integers

CONSTANT Depth      \* number of TX objects

VARIABLES
  accepted,         \* frames accepted by start_xmit so far
  sent,             \* frames the controller has put on the bus so far
  reported,         \* echoes handed back to the stack so far
  wire,             \* the frame that was last on the bus, -1 before the first
  lastEcho          \* the frame whose echo was handed back last, or -1

vars == <<accepted, sent, reported, wire, lastEcho>>

Init ==
  /\ accepted = 0
  /\ sent = 0
  /\ reported = 0
  /\ wire = -1
  /\ lastEcho = -1

Accept ==
  /\ accepted - reported < Depth
  /\ accepted' = accepted + 1
  /\ UNCHANGED <<sent, reported, wire, lastEcho>>

Send ==
  /\ sent < accepted
  /\ sent' = sent + 1
  /\ wire' = sent
  /\ UNCHANGED <<accepted, reported, lastEcho>>

Report ==
  /\ reported < sent
  /\ reported' = reported + 1
  /\ lastEcho' = reported
  /\ UNCHANGED <<accepted, sent, wire>>

Next == Accept \/ Send \/ Report

Spec == Init /\ [][Next]_vars

\* What is accepted is sent and what is sent is reported.
Fairness == WF_vars(Send) /\ WF_vars(Report)
=============================================================================
