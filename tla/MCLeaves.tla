------------------------------ MODULE MCLeaves ------------------------------
(***************************************************************************)
(* Small instances of the components that share no state with the others,  *)
(* in one state machine: a behaviour is one of McpRegmap, of McpLayout or  *)
(* of IrqTests.                                                            *)
(***************************************************************************)
EXTENDS McpRegmap, McpLayout, IrqTests

VARIABLE part

leavesVars == <<part, regVars, layoutVars, irqTestVars>>

LeavesInit ==
  /\ part \in {"regmap", "layout", "irqtests"}
  /\ RegInit /\ LayoutInit /\ IrqTestInit

LeavesNext ==
  \/ part = "regmap" /\ RegNext /\ UNCHANGED <<part, layoutVars, irqTestVars>>
  \/ part = "layout" /\ LayoutNext /\ UNCHANGED <<part, regVars, irqTestVars>>
  \/ /\ part = "irqtests" /\ IrqTestNext
     /\ UNCHANGED <<part, regVars, layoutVars>>

LeavesSpec == LeavesInit /\ [][LeavesNext]_leavesVars

\* With the CRC, as the three device types have it, and without.
MCQuirks == {{"CRC_REG", "CRC_RX"}, {}}
=============================================================================
