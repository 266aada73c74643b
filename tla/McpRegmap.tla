------------------------------ MODULE McpRegmap ------------------------------
(***************************************************************************)
(* How the driver reads and changes one register of the controller: the    *)
(* regmap bus with CRC, whose update is the read, modify and write of the  *)
(* regmap core, and the bus without, which writes only the bytes it has to *)
(* and reads back only registers where it must.  The quirks of the device  *)
(* type choose the bus; those of all three types choose the CRC.           *)
(*                                                                         *)
(* A call holds the lock of the map, so that only the controller changes   *)
(* the register meanwhile.  The call made is one of those in               *)
(* mcp251xfd-core.c.  Two bits stand for each byte of a register: 0 and 1  *)
(* for byte 0, to 6 and 7 for byte 3.                                      *)
(***************************************************************************)
EXTENDS Integers, FiniteSets

CONSTANTS
  Quirks              \* the sets of quirks considered

ASSUME QuirksAssumption == Quirks \subseteq SUBSET {"CRC_REG", "CRC_RX"}

VARIABLES
  map,                \* the bus of priv->map_reg
  reg,                \* the register of this call
  cell,               \* its bits that are set, in the controller
  call,               \* the call on its way
  before,             \* cell when the call began
  changed,            \* bits the controller changed since
  lost                \* the write of this call was refused by the controller,
                      \* or its read of OSC was disturbed

regVars == <<map, reg, cell, call, before, changed, lost>>

\* The bits of each register: written and read, changed by the controller
\* only, interrupt flags cleared by writing 0.
Layout == [
  CON     |-> [rw |-> {0, 6, 7}, ro |-> {4}, flag |-> {}],
  FLTCON  |-> [rw |-> {0, 1, 2}, ro |-> {}, flag |-> {}],
  ECCCON  |-> [rw |-> {0, 1, 2}, ro |-> {}, flag |-> {}],
  OSC     |-> [rw |-> {0, 1}, ro |-> {2, 3}, flag |-> {}],
  INT     |-> [rw |-> {4, 6}, ro |-> {}, flag |-> {0, 1, 2}],
  FIFOSTA |-> [rw |-> {}, ro |-> {1, 2}, flag |-> {0}],
  ECCSTAT |-> [rw |-> {}, ro |-> {4}, flag |-> {0, 1}],
  CRC     |-> [rw |-> {6}, ro |-> {0}, flag |-> {4, 5}]]

Registers == DOMAIN Layout
Bits == Layout[reg].rw \cup Layout[reg].ro \cup Layout[reg].flag
Flags == Layout[reg].flag
Byte(b) == b \div 2

\* mcp251xfd_first_byte_set to mcp251xfd_last_byte_set
MaskBytes(mask) ==
  {n \in 0..3 : /\ \E b \in mask : Byte(b) <= n
                /\ \E b \in mask : n <= Byte(b)}

\* The masks and values of regmap_update_bits() in the driver.  The handlers
\* clear flags they have read.
Updates ==
  LET some(mask) == {<<mask, val>> : val \in SUBSET mask}
      clear(mask) ==
        {<<mask, mask \ read>> : read \in SUBSET (cell \cap Flags)}
  IN CASE reg = "CON" -> some({6})
       [] reg = "FLTCON" -> some({0, 1})
       [] reg = "ECCCON" -> some({0}) \cup some({1})
       [] reg = "OSC" -> {<<{0}, {0}>>}
       [] reg = "INT" -> clear({0, 1, 2, 3})
       [] reg = "FIFOSTA" -> {<<{0}, {}>>}
       [] reg = "ECCSTAT" -> clear({0, 1})
       [] reg = "CRC" -> clear({4, 5})

Idle == [pc |-> "idle", op |-> "none", mask |-> {}, val |-> {}, orig |-> {},
         tries |-> 0, err |-> FALSE]

\* mcp251xfd_regmap_init
MapReg(quirks) == IF "CRC_REG" \in quirks THEN "crc" ELSE "nocrc"

RegInit ==
  /\ \E q \in Quirks : map = MapReg(q)
  /\ reg = "CON" /\ cell = {} /\ call = Idle
  /\ before = {} /\ changed = {} /\ lost = FALSE

-----------------------------------------------------------------------------
(* A call begins, with the register in any state.                          *)

Call(c) == /\ call.pc = "idle" /\ call' = c
           /\ before' = cell /\ changed' = {} /\ lost' = FALSE
           /\ UNCHANGED <<map, reg, cell>>

RegRead == Call([Idle EXCEPT !.pc = "read", !.op = "read"])

\* Mutant: the mode register is not read back.
ReadsBackNoCon == reg \notin {"INT", "FLTCON", "ECCSTAT", "CRC", "CON"}

\* mcp251xfd_update_bits_read_reg
ReadsBack == reg \notin {"INT", "FLTCON", "ECCSTAT", "CRC"}

RegUpdateBits ==
  \E u \in Updates :
    Call([Idle EXCEPT !.pc = IF map = "crc" \/ ReadsBack THEN "read"
                                                         ELSE "write",
                      !.op = "update", !.mask = u[1], !.val = u[2]])

\* mcp251xfd_regmap_nocrc_write, mcp251xfd_regmap_crc_write: all of it.  Also
\* OSC is written, of which a sleeping controller takes one bit only.
RegWrite ==
  /\ reg \in {"CON", "INT", "CRC"}
  /\ \E v \in SUBSET Layout[reg].rw :
       Call([Idle EXCEPT !.pc = "write", !.op = "write",
                         !.mask = Bits \ Layout[reg].ro, !.val = v])

-----------------------------------------------------------------------------
(* mcp251xfd_regmap_nocrc_read, mcp251xfd_regmap_crc_read                  *)

READ_CRC_RETRIES_MAX == 3   \* MCP251XFD_READ_CRC_RETRIES_MAX
REREADS == 2                \* crc_read_i
MaxTries == READ_CRC_RETRIES_MAX * (1 + REREADS)

Return(err) == call' = [call EXCEPT !.pc = "done", !.err = err]

\* The data goes to the caller, or into the read, modify and write.
Got(v) ==
  call' = [call EXCEPT !.pc = IF call.op = "read" THEN "done" ELSE "write",
                       !.orig = v]

\* A transfer without SPI error whose data was disturbed on the bus.  Only
\* the CRC can tell; without CRC the bus is taken to be undisturbed.
Disturbed == map = "crc"

\* Mutant: what came last is returned after all tries.
BadCrcLast(v) ==
  IF reg = "OSC" \/ call.tries + 1 = MaxTries THEN Got(v)
  ELSE call' = [call EXCEPT !.tries = @ + 1]

\* The CRC does not match: another try, up to the limit, except for OSC.
BadCrc(v) ==
  IF reg = "OSC" THEN Got(v)
  ELSE IF call.tries + 1 < MaxTries THEN call' = [call EXCEPT !.tries = @ + 1]
  ELSE Return(TRUE)

ReadTransfer ==
  /\ call.pc = "read"
  /\ \/ Got(cell) /\ UNCHANGED lost
     \/ Return(TRUE) /\ UNCHANGED lost
     \/ /\ Disturbed
        /\ \E v \in SUBSET Bits : v # cell /\ BadCrc(v)
        /\ lost' = (lost \/ reg = "OSC")
  /\ UNCHANGED <<map, reg, cell, before, changed>>

-----------------------------------------------------------------------------
(* mcp251xfd_regmap_nocrc_update_bits, _regmap_update_bits with            *)
(* mcp251xfd_regmap_crc_gather_write                                       *)

Modified == (call.orig \ call.mask) \cup (call.val \cap call.mask)

\* The bytes that are written: those of the mask, with CRC or by a plain write
\* the whole register.
Written ==
  IF map = "crc" \/ call.op = "write" THEN 0..3 ELSE MaskBytes(call.mask)

\* What the register holds then.  A flag is only ever cleared.
Stored ==
  {b \in Bits :
     IF b \in Layout[reg].ro \/ Byte(b) \notin Written THEN b \in cell
     ELSE b \in Modified /\ (b \in Flags => b \in cell)}

\* The regmap core updates only what differs.
NothingToDo == map = "crc" /\ call.op = "update" /\ Modified = call.orig

\* A write with a wrong CRC is ignored and flagged in the CRC register; one
\* that fails may have arrived.
WriteTransfer ==
  /\ call.pc = "write"
  /\ \/ /\ NothingToDo
        /\ UNCHANGED <<cell, lost>> /\ Return(FALSE)
     \/ /\ ~NothingToDo
        /\ \/ cell' = Stored /\ UNCHANGED lost /\ Return(FALSE)
           \/ Disturbed /\ UNCHANGED cell /\ lost' = TRUE /\ Return(FALSE)
           \/ cell' \in {cell, Stored} /\ UNCHANGED lost /\ Return(TRUE)
  /\ UNCHANGED <<map, reg, before, changed>>

\* The caller takes the result; the next call may be for another register,
\* left by earlier calls and the controller in any state.
RegReturn ==
  /\ call.pc = "done" /\ call' = Idle
  /\ reg' \in Registers
  /\ cell' \in LET l == Layout[reg'] IN SUBSET (l.rw \cup l.ro \cup l.flag)
  /\ before' = {} /\ changed' = {} /\ lost' = FALSE /\ UNCHANGED map

-----------------------------------------------------------------------------
(* The controller changes a status bit or raises a flag.                   *)

StatusChanges ==
  /\ call.pc \in {"read", "write"}
  /\ \E b \in Layout[reg].ro :
       /\ cell' = IF b \in cell THEN cell \ {b} ELSE cell \cup {b}
       /\ changed' = changed \cup {b}
  /\ UNCHANGED <<map, reg, call, before, lost>>

FlagRises ==
  /\ call.pc \in {"read", "write"}
  /\ \E b \in Flags : cell' = cell \cup {b} /\ changed' = changed \cup {b}
  /\ UNCHANGED <<map, reg, call, before, lost>>

RegNext == RegRead \/ RegUpdateBits \/ RegWrite \/ ReadTransfer
           \/ WriteTransfer \/ RegReturn \/ StatusChanges \/ FlagRises

RegSpec == RegInit /\ [][RegNext]_regVars

-----------------------------------------------------------------------------
(* Properties.                                                             *)

\* A read that succeeds returns the register as it was during the call: each
\* bit the controller left alone is right, however often the bus disturbed
\* the transfer.  OSC is exempt, its CRC is not looked at.
ReadSound ==
  call.pc = "done" /\ call.op = "read" /\ ~call.err /\ reg # "OSC"
    => \A b \in Bits \ changed : b \in call.orig <=> b \in cell

\* A write or an update that succeeds does what it was asked for and nothing
\* else: the bits outside of the mask stay, and only flags that were asked for
\* are cleared, none that rose meanwhile.  Not when the controller refused the
\* write, which only the CRC interrupt tells, or the unchecked read of OSC
\* was disturbed.
UpdateExact ==
  call.pc = "done" /\ call.op # "read" /\ ~call.err /\ ~lost =>
    \A b \in Bits :
      IF b \in Flags
        THEN b \in cell <=>
               /\ b \in before \cup changed
               /\ b \in call.mask /\ b \notin call.val
                    => b \in changed /\ b \in cell
        ELSE b \notin changed =>
               (b \in cell <=> IF b \in call.mask THEN b \in call.val
                                                  ELSE b \in before)
=============================================================================
