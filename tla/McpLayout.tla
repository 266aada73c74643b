------------------------------ MODULE McpLayout ------------------------------
(***************************************************************************)
(* The RAM of the controller.  The driver never reads where an object lies: *)
(* it computes the address from the sizes it chose in mcp251xfd_ring_alloc *)
(* when the interface was opened, and mcp251xfd_chip_fifo_init, at every   *)
(* start of the controller, writes sizes from which the controller lays    *)
(* out its FIFOs by itself.  The control mode decides both, and the user   *)
(* changes it while the interface is down.                                 *)
(*                                                                         *)
(* The controller is external: TEF, then the FIFOs by number, each object  *)
(* with its header, a time stamp where it is enabled, and the payload.     *)
(***************************************************************************)
EXTENDS Integers, FiniteSetsExt

VARIABLES
  ctrlmode,           \* priv->can.ctrlmode
  ring,               \* the rings, NoRing while the interface is down
  fifo                \* FIFO sizes and payloads set in the controller

layoutVars == <<ctrlmode, ring, fifo>>

\* priv->can.ctrlmode_supported
Modes == {"LOOPBACK", "LISTENONLY", "BERR_REPORTING", "FD", "FD_NON_ISO"}
NoRing == [tx |-> 0, txsize |-> 0, rx |-> 0, rxsize |-> 0, txbase |-> 0,
           rxbase |-> 0]
NoFifo == [tef |-> 0, tx |-> 0, txpay |-> 0, rx |-> 0, rxpay |-> 0]

MCP251XFD_RAM_START == 1024
MCP251XFD_RAM_SIZE == 2048
MCP251XFD_TX_OBJ_NUM_CAN == 8
MCP251XFD_TX_OBJ_NUM_CANFD == 4
MCP251XFD_RX_OBJ_NUM_MAX == 32
TefObjSize == 12      \* sizeof(struct mcp251xfd_hw_tef_obj)

\* listen-only mode works like FD mode
FdLayout(m) == m \cap {"LISTENONLY", "FD"} # {}

LayoutInit == ctrlmode = {} /\ ring = NoRing /\ fifo = NoFifo

-----------------------------------------------------------------------------
(* The driver.                                                             *)

\* changelink: the interface is down.
Changelink ==
  /\ ring = NoRing
  /\ ctrlmode' \in SUBSET Modes
  /\ UNCHANGED <<ring, fifo>>

\* 1 << (fls(n) - 1), at most RX_OBJ_NUM_MAX
RxObjNum(n) == Max({k \in {1, 2, 4, 8, 16, 32} : k <= n})

TxBase(num) == MCP251XFD_RAM_START + TefObjSize * num

\* mcp251xfd_ring_alloc: one RX ring; both object sizes leave room for it.
RingAlloc ==
  /\ ring = NoRing
  /\ LET fd == FdLayout(ctrlmode)
         num == IF fd THEN MCP251XFD_TX_OBJ_NUM_CANFD
                      ELSE MCP251XFD_TX_OBJ_NUM_CAN
         txsize == IF fd THEN 72 ELSE 16
         rxsize == IF fd THEN 76 ELSE 20
         free == MCP251XFD_RAM_SIZE - num * (TefObjSize + txsize)
     IN ring' = [NoRing EXCEPT !.tx = num, !.txsize = txsize,
                               !.rx = RxObjNum(free \div rxsize),
                               !.rxsize = rxsize]
  /\ UNCHANGED <<ctrlmode, fifo>>

\* mcp251xfd_ring_init, at every start of the controller, which begins with
\* a reset
RingInit ==
  /\ ring # NoRing
  /\ LET base == TxBase(ring.tx) IN
     ring' = [ring EXCEPT !.txbase = base,
                          !.rxbase = base + ring.txsize * ring.tx]
  /\ fifo' = NoFifo
  /\ UNCHANGED ctrlmode

\* Mutant: the payload forgets that listen-only mode works like FD mode.
ChipFifoInitFdOnly ==
  /\ ring # NoRing /\ ring.rxbase # 0
  /\ LET pay == IF "FD" \in ctrlmode THEN 64 ELSE 8 IN
     fifo' = [tef |-> ring.tx, tx |-> ring.tx, txpay |-> pay,
              rx |-> ring.rx, rxpay |-> pay]
  /\ UNCHANGED <<ctrlmode, ring>>

\* mcp251xfd_chip_fifo_init: numbers of objects and payloads.
ChipFifoInit ==
  /\ ring # NoRing /\ ring.rxbase # 0
  /\ LET pay == IF FdLayout(ctrlmode) THEN 64 ELSE 8 IN
     fifo' = [tef |-> ring.tx, tx |-> ring.tx, txpay |-> pay,
              rx |-> ring.rx, rxpay |-> pay]
  /\ UNCHANGED <<ctrlmode, ring>>

\* ndo_stop and a failing ndo_open: the controller keeps its setting.
RingFree ==
  /\ ring # NoRing
  /\ ring' = NoRing
  /\ UNCHANGED <<ctrlmode, fifo>>

LayoutNext == Changelink \/ RingAlloc \/ RingInit \/ ChipFifoInit \/ RingFree
LayoutSpec == LayoutInit /\ [][LayoutNext]_layoutVars

-----------------------------------------------------------------------------
(* The addresses the driver computes.                                      *)

TefObjAddr(n) == MCP251XFD_RAM_START + TefObjSize * n
TxObjAddr(n) == ring.txbase + ring.txsize * n
RxObjAddr(n) == ring.rxbase + ring.rxsize * n

\* mcp251xfd_get_tx_nr_by_addr, -1 for -ENOENT
TxNrByAddr(addr) ==
  IF addr < TxObjAddr(0) \/ addr >= TxObjAddr(ring.tx) THEN -1
  ELSE (addr - TxObjAddr(0)) \div ring.txsize

-----------------------------------------------------------------------------
(* The addresses the controller uses: 8 bytes of header, 4 of time stamp.  *)

ChipTefSize == 8 + 4
ChipTxSize == 8 + fifo.txpay
ChipRxSize == 8 + 4 + fifo.rxpay

ChipTef(n) == MCP251XFD_RAM_START + n * ChipTefSize
ChipTx(n) == MCP251XFD_RAM_START + fifo.tef * ChipTefSize + n * ChipTxSize
ChipRx(n) == ChipTx(fifo.tx) + n * ChipRxSize

-----------------------------------------------------------------------------
(* Properties.                                                             *)

\* With its FIFOs set up for the rings, the controller has every object where
\* the driver looks for it, the FIFOs fit into the RAM, and the address of an
\* ECC error leads back to the TX object that holds it.
AddressesAgree ==
  fifo # NoFifo /\ ring.rxbase # 0 =>
    /\ \A n \in 0..fifo.tef-1 : ChipTef(n) = TefObjAddr(n)
    /\ \A n \in 0..fifo.tx-1 :
         /\ ChipTx(n) = TxObjAddr(n) /\ ChipTxSize = ring.txsize
         /\ \A a \in ChipTx(n)..ChipTx(n) + ChipTxSize - 1 : TxNrByAddr(a) = n
    /\ \A n \in 0..fifo.rx-1 :
         ChipRx(n) = RxObjAddr(n) /\ ChipRxSize = ring.rxsize
    /\ ChipRx(fifo.rx) <= MCP251XFD_RAM_START + MCP251XFD_RAM_SIZE
    /\ \A a \in ChipRx(0)..ChipRx(fifo.rx) - 1 : TxNrByAddr(a) = -1
=============================================================================
