------------------------------- MODULE McpEcc -------------------------------
(***************************************************************************)
(* The interrupt handler of the mcp251xfd driver and the faults of the     *)
(* controller: a TX MAB underflow, which takes the controller out of its   *)
(* normal mode in the middle of a frame, and ECC errors in its RAM, one of *)
(* the causes of an underflow.  The handler acknowledges the flags,        *)
(* requests the normal mode again, which sends the aborted frame once      *)
(* more, and when the same ECC error comes back it first reloads the TX    *)
(* object.                                                                 *)
(*                                                                         *)
(* The controller is external, modelled after what the comments of the     *)
(* handlers report: the change of mode with its MODIF and the SERRIF of an *)
(* underflow come in any order and at any time after it.                   *)
(* SPI errors are left to McpLife; they end the handler in the same way.   *)
(* Frames are numbered; frame f is in TX object f % Ring.                  *)
(***************************************************************************)
EXTENDS Integers, FiniteSets

CONSTANTS
  Models,             \* the chips the driver may have found
  Ring,               \* tx_ring->obj_num, a power of two
  Frames,             \* bound: frames the network stack sends
  MaxFaults           \* bound: corrupted words and underflows without ECC error

ASSUME EccAssumption ==
  /\ Models \subseteq {"2517", "2518"}
  /\ Ring \in {2, 4, 8, 16} /\ Frames \in Nat /\ MaxFaults \in Nat

VARIABLES
  \* controller
  model,              \* priv->devtype_data.model; never changes
  bad,                \* what became of the words of each TX object in the RAM
  sent,               \* frames sent: the tail of the TX FIFO
  mode,               \* "normal" or "restricted"
  flags,              \* MODIF, SERRIF, IVMIF of REG_INT
  cause,              \* SERRIF stands for an ECC error
  late,               \* what a fault will still do
  eccstat,            \* REG_ECCSTAT: ERRADDR as a TX object, SECIF and DEDIF
  outside,            \* history: an ECC error outside the TX objects
  faults,
  \* driver
  queued, acked,      \* head and tail of the driver's TX ring
  pc,                 \* the interrupt handler
  intf, sysCause,     \* priv->regs_status.intf, the cause of SERRIF in it
  setNormal, stat,    \* locals: set_normal_mode, ecc_stat
  ecc                 \* priv->ecc

chip == <<model, bad, sent, mode, flags, cause, late, eccstat, outside,
          faults>>
driver == <<queued, acked, pc, intf, sysCause, setNormal, stat, ecc>>
vars == <<chip, driver>>

Objs == 0..Ring-1
Outside == -1         \* an address outside the TX objects
Kinds == {"sec", "ded"}
NoStat == [obj |-> -2, kinds |-> {}]          \* ecc_stat is 0
ECC_CNT_MAX == 2      \* MCP251XFD_ECC_CNT_MAX
Obj(f) == f % Ring

\* Flags cleared in REG_INT; ECCIF is cleared in ECCSTAT, TEFIF by its UINC.
Clearable == {"MODIF", "SERRIF", "IVMIF"}

\* The TEF holds an event for each frame sent and not acknowledged.
Pending == flags \cup (IF eccstat.kinds # {} THEN {"ECCIF"} ELSE {})
                 \cup (IF sent > acked THEN {"TEFIF"} ELSE {})

Init ==
  /\ model \in Models
  /\ bad = [o \in Objs |-> "good"] /\ sent = 0
  /\ mode = "normal" /\ flags = {} /\ cause = FALSE
  /\ late = {} /\ eccstat = NoStat
  /\ outside = FALSE /\ faults = 0
  /\ queued = 0 /\ acked = 0
  /\ pc = "idle" /\ intf = {} /\ sysCause = FALSE /\ setNormal = FALSE
  /\ stat = NoStat /\ ecc = [stat |-> NoStat, cnt |-> 0]

-----------------------------------------------------------------------------
(* The controller.                                                         *)

Fault == faults < MaxFaults /\ faults' = faults + 1

\* One bit, or two, of a TX object that waits are corrupted, while it was
\* written or later.
Corrupt ==
  /\ Fault
  /\ \E f \in sent..queued-1, k \in Kinds :
       bad[Obj(f)] \notin {k, "ded"} /\ bad' = [bad EXCEPT ![Obj(f)] = k]
  /\ UNCHANGED <<model, sent, mode, flags, cause, late, eccstat, outside,
                 driver>>

\* ECCSTAT after an error: the last address, the kinds seen since the clear.
Noted(o, k) == [obj |-> o, kinds |-> eccstat.kinds \cup {k}]

\* An ECC error somewhere else in the RAM.
OutsideError ==
  /\ Fault
  /\ \E k \in Kinds : eccstat' = Noted(Outside, k)
  /\ outside' = TRUE
  /\ UNCHANGED <<model, bad, sent, mode, flags, cause, late, driver>>

\* The controller is about to leave the normal mode: "mode", or "next" when
\* it may finish the frame on its way before.
Leaving == late \cap {"mode", "next"} # {}

\* The frame is aborted, a bus error; MODIF comes with the change of mode.
Underflow(how, why) == /\ late' = late \cup {how, why}
                       /\ flags' = flags \cup {"IVMIF"}

\* The SPI bus kept the controller from loading a word in time.
MabUnderflow ==
  /\ Fault
  /\ mode = "normal" /\ sent < queued /\ ~Leaving
  /\ Underflow("mode", "mab")
  /\ UNCHANGED <<model, bad, sent, mode, cause, eccstat, outside, driver>>

\* The frames the controller loads: the one it sends and, on the MCP2518FD,
\* once that is loaded, the next one already.
Loads ==
  {f \in {sent, sent + 1} :
     f < queued /\ (f = sent \/ (model = "2518" /\ bad[Obj(sent)] = "good"))}

\* A corrupted frame is loaded: underflow.  After the first time ECCIF may
\* stay away.
Detect(flagged) ==
  /\ mode = "normal" /\ ~Leaving
  /\ flagged \/ ecc.cnt > 0
  /\ \E f \in Loads :
       /\ bad[Obj(f)] \in Kinds
       /\ eccstat' = IF flagged THEN Noted(Obj(f), bad[Obj(f)]) ELSE eccstat
       /\ Underflow(IF f = sent THEN "mode" ELSE "next", "ecc")
  /\ UNCHANGED <<model, bad, sent, mode, cause, outside, faults, driver>>

\* A single bit error that the controller corrects: ECCIF, no underflow.
DetectCorrected ==
  /\ mode = "normal" /\ ~Leaving
  /\ \E f \in Loads :
       /\ bad[Obj(f)] = "sec"
       /\ bad' = [bad EXCEPT ![Obj(f)] = "good"]
       /\ eccstat' = Noted(Obj(f), "sec")
  /\ UNCHANGED <<model, sent, mode, flags, cause, late, outside, faults,
                 driver>>

\* A frame on its way is finished even when the next one was found corrupted.
Send ==
  /\ mode = "normal" /\ sent < queued /\ bad[Obj(sent)] = "good"
  /\ "mode" \notin late
  /\ sent' = sent + 1
  /\ late' = IF Leaving THEN (late \ {"next"}) \cup {"mode"} ELSE late
  /\ UNCHANGED <<model, bad, mode, flags, cause, eccstat, outside, faults,
                 driver>>

ModeChanges ==
  /\ Leaving
  /\ mode' = "restricted" /\ late' = late \ {"mode", "next"}
  /\ flags' = flags \cup {"MODIF"}
  /\ UNCHANGED <<model, bad, sent, cause, eccstat, outside, faults, driver>>

SerrifRises ==
  /\ \E e \in late \cap {"ecc", "mab"} :
       late' = late \ {e} /\ cause' = (cause \/ e = "ecc")
  /\ flags' = flags \cup {"SERRIF"}
  /\ UNCHANGED <<model, bad, sent, mode, eccstat, outside, faults, driver>>

Chip ==
  \/ Corrupt \/ OutsideError \/ MabUnderflow \/ \E b \in BOOLEAN : Detect(b)
  \/ DetectCorrected \/ Send \/ ModeChanges \/ SerrifRises

-----------------------------------------------------------------------------
(* start_xmit: a fresh object overwrites what its place held.              *)

Xmit ==
  /\ queued < Frames /\ queued - acked < Ring
  /\ queued' = queued + 1 /\ bad' = [bad EXCEPT ![Obj(queued)] = "good"]
  /\ UNCHANGED <<model, sent, mode, flags, cause, late, eccstat, outside,
                 faults, acked, pc, intf, sysCause, setNormal, stat, ecc>>

-----------------------------------------------------------------------------
(* mcp251xfd_irq: one pass of its loop.                                    *)

\* The locals of handle_eccif() are gone when the pass ends.
Irq(from, to) ==
  /\ pc = from /\ pc' = to
  /\ to = "idle" => setNormal' = FALSE /\ stat' = NoStat

\* The controller is asked for the normal mode and returns to it, which raises
\* MODIF too.
NormalMode ==
  /\ mode' = "normal"
  /\ flags' = IF mode = "normal" THEN flags ELSE flags \cup {"MODIF"}

IrqRead ==
  /\ Irq("idle", "ack") /\ Pending # {}
  /\ intf' = Pending /\ sysCause' = cause /\ setNormal' = FALSE
  /\ UNCHANGED <<chip, queued, acked, stat, ecc>>

\* Writes 0 to the flags that were read, 1 to all others.
IrqAck ==
  /\ Irq("ack", "modif")
  /\ flags' = flags \ (intf \cap Clearable)
  /\ cause' = (cause /\ "SERRIF" \notin intf)
  /\ UNCHANGED <<model, bad, sent, mode, late, eccstat, outside, faults,
                 queued, acked, intf, sysCause, setNormal, stat, ecc>>

\* Mutant: the normal mode is always left to handle_eccif().
IrqModifDefers ==
  /\ Irq("modif", "tefif")
  /\ setNormal' = (setNormal \/ ("MODIF" \in intf /\ mode # "normal"))
  /\ UNCHANGED <<chip, queued, acked, intf, sysCause, stat, ecc>>

\* With an ECC error pending the normal mode is left to handle_eccif().
IrqModif ==
  /\ Irq("modif", "tefif")
  /\ IF "MODIF" \notin intf \/ mode = "normal"
       THEN UNCHANGED <<mode, flags, setNormal>>
       ELSE IF "ECCIF" \in intf
         THEN setNormal' = TRUE /\ UNCHANGED <<mode, flags>>
         ELSE NormalMode /\ UNCHANGED setNormal
  /\ UNCHANGED <<model, bad, sent, cause, late, eccstat, outside, faults,
                 queued, acked, intf, sysCause, stat, ecc>>

\* Mutant: the ECC error is remembered although frames were sent.
TefifForgets ==
  /\ Irq("tefif", "ivmif")
  /\ acked' = IF "TEFIF" \in intf THEN sent ELSE acked
  /\ UNCHANGED <<chip, queued, intf, sysCause, setNormal, stat, ecc>>

\* ecc_tefif_successful(): frames were sent, but the count stays.
EccTefifSuccessful == ecc' = [ecc EXCEPT !.stat = NoStat]

IrqTefif ==
  /\ Irq("tefif", "ivmif")
  /\ IF "TEFIF" \in intf
       THEN acked' = sent /\ EccTefifSuccessful
       ELSE UNCHANGED <<acked, ecc>>
  /\ UNCHANGED <<chip, queued, intf, sysCause, setNormal, stat>>

\* Mutant: the earlier ECC errors are not looked at.
KnownNoCount == {"MODIF", "IVMIF"} \subseteq intf \/ "ECCIF" \in intf

\* Is the system error one the driver knows?
KnownSystemError ==
  {"MODIF", "IVMIF"} \subseteq intf \/ "ECCIF" \in intf \/ ecc.cnt > 0

\* handle_ivmif() clears BDIAG1, which nobody else reads, counts the error and
\* passes it on as an error frame.
IrqIvmif ==
  /\ Irq("ivmif", "serrif")
  /\ UNCHANGED <<chip, queued, acked, intf, sysCause, setNormal, stat, ecc>>

\* handle_serrif() only reports.  What the flags were is not asked again in
\* this pass.
IrqSerrif ==
  /\ Irq("serrif", IF "ECCIF" \in intf THEN "eccif" ELSE "idle")
  /\ intf' = {} /\ sysCause' = FALSE
  /\ "ECCIF" \in intf => UNCHANGED <<setNormal, stat>>
  /\ UNCHANGED <<chip, queued, acked, ecc>>

-----------------------------------------------------------------------------
(* handle_eccif, eccif_recover.                                            *)

EccRead ==
  /\ Irq("eccif", "eccclear")
  /\ stat' = eccstat
  /\ UNCHANGED <<chip, queued, acked, intf, sysCause, setNormal, ecc>>

\* Clears the flags that were read: an error of the other kind that came since
\* stays, one of the same kind is lost.  Without a flag ERRADDR means nothing.
EccClear ==
  /\ Irq("eccclear", "eccjudge")
  /\ eccstat' = IF eccstat.kinds \subseteq stat.kinds
                  THEN NoStat
                  ELSE [eccstat EXCEPT !.kinds = @ \ stat.kinds]
  /\ UNCHANGED <<model, bad, sent, mode, flags, cause, late, outside, faults,
                 queued, acked, intf, sysCause, setNormal, stat, ecc>>

\* Mutant: a deferred normal mode is only requested with a reload.
EccResumeForgets(e) ==
  /\ Irq("eccjudge", "idle")
  /\ ecc' = e /\ UNCHANGED <<intf, sysCause>>
  /\ UNCHANGED <<mode, flags>>

\* The end of handle_eccif() without a reload.
EccResume(e) ==
  /\ Irq("eccjudge", "idle")
  /\ ecc' = e /\ UNCHANGED <<intf, sysCause>>
  /\ IF setNormal THEN NormalMode ELSE UNCHANGED <<mode, flags>>

\* The driver and the controller agree about the tail, and the object is the
\* one being sent, or on the MCP2518FD the next.
RecoverChecks ==
  LET offset == (stat.obj - Obj(sent)) % Ring IN
  /\ Obj(sent) = Obj(acked)
  /\ offset = 0 \/ (offset = 1 /\ model = "2518")

\* Has the same error, of the same kind, occurred before?
EccJudge ==
  LET again == ecc.stat = stat
      e == [stat |-> stat, cnt |-> IF again THEN ecc.cnt + 1 ELSE 1]
  IN
  /\ pc = "eccjudge"
  /\ IF stat.obj = Outside
       THEN EccResume([ecc EXCEPT !.stat = NoStat])
       ELSE IF e.cnt < ECC_CNT_MAX
         THEN EccResume(e)
         ELSE /\ Irq("eccjudge", IF RecoverChecks THEN "reload" ELSE "dead")
              /\ ecc' = e /\ setNormal' = FALSE
              /\ UNCHANGED <<mode, flags, intf, sysCause, stat>>
  /\ UNCHANGED <<model, bad, sent, cause, late, eccstat, outside, faults,
                 queued, acked>>

\* The reload waits for its SPI transfer and for the normal mode.
EccReload ==
  /\ Irq("reload", "normal")
  /\ bad' = [bad EXCEPT ![stat.obj] = "good"] /\ stat' = NoStat
  /\ UNCHANGED <<model, sent, mode, flags, cause, late, eccstat, outside,
                 faults, queued, acked, intf, sysCause, setNormal, ecc>>

\* The controller may take too long, with which the handler gives up.
EccNormal ==
  /\ \/ Irq("normal", "idle") /\ NormalMode
     \/ Irq("normal", "dead") /\ UNCHANGED <<mode, flags, setNormal, stat>>
  /\ UNCHANGED <<intf, sysCause>>
  /\ UNCHANGED <<model, bad, sent, cause, late, eccstat, outside, faults,
                 queued, acked, ecc>>

Handler ==
  \/ IrqRead \/ IrqAck \/ IrqModif \/ IrqTefif \/ IrqIvmif
  \/ IrqSerrif \/ EccRead \/ EccClear \/ EccJudge \/ EccReload \/ EccNormal

Next == Chip \/ Xmit \/ Handler

\* The kernel runs the interrupt thread.  The controller goes on sending and
\* raising its flags, and does not keep ECCIF away for ever.
Spec == Init /\ [][Next]_vars
FairSpec ==
  Spec /\ WF_vars(Handler) /\ WF_vars(Send) /\ WF_vars(ModeChanges)
       /\ WF_vars(SerrifRises) /\ SF_vars(Detect(TRUE))

-----------------------------------------------------------------------------
(* Properties.                                                             *)

\* The object that is reloaded still belongs to a frame in the TX ring, so
\* start_xmit is not filling its buffer for a later frame.
ReloadOwned ==
  pc = "reload" => \E f \in acked..queued-1 : Obj(f) = stat.obj

\* A system error that comes from an ECC error in the TX RAM is never
\* reported as unhandled, in whatever passes its flags arrive, as long as no
\* other ECC error takes its place in ECCSTAT.
EccErrorsKnown ==
  pc = "serrif" /\ sysCause /\ ~outside
    => KnownSystemError

\* The controller never stays out of its normal mode.
NormalModeReturns == mode = "restricted" ~> (mode = "normal" \/ pc = "dead")

\* Every frame queued is sent and acknowledged in the end, however often the
\* controller fails to load it, unless the handler gave up.
FramesSent == []<>(acked = queued \/ pc = "dead")
=============================================================================
