---------------------------- MODULE McpEccProofs ----------------------------
(***************************************************************************)
(* Theorems about McpEcc for every size of the TX ring, every number of    *)
(* frames and every number of faults.                                      *)
(*                                                                         *)
(* Between the detection of an ECC error and the reload of its object the  *)
(* handler acknowledges frames and the controller reports further errors.  *)
(* The inductive invariant says of each address still to be used (in       *)
(* ECCSTAT, in the local ecc_stat, in priv->ecc) when it must belong to a  *)
(* frame of the TX ring, and that an ECC error whose system error is still *)
(* to come has left a trace the handler knows it by.                       *)
(***************************************************************************)
EXTENDS McpEcc, TLAPS

\* TX object o belongs to a frame in the TX ring.
Owned(o) == \E f \in acked..queued-1 : Obj(f) = o

\* The handler uses what it read from INT.
InPass == {"ack", "modif", "tefif", "ivmif", "serrif"}

Places == {"idle", "eccif", "eccclear", "eccjudge", "reload", "normal",
           "dead"} \cup InPass

\* What ECCSTAT holds.
Stats == [obj : Int, kinds : SUBSET Kinds]

\* The types the argument needs, and the order of the tails and the head.
Types ==
  /\ queued \in Nat /\ sent \in Nat /\ acked \in Nat
  /\ acked <= sent /\ sent <= queued
  /\ ecc \in [stat : Stats, cnt : Nat] /\ stat \in Stats
  /\ eccstat \in Stats
  /\ pc \in Places

\* Only handle_eccif() clears ECCIF, so a handler that saw it still finds it.
Flagged ==
  /\ "ECCIF" \notin flags
  /\ eccstat.kinds # {} => eccstat.obj # NoStat.obj
  /\ pc \in InPass /\ "ECCIF" \in intf => eccstat.kinds # {}
  /\ pc = "eccif" => eccstat.kinds # {}

\* An address that could be found to have failed before is that of a frame in
\* the ring: the acknowledgement of a frame forgets the address.
OwnInv ==
  /\ eccstat.kinds # {} /\ eccstat.obj # Outside =>
       /\ ecc.stat.obj = eccstat.obj => Owned(eccstat.obj)
       /\ pc = "eccclear" /\ ~(eccstat.kinds \subseteq stat.kinds) =>
            Owned(eccstat.obj)
       /\ pc = "eccjudge" => Owned(eccstat.obj)
  /\ pc \in {"eccclear", "eccjudge"} /\ stat.obj # Outside
       /\ ecc.stat.obj = stat.obj => Owned(stat.obj)
  /\ pc = "reload" => Owned(stat.obj)

\* The trace of an ECC error: its flag, the judgement on its way, the count.
CountInv ==
  ~outside =>
    /\ eccstat.obj # Outside /\ stat.obj # Outside
    /\ "ecc" \in late \/ cause =>
         ecc.cnt > 0 \/ eccstat.kinds # {} \/ pc = "eccjudge"
    /\ pc \in InPass /\ sysCause =>
         ecc.cnt > 0 \/ "ECCIF" \in intf

\* The inductive invariant.
EccInv == Types /\ Flagged /\ OwnInv /\ CountInv

-----------------------------------------------------------------------------
(* TX objects.                                                             *)

\* An object is a number, so it is not one of the special addresses.
LEMMA ObjNat ==
  ASSUME NEW f \in Nat
  PROVE  Obj(f) \in Nat
<1>1. CASE Ring = 2
  BY <1>1 DEF Obj
<1>2. CASE Ring = 4
  BY <1>2 DEF Obj
<1>3. CASE Ring = 8
  BY <1>3 DEF Obj
<1>4. CASE Ring = 16
  BY <1>4 DEF Obj
<1> QED
  BY <1>1, <1>2, <1>3, <1>4, EccAssumption

\* What the controller loads belongs to the ring.
LEMMA LoadsOwned ==
  ASSUME Types, NEW f \in Loads
  PROVE  Owned(Obj(f)) /\ Obj(f) \in Nat
<1>1. f \in acked..queued-1 /\ f \in Nat
  BY DEF Types, Loads
<1> QED
  BY <1>1, ObjNat DEF Owned

\* While no frame is acknowledged an object keeps its frame.
LEMMA OwnedStays ==
  ASSUME Types, acked' = acked, queued' = queued \/ queued' = queued + 1,
         NEW o, Owned(o)
  PROVE  Owned(o)'
<1>1. PICK f \in acked..queued-1 : Obj(f) = o
  BY DEF Owned
<1>2. acked \in Nat /\ queued \in Nat
  BY DEF Types
<1>3. f \in (acked..queued-1)'
  BY <1>1, <1>2
<1> QED
  BY <1>1, <1>3 DEF Owned, Obj

-----------------------------------------------------------------------------
(* What ECCSTAT holds.                                                     *)

\* No error.
LEMMA NoStatIs == NoStat \in Stats /\ NoStat.obj = -2 /\ NoStat.kinds = {}
  BY DEF NoStat, Stats

\* An error more.
LEMMA NotedIs ==
  ASSUME eccstat \in Stats, NEW o \in Int, NEW k \in Kinds
  PROVE  /\ Noted(o, k) \in Stats /\ Noted(o, k).obj = o
         /\ Noted(o, k).kinds # {}
         /\ \A t : Noted(o, k).kinds \subseteq t => eccstat.kinds \subseteq t
  BY DEF Noted, Stats

\* The error outside the TX objects.
LEMMA OutsideIs ==
  ASSUME OutsideError, eccstat \in Stats
  PROVE  eccstat' \in Stats /\ eccstat'.obj = Outside /\ eccstat'.kinds # {}
<1>1. PICK k \in Kinds : eccstat' = Noted(Outside, k)
  BY DEF OutsideError
<1>2. Outside \in Int
  BY DEF Outside
<1> QED
  BY <1>1, <1>2, NotedIs

\* The errors in a TX object that is loaded.
LEMMA DetectIs ==
  ASSUME Types, NEW b \in BOOLEAN, Detect(b)
  PROVE  /\ eccstat' \in Stats
         /\ ~b => eccstat' = eccstat
         /\ b => /\ eccstat'.kinds # {}
                 /\ eccstat'.obj \in Nat /\ Owned(eccstat'.obj)
<1>1. eccstat \in Stats
  BY DEF Types
<1>2. PICK f \in Loads, k \in Kinds :
        eccstat' = IF b THEN Noted(Obj(f), k) ELSE eccstat
  BY DEF Detect
<1>3. Obj(f) \in Int /\ Obj(f) \in Nat /\ Owned(Obj(f))
  BY LoadsOwned
<1> QED
  BY <1>1, <1>2, <1>3, NotedIs

\* The error that the controller corrects.
LEMMA CorrectedIs ==
  ASSUME Types, DetectCorrected
  PROVE  /\ eccstat' \in Stats /\ eccstat'.kinds # {}
         /\ eccstat'.obj \in Nat /\ Owned(eccstat'.obj)
<1>1. eccstat \in Stats /\ "sec" \in Kinds
  BY DEF Types, Kinds
<1>2. PICK f \in Loads : eccstat' = Noted(Obj(f), "sec")
  BY DEF DetectCorrected
<1>3. Obj(f) \in Int /\ Obj(f) \in Nat /\ Owned(Obj(f))
  BY LoadsOwned
<1> QED
  BY <1>1, <1>2, <1>3, NotedIs

\* The flags that were read are cleared, others stay.
LEMMA ClearIs ==
  ASSUME EccClear, Types
  PROVE  \/ eccstat' = NoStat
         \/ /\ eccstat' \in Stats /\ eccstat'.obj = eccstat.obj
            /\ eccstat.kinds # {} /\ eccstat'.kinds # {}
            /\ ~(eccstat.kinds \subseteq stat.kinds)
<1>1. eccstat \in Stats /\ stat \in Stats
  BY DEF Types
<1>2. CASE eccstat.kinds \subseteq stat.kinds
  BY <1>2 DEF EccClear
<1>3. CASE ~(eccstat.kinds \subseteq stat.kinds)
  <2> DEFINE left == eccstat.kinds \ stat.kinds
  <2>1. left \in SUBSET Kinds /\ left # {} /\ eccstat.kinds # {}
    BY <1>1, <1>3 DEF Stats
  <2>2. eccstat' = [eccstat EXCEPT !.kinds = left]
    BY <1>3 DEF EccClear
  <2> HIDE DEF left
  <2>3. /\ eccstat' \in Stats
        /\ eccstat'.obj = eccstat.obj /\ eccstat'.kinds = left
    BY <1>1, <2>1, <2>2 DEF Stats
  <2> QED
    BY <1>3, <2>1, <2>3
<1> QED
  BY <1>2, <1>3

\* The frames that were sent make the driver forget the address.
LEMMA TefifIs ==
  ASSUME IrqTefif, Types
  PROVE  /\ ecc' \in [stat : Stats, cnt : Nat] /\ ecc'.cnt = ecc.cnt
         /\ IF "TEFIF" \in intf THEN ecc'.stat = NoStat /\ acked' = sent
                                ELSE ecc' = ecc /\ acked' = acked
  BY NoStatIs, Zenon DEF IrqTefif, EccTefifSuccessful, Types

\* What the judgement leaves in priv->ecc.
LEMMA JudgeIs ==
  ASSUME EccJudge, Types
  PROVE  /\ ecc' \in [stat : Stats, cnt : Nat]
         /\ stat.obj # Outside => ecc'.cnt > 0
         /\ pc' \in {"idle", "dead", "reload"} /\ stat' \in {stat, NoStat}
         /\ pc' = "reload" =>
              stat' = stat /\ stat.obj # Outside /\ ecc.stat = stat
<1>1. ecc \in [stat : Stats, cnt : Nat] /\ stat \in Stats
  BY DEF Types
<1> DEFINE e == [stat |-> stat,
                 cnt |-> IF ecc.stat = stat THEN ecc.cnt + 1 ELSE 1]
<1>2. e \in [stat : Stats, cnt : Nat] /\ e.cnt > 0
  BY <1>1
<1>3. [ecc EXCEPT !.stat = NoStat] \in [stat : Stats, cnt : Nat]
  BY <1>1, NoStatIs, Zenon
<1>4. \/ /\ stat.obj = Outside /\ ecc' = [ecc EXCEPT !.stat = NoStat]
         /\ pc' = "idle" /\ stat' = NoStat
      \/ /\ stat.obj # Outside /\ ecc' = e
         /\ \/ pc' = "idle" /\ stat' = NoStat
            \/ pc' = "dead" /\ stat' = stat
            \/ pc' = "reload" /\ stat' = stat /\ e.cnt >= ECC_CNT_MAX
  BY <1>2 DEF EccJudge, EccResume, Irq, ECC_CNT_MAX
<1>5. e.cnt >= ECC_CNT_MAX => ecc.stat = stat
  BY DEF ECC_CNT_MAX
<1> QED
  BY <1>2, <1>3, <1>4, <1>5

-----------------------------------------------------------------------------
(* Every step keeps the invariant.                                         *)

LEMMA InitEccInv == Init => EccInv
BY NoStatIs DEF Init, EccInv, Types, Flagged, OwnInv, CountInv, Outside,
                Places, InPass

\* The tails and the head move on in order.
LEMMA TypesStep ==
  ASSUME EccInv, [Next]_vars
  PROVE  Types'
<1> USE DEF EccInv, Types
<1>1. CASE Corrupt
  BY <1>1 DEF Corrupt, Fault, driver
<1>2. CASE OutsideError
  BY <1>2, OutsideIs DEF OutsideError, driver
<1>3. CASE MabUnderflow
  BY <1>3 DEF MabUnderflow, Fault, driver, Underflow
<1>4. ASSUME NEW b \in BOOLEAN, Detect(b)
      PROVE  Types'
  BY <1>4, DetectIs DEF Detect, driver
<1>5. CASE DetectCorrected
  BY <1>5, CorrectedIs DEF DetectCorrected, driver
<1>6. CASE Send
  BY <1>6 DEF Send, driver
<1>7. CASE ModeChanges
  BY <1>7 DEF ModeChanges, driver
<1>8. CASE SerrifRises
  BY <1>8 DEF SerrifRises, driver
<1>9. CASE Xmit
  BY <1>9 DEF Xmit
<1>10. CASE IrqRead
  BY <1>10 DEF IrqRead, Irq, chip, Places, InPass
<1>11. CASE IrqAck
  BY <1>11 DEF IrqAck, Irq, Places, InPass
<1>12. CASE IrqModif
  BY <1>12 DEF IrqModif, Irq, Places, InPass
<1>13. CASE IrqTefif
  <2>1. ecc' \in [stat : Stats, cnt : Nat] /\ acked' \in {acked, sent}
    BY <1>13, TefifIs
  <2> QED
    BY <1>13, <2>1 DEF IrqTefif, Irq, chip, Places, InPass
<1>14. CASE IrqIvmif
  BY <1>14 DEF IrqIvmif, Irq, chip, Places, InPass
<1>15. CASE IrqSerrif
  BY <1>15, NoStatIs DEF IrqSerrif, Irq, chip, Places, InPass
<1>16. CASE EccRead
  BY <1>16 DEF EccRead, Irq, chip, Places
<1>17. CASE EccClear
  BY <1>17, ClearIs, NoStatIs DEF EccClear, Irq, Places
<1>18. CASE EccJudge
  <2>1. UNCHANGED <<queued, sent, acked, eccstat>>
    BY <1>18 DEF EccJudge
  <2>2. /\ ecc' \in [stat : Stats, cnt : Nat] /\ stat' \in {stat, NoStat}
        /\ pc' \in {"idle", "dead", "reload"}
    BY <1>18, JudgeIs
  <2> QED
    BY <2>1, <2>2, NoStatIs DEF Places
<1>19. CASE EccReload
  BY <1>19, NoStatIs DEF EccReload, Irq, Places
<1>20. CASE EccNormal
  BY <1>20, NoStatIs DEF EccNormal, Irq, Places
<1>21. CASE UNCHANGED vars
  BY <1>21 DEF vars, chip, driver
<1> QED
  BY <1>1, <1>2, <1>3, <1>4, <1>5, <1>6, <1>7, <1>8, <1>9, <1>10, <1>11,
     <1>12, <1>13, <1>14, <1>15, <1>16, <1>17, <1>18, <1>19, <1>20, <1>21
     DEF Next, Chip, Handler

\* A flag the handler acts on stays until it acts.
LEMMA FlaggedStep ==
  ASSUME EccInv, [Next]_vars
  PROVE  Flagged'
<1> USE DEF Flagged
<1>1. CASE Corrupt
  BY <1>1 DEF EccInv, Corrupt, driver
<1>2. CASE OutsideError
  BY <1>2, OutsideIs, NoStatIs DEF EccInv, Types, OutsideError, Outside, driver
<1>3. CASE MabUnderflow
  BY <1>3 DEF EccInv, MabUnderflow, Underflow, driver
<1>4. ASSUME NEW b \in BOOLEAN, Detect(b)
      PROVE  Flagged'
  <2>1. eccstat'.kinds # {} => eccstat'.obj # NoStat.obj
    BY <1>4, DetectIs, NoStatIs DEF EccInv
  <2>2. eccstat.kinds # {} => eccstat'.kinds # {}
    BY <1>4, DetectIs DEF EccInv
  <2>3. flags' = flags \cup {"IVMIF"} /\ UNCHANGED driver
    BY <1>4 DEF Detect, Underflow
  <2> QED
    BY <2>1, <2>2, <2>3 DEF EccInv, driver
<1>5. CASE DetectCorrected
  <2>1. eccstat'.obj # NoStat.obj /\ eccstat'.kinds # {}
    BY <1>5, CorrectedIs, NoStatIs DEF EccInv
  <2> QED
    BY <1>5, <2>1 DEF EccInv, DetectCorrected, driver
<1>6. CASE Send
  BY <1>6 DEF EccInv, Send, driver
<1>7. CASE ModeChanges
  BY <1>7 DEF EccInv, ModeChanges, driver
<1>8. CASE SerrifRises
  BY <1>8 DEF EccInv, SerrifRises, driver
<1>9. CASE Xmit
  BY <1>9 DEF EccInv, Xmit
<1>10. CASE IrqRead
  BY <1>10 DEF EccInv, IrqRead, Irq, InPass, Pending, chip
<1>11. CASE IrqAck
  BY <1>11 DEF EccInv, IrqAck, Irq, InPass
<1>12. CASE IrqModif
  BY <1>12 DEF EccInv, IrqModif, NormalMode, Irq, InPass
<1>13. CASE IrqTefif
  BY <1>13 DEF EccInv, IrqTefif, Irq, InPass, chip
<1>14. CASE IrqIvmif
  BY <1>14 DEF EccInv, IrqIvmif, Irq, InPass, chip
<1>15. CASE IrqSerrif
  BY <1>15 DEF EccInv, IrqSerrif, Irq, InPass, chip
<1>16. CASE EccRead
  BY <1>16 DEF EccInv, EccRead, Irq, InPass, chip
<1>17. CASE EccClear
  <2>1. eccstat'.kinds # {} => eccstat'.obj # NoStat.obj
    BY <1>17, ClearIs, NoStatIs DEF EccInv
  <2>2. pc' = "eccjudge" /\ flags' \subseteq flags
    BY <1>17 DEF EccClear, Irq
  <2> QED
    BY <2>1, <2>2 DEF EccInv, InPass
<1>18. CASE EccJudge
  BY <1>18 DEF EccInv, EccJudge, EccResume, NormalMode, Irq, InPass
<1>19. CASE EccReload
  BY <1>19 DEF EccInv, EccReload, Irq, InPass
<1>20. CASE EccNormal
  BY <1>20 DEF EccInv, EccNormal, NormalMode, Irq, InPass
<1>21. CASE UNCHANGED vars
  BY <1>21 DEF EccInv, vars, chip, driver
<1> QED
  BY <1>1, <1>2, <1>3, <1>4, <1>5, <1>6, <1>7, <1>8, <1>9, <1>10, <1>11,
     <1>12, <1>13, <1>14, <1>15, <1>16, <1>17, <1>18, <1>19, <1>20, <1>21
     DEF Next, Chip, Handler

\* An address stays that of a frame in the ring until it is forgotten.
LEMMA OwnStep ==
  ASSUME EccInv, [Next]_vars
  PROVE  OwnInv'
<1> USE DEF OwnInv
<1>0. ASSUME acked' = acked, queued' = queued \/ queued' = queued + 1, NEW o
      PROVE  Owned(o) => Owned(o)'
  BY <1>0, OwnedStays DEF EccInv
<1>1. CASE Corrupt
  BY <1>0, <1>1 DEF EccInv, Corrupt, driver
<1>2. CASE OutsideError
  BY <1>0, <1>2, OutsideIs DEF EccInv, Types, OutsideError, driver
<1>3. CASE MabUnderflow
  BY <1>0, <1>3 DEF EccInv, MabUnderflow, driver
<1>4. ASSUME NEW b \in BOOLEAN, Detect(b)
      PROVE  OwnInv'
  <2>1. acked' = acked /\ queued' = queued /\ UNCHANGED <<pc, stat, ecc>>
    BY <1>4 DEF Detect, driver
  <2>2. eccstat' = eccstat \/ Owned(eccstat'.obj)
    BY <1>4, DetectIs DEF EccInv
  <2> QED
    BY <1>0, <2>1, <2>2 DEF EccInv
<1>5. CASE DetectCorrected
  <2>1. acked' = acked /\ queued' = queued /\ UNCHANGED <<pc, stat, ecc>>
    BY <1>5 DEF DetectCorrected, driver
  <2>2. Owned(eccstat'.obj)
    BY <1>5, CorrectedIs DEF EccInv
  <2> QED
    BY <1>0, <2>1, <2>2 DEF EccInv
<1>6. CASE Send
  BY <1>0, <1>6 DEF EccInv, Send, driver
<1>7. CASE ModeChanges
  BY <1>0, <1>7 DEF EccInv, ModeChanges, driver
<1>8. CASE SerrifRises
  BY <1>0, <1>8 DEF EccInv, SerrifRises, driver
<1>9. CASE Xmit
  BY <1>0, <1>9 DEF EccInv, Xmit
<1>10. CASE IrqRead
  BY <1>0, <1>10 DEF EccInv, IrqRead, Irq, chip
<1>11. CASE IrqAck
  BY <1>0, <1>11 DEF EccInv, IrqAck, Irq
<1>12. CASE IrqModif
  BY <1>0, <1>12 DEF EccInv, IrqModif, Irq
<1>13. CASE IrqTefif
  <2>1. CASE "TEFIF" \in intf
    <3>1. ecc'.stat = NoStat /\ pc' = "ivmif"
      BY <1>13, <2>1, TefifIs DEF EccInv, IrqTefif, Irq
    <3>2. /\ eccstat' = eccstat
          /\ eccstat.kinds # {} => eccstat.obj # NoStat.obj
      BY <1>13 DEF EccInv, Flagged, IrqTefif, chip
    <3> QED
      BY <3>1, <3>2
  <2>2. CASE "TEFIF" \notin intf
    BY <1>0, <1>13, <2>2 DEF EccInv, IrqTefif, Irq, chip
  <2> QED
    BY <2>1, <2>2
<1>14. CASE IrqIvmif
  BY <1>0, <1>14 DEF EccInv, IrqIvmif, Irq, chip
<1>15. CASE IrqSerrif
  BY <1>0, <1>15 DEF EccInv, IrqSerrif, Irq, chip
<1>16. CASE EccRead
  BY <1>0, <1>16 DEF EccInv, EccRead, Flagged, Irq, chip
<1>17. CASE EccClear
  <2>1. UNCHANGED <<acked, queued, stat, ecc>> /\ pc = "eccclear"
        /\ pc' = "eccjudge"
    BY <1>17 DEF EccClear, Irq
  <2>2. \/ eccstat'.kinds = {}
        \/ /\ eccstat'.obj = eccstat.obj /\ eccstat.kinds # {}
           /\ ~(eccstat.kinds \subseteq stat.kinds)
    BY <1>17, ClearIs, NoStatIs DEF EccInv
  <2> QED
    BY <1>0, <2>1, <2>2 DEF EccInv
<1>18. CASE EccJudge
  <2>1. UNCHANGED <<acked, queued, eccstat>> /\ pc = "eccjudge"
    BY <1>18 DEF EccJudge
  <2>2. \A o : Owned(o) => Owned(o)'
    BY <1>0, <2>1
  <2>3. eccstat.kinds # {} /\ eccstat.obj # Outside => Owned(eccstat.obj)
    BY <2>1 DEF EccInv
  <2>4. pc' \in {"idle", "dead", "reload"}
    BY <1>18, JudgeIs DEF EccInv
  <2>5. pc' = "reload" =>
          stat' = stat /\ stat.obj # Outside /\ ecc.stat = stat
    BY <1>18, JudgeIs DEF EccInv
  <2>6. pc' = "reload" => Owned(stat.obj)'
    BY <2>1, <2>2, <2>5 DEF EccInv
  <2> QED
    BY <2>1, <2>2, <2>3, <2>4, <2>6
<1>19. CASE EccReload
  BY <1>0, <1>19 DEF EccInv, EccReload, Irq
<1>20. CASE EccNormal
  BY <1>0, <1>20 DEF EccInv, EccNormal, Irq
<1>21. CASE UNCHANGED vars
  BY <1>0, <1>21 DEF EccInv, vars, chip, driver
<1> QED
  BY <1>1, <1>2, <1>3, <1>4, <1>5, <1>6, <1>7, <1>8, <1>9, <1>10, <1>11,
     <1>12, <1>13, <1>14, <1>15, <1>16, <1>17, <1>18, <1>19, <1>20, <1>21
     DEF Next, Chip, Handler

\* An ECC error leaves its trace before its system error can be read.
LEMMA CountStep ==
  ASSUME EccInv, [Next]_vars
  PROVE  CountInv'
<1> USE DEF CountInv
<1>1. CASE Corrupt
  BY <1>1 DEF EccInv, Corrupt, driver
<1>2. CASE OutsideError
  BY <1>2 DEF OutsideError
<1>3. CASE MabUnderflow
  BY <1>3 DEF EccInv, MabUnderflow, Underflow, driver
<1>4. ASSUME NEW b \in BOOLEAN, Detect(b)
      PROVE  CountInv'
  <2>1. UNCHANGED <<outside, cause, driver>>
    BY <1>4 DEF Detect
  <2>2. IF b THEN eccstat'.kinds # {} /\ eccstat'.obj # Outside
             ELSE eccstat' = eccstat /\ ecc.cnt > 0
    BY <1>4, DetectIs DEF EccInv, Detect, Outside
  <2> QED
    BY <2>1, <2>2 DEF EccInv, driver
<1>5. CASE DetectCorrected
  <2>1. eccstat'.obj # Outside /\ eccstat'.kinds # {}
    BY <1>5, CorrectedIs DEF EccInv, Outside
  <2> QED
    BY <1>5, <2>1 DEF EccInv, DetectCorrected, driver
<1>6. CASE Send
  BY <1>6 DEF EccInv, Send, driver
<1>7. CASE ModeChanges
  BY <1>7 DEF EccInv, ModeChanges, driver
<1>8. CASE SerrifRises
  BY <1>8 DEF EccInv, SerrifRises, driver
<1>9. CASE Xmit
  BY <1>9 DEF EccInv, Xmit
<1>10. CASE IrqRead
  BY <1>10 DEF EccInv, IrqRead, Irq, InPass, Pending, chip
<1>11. CASE IrqAck
  BY <1>11 DEF EccInv, IrqAck, Irq, InPass
<1>12. CASE IrqModif
  BY <1>12 DEF EccInv, IrqModif, Irq, InPass
<1>13. CASE IrqTefif
  <2>1. ecc'.cnt = ecc.cnt
    BY <1>13, TefifIs DEF EccInv
  <2> QED
    BY <1>13, <2>1 DEF EccInv, IrqTefif, Irq, InPass, chip
<1>14. CASE IrqIvmif
  BY <1>14 DEF EccInv, IrqIvmif, Irq, InPass, chip
<1>15. CASE IrqSerrif
  BY <1>15, NoStatIs DEF EccInv, IrqSerrif, Irq, InPass, chip, Outside
<1>16. CASE EccRead
  BY <1>16 DEF EccInv, EccRead, Irq, InPass, chip
<1>17. CASE EccClear
  <2>1. /\ UNCHANGED <<outside, late, stat, ecc>> /\ (cause' => cause)
        /\ pc' = "eccjudge"
    BY <1>17 DEF EccClear, Irq
  <2>2. ~outside => eccstat'.obj # Outside
    BY <1>17, ClearIs, NoStatIs DEF EccInv, Outside
  <2> QED
    BY <2>1, <2>2 DEF EccInv, InPass
<1>18. CASE EccJudge
  <2>1. UNCHANGED <<outside, eccstat, late, cause, intf, sysCause>>
    BY <1>18 DEF EccJudge, EccResume
  <2>2. stat.obj # Outside => ecc'.cnt > 0
    BY <1>18, JudgeIs DEF EccInv
  <2>3. pc' \notin InPass /\ stat' \in {stat, NoStat}
    BY <1>18, JudgeIs DEF EccInv, InPass
  <2> QED
    BY <2>1, <2>2, <2>3, NoStatIs DEF EccInv, Outside
<1>19. CASE EccReload
  BY <1>19, NoStatIs DEF EccInv, EccReload, Irq, InPass, Outside
<1>20. CASE EccNormal
  BY <1>20, NoStatIs DEF EccInv, EccNormal, Irq, InPass, Outside
<1>21. CASE UNCHANGED vars
  BY <1>21 DEF EccInv, vars, chip, driver
<1> QED
  BY <1>1, <1>2, <1>3, <1>4, <1>5, <1>6, <1>7, <1>8, <1>9, <1>10, <1>11,
     <1>12, <1>13, <1>14, <1>15, <1>16, <1>17, <1>18, <1>19, <1>20, <1>21
     DEF Next, Chip, Handler

-----------------------------------------------------------------------------
(* The theorems.                                                           *)

\* Every address the handler may still use is that of a frame in the TX ring,
\* and every ECC error has left its trace.
THEOREM EccInvariant == Spec => []EccInv
<1>1. EccInv /\ [Next]_vars => EccInv'
  BY TypesStep, FlaggedStep, OwnStep, CountStep DEF EccInv
<1> QED
  BY InitEccInv, <1>1, PTL DEF Spec

\* eccif_recover() reloads only an object of a frame in the TX ring, whatever
\* was sent, acknowledged or reported since the error was first seen.
THEOREM OnlyOwnedReloaded == Spec => []ReloadOwned
<1>1. EccInv => ReloadOwned
  BY DEF EccInv, OwnInv, Owned, ReloadOwned
<1> QED
  BY EccInvariant, <1>1, PTL

\* handle_serrif() knows every system error that comes from an ECC error in a
\* TX object, whether ECCIF, SERRIF and MODIF are read together or in different
\* passes.
THEOREM EccErrorsRecognised == Spec => []EccErrorsKnown
<1>1. EccInv => EccErrorsKnown
  BY DEF EccInv, CountInv, InPass, EccErrorsKnown, KnownSystemError
<1> QED
  BY EccInvariant, <1>1, PTL

=============================================================================
