--------------------------- MODULE McpPowerProofs ---------------------------
(***************************************************************************)
(* Theorems about McpPower for every number of probes and whatever fails.  *)
(*                                                                         *)
(* The inductive invariant says for each place of register and unregister  *)
(* which runtime PM reference is held, whether runtime PM is enabled and   *)
(* whether the clock and the supply are on, and that ndo_open and ndo_stop *)
(* run only while register or unregister let them.                         *)
(***************************************************************************)
EXTENDS McpPower, TLAPS

\* Register holds its reference, runtime PM is enabled.
Registering == {"softreset", "detect", "rx_int", "rx_int_off", "candev", "done",
                "sleep", "put", "undo_unregister", "undo_sleep",
                "undo_disable"}

\* Runtime PM decides about the power.
Managed == {"bound", "unregister", "get"}

\* Power is on, because register switched it on.
Switched == Registering \cup {"active", "undo_noidle", "undo_power"}

\* Runtime PM is enabled.
Enabled == Registering \cup Managed \cup {"noidle", "power", "disable"}

\* register or unregister holds a reference.
Holding == Registering \cup {"undo_noidle", "noidle"}

\* The interface is registered, or was until the RTNL lock was taken.
Shown == {"done", "sleep", "put", "undo_unregister", "bound", "unregister"}

\* All places of the thread drv.
DrvPlaces == Switched \cup Enabled \cup {"unbound", "setup", "enable", "free"}

\* ndo_open or ndo_stop is on its way, or the interface is up.
Used == user # "idle" \/ up

\* The part of struct dev_pm_info the calls touch.
PmType == [usage : Nat, depth : {0, 1},
           status : {"active", "suspending", "suspended"}, err : BOOLEAN,
           idle : BOOLEAN]

\* Where everybody is, and what the counts are made of.
Places ==
  /\ board \in [vdd : BOOLEAN, rpm : BOOLEAN, noslp : BOOLEAN]
  /\ drv \in DrvPlaces
  /\ user \in {"idle", "put_noidle", "start", "ints", "stop", "put"}
  /\ clk \in Nat /\ vdd \in Nat
  /\ pm \in PmType

\* Runtime PM: references, and what the worker may be doing.
PmInv ==
  /\ ~board.rpm => pm = UnboundPm
  /\ board.rpm =>
       /\ pm.usage = (IF drv \in Holding THEN 1 ELSE 0)
                       + (IF Used THEN 1 ELSE 0)
       /\ pm.depth = (IF drv \in Enabled THEN 0 ELSE 1)
       /\ drv \in Registering => pm.status = "active"
       /\ Used /\ user # "put_noidle" => pm.status = "active"
  /\ pm.idle => CanIdle(pm) /\ drv \in Managed
  /\ pm.status = "suspending" =>
       ~Refused(pm) /\ pm.usage = 0 /\ drv \in Managed

\* Runtime PM has the power switched on.
Resumed == board.rpm => pm.status # "suspended"

\* Clock and supply.
SwitchInv ==
  /\ vdd = (IF board.vdd THEN clk ELSE 0)
  /\ drv \in Switched => clk > 0
  /\ drv \in Managed \cup {"noidle", "power"} =>
       /\ Resumed => clk > 0
       /\ ~Resumed /\ pm.err => "resume" \in failed
  /\ drv \in {"noidle", "power"} => clk > 0 \/ "resume" \in failed
  /\ underflow => "resume" \in failed
  /\ "disable" \notin failed =>
       clk = IF \/ drv \in Switched
                \/ drv \in Managed \cup {"noidle", "power"} /\ Resumed
             THEN 1 ELSE 0

\* ndo_open and ndo_stop.
UserInv ==
  /\ drv = "unbound" => speed = "orig"
  /\ up => user = "idle"
  /\ visible \/ Used => drv \in Shown
  /\ Used /\ ~early => drv \notin {"done", "sleep"}
  /\ (up \/ user = "ints") /\ ~early => chip = "normal"

\* The inductive invariant.
PowerInv == Places /\ PmInv /\ SwitchInv /\ UserInv

-----------------------------------------------------------------------------
(* What the runtime PM calls do to pm.                                     *)

\* pm_runtime_put()
LEMMA PmPut ==
  ASSUME NEW p \in PmType, p.usage > 0
  PROVE  /\ Put(p) \in PmType
         /\ Put(p).usage = p.usage - 1 /\ Put(p).depth = p.depth
         /\ Put(p).status = p.status /\ (Put(p).err <=> p.err)
         /\ Put(p).idle => p.idle \/ CanIdle(Put(p))
<1> DEFINE q == [p EXCEPT !.usage = @ - 1]
<1>1. q \in PmType /\ q = [p EXCEPT !.usage = p.usage - 1]
  BY DEF PmType
<1>2. Put(p) = [q EXCEPT !.idle = q.idle \/ CanIdle(q)]
  BY DEF Put
<1>3. q.idle \/ CanIdle(q) \in BOOLEAN
  BY <1>1 DEF PmType, CanIdle
<1>4. Put(p) \in PmType
  BY <1>1, <1>2, <1>3, Zenon DEF PmType
<1> QED
  BY <1>1, <1>2, <1>4 DEF PmType, CanIdle, Refused

\* pm_runtime_put_noidle()
LEMMA PmPutNoidle ==
  ASSUME NEW p \in PmType, p.usage > 0
  PROVE  /\ PutNoidle(p) \in PmType
         /\ PutNoidle(p).usage = p.usage - 1 /\ PutNoidle(p).depth = p.depth
         /\ PutNoidle(p).status = p.status /\ (PutNoidle(p).err <=> p.err)
         /\ (PutNoidle(p).idle <=> p.idle)
  BY DEF PutNoidle, PmType

\* A request of the worker is dropped.
LEMMA PmIdle ==
  ASSUME NEW p \in PmType, NEW q, q = [p EXCEPT !.idle = FALSE]
  PROVE  /\ q \in PmType /\ q.usage = p.usage /\ q.depth = p.depth
         /\ q.status = p.status /\ q.err = p.err /\ ~q.idle
  BY Zenon DEF PmType

\* The sticky error changes.
LEMMA PmErr ==
  ASSUME NEW p \in PmType, NEW q, NEW b \in BOOLEAN,
         q = [p EXCEPT !.err = b]
  PROVE  /\ q \in PmType /\ q.usage = p.usage /\ q.depth = p.depth
         /\ q.status = p.status /\ q.idle = p.idle /\ q.err = b
  BY Zenon DEF PmType

\* pm_runtime_disable()
LEMMA PmDisable ==
  ASSUME Disable, pm \in PmType, board.rpm, pm.depth = 0
  PROVE  /\ pm.status # "suspending" /\ pm' \in PmType
         /\ pm'.usage = pm.usage /\ pm'.depth = 1
         /\ pm'.status = pm.status /\ (pm'.err <=> pm.err) /\ ~pm'.idle
<1> DEFINE q == [pm EXCEPT !.depth = 1]
<1>1. pm.status # "suspending" /\ pm' = [q EXCEPT !.idle = FALSE]
  BY DEF Disable, PmType, Pm
<1>2. /\ q \in PmType /\ q.usage = pm.usage /\ q.depth = 1
      /\ q.status = pm.status /\ (q.err <=> pm.err)
  BY DEF PmType
<1> HIDE DEF q
<1>3. /\ pm' \in PmType /\ pm'.usage = q.usage /\ pm'.depth = q.depth
      /\ pm'.status = q.status /\ pm'.err = q.err /\ ~pm'.idle
  BY <1>1, <1>2, PmIdle, Zenon
<1> QED
  BY <1>1, <1>2, <1>3

\* pm_runtime_get_sync(), with either result.
LEMMA PmGetSync ==
  ASSUME NEW ok \in BOOLEAN, GetSync(ok), pm \in PmType, board.rpm
  PROVE  /\ pm' \in PmType
         /\ pm'.usage = pm.usage + 1 /\ pm'.depth = pm.depth
         /\ pm'.status = IF ok THEN "active" ELSE pm.status
         /\ pm'.idle => pm.idle /\ Refused(pm)
         /\ pm.status = "suspending" => Refused(pm)
         /\ ok => ~pm.err /\ ~pm'.err
         /\ ~ok /\ ~Refused(pm) => pm'.err /\ pm.status = "suspended"
         /\ Refused(pm) => ~ok /\ (pm'.err <=> pm.err)
<1> DEFINE used == [pm EXCEPT !.usage = pm.usage + 1]
           awake == [used EXCEPT !.status = "active"]
           err == [used EXCEPT !.err = TRUE]
<1>1. /\ used \in PmType /\ used.usage = pm.usage + 1 /\ used.depth = pm.depth
      /\ used.status = pm.status /\ used.err = pm.err /\ used.idle = pm.idle
  BY DEF PmType
<1>2. \/ Refused(pm) /\ ~ok /\ pm' = used
      \/ ~Refused(pm) /\ ok /\ pm.status = "active"
         /\ pm' = [used EXCEPT !.idle = FALSE]
      \/ ~Refused(pm) /\ ok /\ pm.status = "suspended"
         /\ pm' = [used EXCEPT !.status = "active", !.idle = FALSE]
      \/ ~Refused(pm) /\ ~ok /\ pm.status = "suspended"
         /\ pm' = [used EXCEPT !.err = TRUE, !.idle = FALSE]
  BY Zenon DEF GetSync
<1>3. /\ awake \in PmType /\ awake.usage = used.usage
      /\ awake.depth = used.depth /\ awake.status = "active"
      /\ awake.err = used.err /\ awake.idle = used.idle
  BY <1>1 DEF PmType
<1>4. /\ err \in PmType /\ err.usage = used.usage
      /\ err.depth = used.depth /\ err.status = used.status
      /\ err.err /\ err.idle = used.idle
  BY <1>1, PmErr
<1>5. /\ [used EXCEPT !.status = "active", !.idle = FALSE] =
           [awake EXCEPT !.idle = FALSE]
      /\ [used EXCEPT !.err = TRUE, !.idle = FALSE] =
           [err EXCEPT !.idle = FALSE]
  BY DEF PmType
<1> HIDE DEF used, awake, err
<1>6. CASE Refused(pm) /\ ~ok /\ pm' = used
  BY <1>1, <1>6 DEF Refused
<1>7. ASSUME NEW q \in PmType, pm' = [q EXCEPT !.idle = FALSE]
      PROVE  /\ pm' \in PmType /\ pm'.usage = q.usage /\ pm'.depth = q.depth
             /\ pm'.status = q.status /\ pm'.err = q.err /\ ~pm'.idle
  BY <1>7, PmIdle, Zenon
<1>8. CASE /\ ~Refused(pm) /\ ok /\ pm.status = "active"
           /\ pm' = [used EXCEPT !.idle = FALSE]
  BY <1>1, <1>7, <1>8 DEF Refused
<1>9. CASE /\ ~Refused(pm) /\ ok /\ pm.status = "suspended"
           /\ pm' = [awake EXCEPT !.idle = FALSE]
  BY <1>1, <1>3, <1>7, <1>9 DEF Refused
<1>10. CASE /\ ~Refused(pm) /\ ~ok /\ pm.status = "suspended"
            /\ pm' = [err EXCEPT !.idle = FALSE]
  BY <1>1, <1>4, <1>7, <1>10 DEF Refused
<1> QED
  BY <1>2, <1>5, <1>6, <1>8, <1>9, <1>10

\* The SPI device before its first probe.
LEMMA PowerInit == Init => PowerInv
<1> SUFFICES ASSUME Init PROVE PowerInv
  OBVIOUS
<1> USE DEF Init
<1>1. Places
  BY DEF Places, DrvPlaces, UnboundPm, PmType
<1>2. PmInv
  BY DEF PmInv, UnboundPm, Used, Holding, Enabled, Registering, Managed
<1>3. SwitchInv
  BY DEF SwitchInv, Switched, Registering, Managed
<1>4. UserInv
  BY DEF UserInv, Used
<1> QED
  BY <1>1, <1>2, <1>3, <1>4 DEF PowerInv

\* get_noresume, set_active and enable in mcp251xfd_register.
LEMMA PmActive ==
  ASSUME NEW q, pm \in PmType, pm.depth = 1,
         q = [[pm EXCEPT !.usage = @ + 1]
                EXCEPT !.status = "active", !.err = FALSE, !.depth = @ - 1]
  PROVE  /\ q \in PmType /\ q.usage = pm.usage + 1 /\ q.depth = 0
         /\ q.status = "active" /\ ~q.err /\ q.idle = pm.idle
<1>1. pm.depth - 1 = 0
  OBVIOUS
<1>2. pm.usage + 1 \in Nat
  BY DEF PmType
<1> DEFINE n == pm.usage + 1
           m == pm.depth - 1
<1>3. q = [[pm EXCEPT !.usage = n]
             EXCEPT !.status = "active", !.err = FALSE, !.depth = m]
  OBVIOUS
<1> HIDE DEF n, m
<1>4. /\ q \in PmType /\ q.usage = n /\ q.depth = m
      /\ q.status = "active" /\ ~q.err /\ q.idle = pm.idle
  <2>1. n \in Nat /\ m \in {0, 1}
    BY <1>1, <1>2 DEF n, m
  <2> QED
    BY <1>3, <2>1, Zenon DEF PmType
<1> QED
  BY <1>1, <1>4 DEF n, m

(* The steps that change runtime PM.                                       *)

\* register takes its reference and enables runtime PM, or fails to.
LEMMA RegisterActiveInv ==
  ASSUME PowerInv, RegisterActive
  PROVE  PowerInv'
<1> USE DEF PowerInv, Places, PmInv, DrvPlaces, Switched, Enabled, Registering,
            Managed, Holding, Used
<1>1. board.rpm => pm.depth = 1 /\ ~pm.idle
  BY DEF RegisterActive, Drv, CanIdle, Refused
<1>2. CASE /\ drv' = "softreset" /\ board.rpm
           /\ pm' = [[pm EXCEPT !.usage = @ + 1] EXCEPT
                        !.status = "active", !.err = FALSE, !.depth = @ - 1]
  <2>1. /\ pm' \in PmType /\ pm'.usage = pm.usage + 1 /\ pm'.depth = 0
        /\ pm'.status = "active" /\ ~pm'.err /\ pm'.idle = pm.idle
    BY <1>1, <1>2, PmActive
  <2>2. Places' /\ PmInv'
    BY <1>1, <1>2, <2>1 DEF RegisterActive, Drv, netdev, power
  <2>3. SwitchInv' /\ UserInv'
    BY <1>2, <2>1 DEF SwitchInv, Resumed, UserInv, Shown, RegisterActive, Drv,
                      netdev, power, Works
  <2> QED
    BY <2>2, <2>3
<1>3. CASE /\ drv' = "undo_noidle" /\ board.rpm
           /\ pm' = [pm EXCEPT !.usage = @ + 1]
  <2>1. /\ pm' \in PmType /\ pm'.usage = pm.usage + 1 /\ pm'.depth = 1
        /\ pm'.status = pm.status /\ ~pm'.idle
    BY <1>1, <1>3 DEF PmType
  <2>2. Places' /\ PmInv'
    BY <1>1, <1>3, <2>1 DEF RegisterActive, Drv, netdev, power, Refused
  <2>3. SwitchInv' /\ UserInv'
    BY <1>3, <2>1 DEF SwitchInv, UserInv, Shown, RegisterActive, Drv, netdev,
                      power, Fails
  <2> QED
    BY <2>2, <2>3
<1>4. CASE drv' = "softreset" /\ ~board.rpm /\ pm' = pm
  <2>1. Places' /\ PmInv'
    BY <1>4 DEF RegisterActive, Drv, netdev, power, CanIdle, UnboundPm
  <2>2. SwitchInv' /\ UserInv'
    BY <1>4 DEF SwitchInv, Resumed, UserInv, Shown, RegisterActive, Drv,
                netdev, power, Works
  <2> QED
    BY <2>1, <2>2
<1> QED
  BY <1>2, <1>3, <1>4 DEF RegisterActive, Drv, Pm

\* unregister resumes the device, or fails to.
LEMMA UnregisterGetInv ==
  ASSUME PowerInv, UnregisterGet
  PROVE  PowerInv'
<1> USE DEF PowerInv, Places, PmInv, DrvPlaces, Switched, Enabled, Registering,
            Managed, Holding, Used
<1>1. PICK ok \in BOOLEAN : GetSync(ok) /\ drv = "get" /\ drv' = "noidle"
  BY DEF UnregisterGet, Drv, User
<1>2. board.rpm =>
         /\ pm' \in PmType
         /\ pm'.usage = pm.usage + 1 /\ pm'.depth = pm.depth
         /\ pm'.status = IF ok THEN "active" ELSE pm.status
         /\ pm'.idle => pm.idle /\ Refused(pm)
         /\ pm.status = "suspending" => Refused(pm)
         /\ ok => ~pm.err /\ ~pm'.err
         /\ ~ok /\ ~Refused(pm) => pm'.err /\ pm.status = "suspended"
         /\ Refused(pm) => ~ok /\ (pm'.err <=> pm.err)
  BY <1>1, PmGetSync
<1>3. ~board.rpm => pm' = pm
  BY <1>1 DEF GetSync
<1>4. \/ /\ UNCHANGED power /\ UNCHANGED chip /\ UNCHANGED failed
         /\ board.rpm => pm.status = "active" \/ Refused(pm)
      \/ /\ PowerOn /\ UNCHANGED failed /\ board.rpm /\ ok
         /\ pm.status = "suspended"
      \/ /\ UNCHANGED power /\ UNCHANGED chip /\ Fails("resume")
         /\ board.rpm /\ ~ok
  BY <1>1 DEF GetSync, Works, PowerOnFails
<1>5. board.rpm /\ ~ok /\ ~pm.err => "resume" \in failed'
  BY <1>1 DEF GetSync, PowerOnFails, Fails, Refused, UnregisterGet, Drv,
              UserInv, Shown
<1>6. Places'
  BY <1>1, <1>2, <1>3, <1>4 DEF UnregisterGet, Drv, User, power, netdev,
                                PowerOn
<1>7. PmInv'
  BY <1>1, <1>2, <1>3 DEF UnregisterGet, Drv, User, netdev, CanIdle, Refused,
                          UnboundPm, UserInv, Shown
<1>8. SwitchInv'
  <2>1. CASE /\ UNCHANGED power /\ UNCHANGED chip /\ UNCHANGED failed
             /\ board.rpm => pm.status = "active" \/ Refused(pm)
    BY <1>1, <1>2, <1>3, <1>5, <2>1 DEF SwitchInv, Resumed, UnregisterGet, Drv,
                                        User, UserInv, Shown, power, Refused
  <2>2. CASE /\ PowerOn /\ UNCHANGED failed /\ board.rpm /\ ok
             /\ pm.status = "suspended"
    BY <1>1, <1>2, <1>3, <2>2 DEF SwitchInv, Resumed, UnregisterGet, Drv, User,
                                  UserInv, Shown, PowerOn
  <2>3. CASE /\ UNCHANGED power /\ UNCHANGED chip /\ Fails("resume")
             /\ board.rpm /\ ~ok
    BY <1>1, <1>2, <1>3, <2>3 DEF SwitchInv, Resumed, UnregisterGet, Drv, User,
                                  UserInv, Shown, power, Fails
  <2> QED
    BY <1>4, <2>1, <2>2, <2>3
<1>9. UserInv'
  BY <1>1 DEF UserInv, Shown, UnregisterGet, Drv, User, netdev
<1> QED
  BY <1>6, <1>7, <1>8, <1>9

\* ndo_open resumes the device, or fails to.
LEMMA OpenGetInv ==
  ASSUME PowerInv, OpenGet
  PROVE  PowerInv'
<1> USE DEF PowerInv, Places, PmInv, DrvPlaces, Switched, Enabled, Registering,
            Managed, Holding, Used
<1>1. PICK ok \in BOOLEAN :
        /\ GetSync(ok)
        /\ user = "idle" /\ user' = IF ok THEN "start" ELSE "put_noidle"
  BY DEF OpenGet, Drv, User
<1>2. board.rpm =>
         /\ pm' \in PmType
         /\ pm'.usage = pm.usage + 1 /\ pm'.depth = pm.depth
         /\ pm'.status = IF ok THEN "active" ELSE pm.status
         /\ pm'.idle => pm.idle /\ Refused(pm)
         /\ pm.status = "suspending" => Refused(pm)
         /\ ok => ~pm.err /\ ~pm'.err
         /\ ~ok /\ ~Refused(pm) => pm'.err /\ pm.status = "suspended"
         /\ Refused(pm) => ~ok /\ (pm'.err <=> pm.err)
  BY <1>1, PmGetSync
<1>3. ~board.rpm => pm' = pm
  BY <1>1 DEF GetSync
<1>4. \/ /\ UNCHANGED power /\ UNCHANGED chip /\ UNCHANGED failed
         /\ board.rpm => pm.status = "active" \/ Refused(pm)
      \/ /\ PowerOn /\ UNCHANGED failed /\ board.rpm /\ ok
         /\ pm.status = "suspended"
      \/ /\ UNCHANGED power /\ UNCHANGED chip /\ Fails("resume")
         /\ board.rpm /\ ~ok
  BY <1>1 DEF GetSync, Works, PowerOnFails
<1>5. board.rpm /\ ~ok /\ ~pm.err => "resume" \in failed'
  BY <1>1 DEF GetSync, PowerOnFails, Fails, Refused, OpenGet, Drv, UserInv,
              Shown
<1>6. Places'
  BY <1>1, <1>2, <1>3, <1>4 DEF OpenGet, Drv, User, power, netdev, PowerOn
<1>7. PmInv'
  BY <1>1, <1>2, <1>3 DEF OpenGet, Drv, User, netdev, CanIdle, Refused,
                          UnboundPm, UserInv, Shown
<1>8. SwitchInv'
  <2>1. CASE /\ UNCHANGED power /\ UNCHANGED chip /\ UNCHANGED failed
             /\ board.rpm => pm.status = "active" \/ Refused(pm)
    BY <1>1, <1>2, <1>3, <1>5, <2>1 DEF SwitchInv, Resumed, OpenGet, Drv, User,
                                        UserInv, Shown, power, Refused
  <2>2. CASE /\ PowerOn /\ UNCHANGED failed /\ board.rpm /\ ok
             /\ pm.status = "suspended"
    BY <1>1, <1>2, <1>3, <2>2 DEF SwitchInv, Resumed, OpenGet, Drv, User,
                                  UserInv, Shown, PowerOn
  <2>3. CASE /\ UNCHANGED power /\ UNCHANGED chip /\ Fails("resume")
             /\ board.rpm /\ ~ok
    BY <1>1, <1>2, <1>3, <2>3 DEF SwitchInv, Resumed, OpenGet, Drv, User,
                                  UserInv, Shown, power, Fails
  <2> QED
    BY <1>4, <2>1, <2>2, <2>3
<1>9. UserInv'
  BY <1>1 DEF UserInv, Shown, OpenGet, Drv, User, netdev
<1> QED
  BY <1>6, <1>7, <1>8, <1>9

\* The driver is gone.
LEMMA FreeInv ==
  ASSUME PowerInv, Free
  PROVE  PowerInv'
<1> USE DEF PowerInv, Places, PmInv, DrvPlaces, Switched, Enabled, Registering,
            Managed, Holding, Used
<1>1. board.rpm =>
         /\ pm' \in PmType /\ pm'.usage = pm.usage /\ pm'.depth = pm.depth
         /\ pm'.idle = pm.idle /\ pm'.status = "suspended"
  BY DEF Free, Pm, PmType
<1>2. ~board.rpm => pm' = pm
  BY DEF Free, Pm
<1>3. Places' /\ PmInv'
  BY <1>1, <1>2 DEF Free, Drv, netdev, power, CanIdle, Refused, UnboundPm,
                    UserInv, Shown
<1>4. SwitchInv' /\ UserInv'
  BY DEF Free, Drv, netdev, power, SwitchInv, UserInv, Shown
<1> QED
  BY <1>3, <1>4

\* The worker switches off, or fails to.
LEMMA WorkerSuspendInv ==
  ASSUME PowerInv, WorkerSuspend
  PROVE  PowerInv'
<1> USE DEF PowerInv, Places, PmInv, DrvPlaces, Switched, Enabled, Registering,
            Managed, Holding, Used
<1>1. PICK ok \in BOOLEAN :
        /\ PowerOff(ok)
        /\ pm' = [pm EXCEPT !.status = IF ok THEN "suspended" ELSE "active",
                            !.err = ~ok]
  BY Zenon DEF WorkerSuspend
<1>2. /\ pm' \in PmType /\ pm'.usage = pm.usage /\ pm'.depth = pm.depth
      /\ pm'.status = IF ok THEN "suspended" ELSE "active"
      /\ (pm'.err <=> ~ok) /\ pm'.idle = pm.idle
  BY <1>1 DEF PmType
<1>3. /\ board.rpm /\ drv \in Managed /\ ~Used
      /\ pm.status = "suspending" /\ ~pm.idle
  BY DEF WorkerSuspend, UnboundPm, CanIdle
<1>4. clk > 0
  BY <1>3 DEF SwitchInv, Resumed
<1>5. Places' /\ PmInv'
  BY <1>1, <1>2, <1>3, <1>4 DEF WorkerSuspend, PowerOff, netdev, power,
                                SwitchInv
<1>6. SwitchInv'
  BY <1>1, <1>2, <1>3, <1>4 DEF WorkerSuspend, PowerOff, power, SwitchInv,
                                Resumed, Works, Fails
<1>7. UserInv'
  BY <1>3 DEF WorkerSuspend, UserInv, netdev
<1> QED
  BY <1>5, <1>6, <1>7

\* The worker begins to suspend.
LEMMA WorkerIdleInv ==
  ASSUME PowerInv, WorkerIdle
  PROVE  PowerInv'
<1> USE DEF PowerInv, Places, PmInv, DrvPlaces, Switched, Enabled, Registering,
            Managed, Holding, Used
<1>1. pm.idle /\ CanIdle(pm)
  BY DEF WorkerIdle
<1>2. pm' = [[pm EXCEPT !.status = "suspending"] EXCEPT !.idle = FALSE]
  BY <1>1 DEF WorkerIdle, PmType
<1>3. /\ pm' \in PmType /\ pm'.usage = pm.usage /\ pm'.depth = pm.depth
      /\ pm'.status = "suspending" /\ pm'.err = pm.err /\ ~pm'.idle
  BY <1>2, Zenon DEF PmType
<1>4. Places' /\ PmInv'
  BY <1>1, <1>3 DEF WorkerIdle, CanIdle, Refused, power, netdev, UnboundPm
<1>5. SwitchInv' /\ UserInv'
  BY <1>1, <1>3 DEF WorkerIdle, CanIdle, power, netdev, SwitchInv, UserInv,
                    Resumed
<1> QED
  BY <1>4, <1>5

\* register gives its reference back when it is done.
LEMMA RegisterPutInv ==
  ASSUME PowerInv, RegisterPut
  PROVE  PowerInv'
<1> USE DEF PowerInv, Places, PmInv, DrvPlaces, Switched, Enabled, Registering,
            Managed, Holding, Used
<1>1. board.rpm => pm.usage > 0 /\ pm' = Put(pm)
  BY DEF RegisterPut, Pm, Drv, User, PmType
<1>2. board.rpm =>
         /\ pm' \in PmType
         /\ pm'.usage = pm.usage - 1 /\ pm'.depth = pm.depth
         /\ pm'.status = pm.status /\ (pm'.err <=> pm.err)
         /\ pm'.idle => pm.idle \/ CanIdle(pm')
  BY <1>1, PmPut
<1>3. ~board.rpm => pm' = pm
  BY DEF RegisterPut, Pm
<1>4. Places'
  BY <1>2, <1>3 DEF RegisterPut, Drv, User, power, netdev
<1>5. PmInv'
  BY <1>2, <1>3 DEF RegisterPut, Drv, User, UnboundPm, CanIdle, Refused, netdev
<1>6. SwitchInv'
  BY <1>2, <1>3 DEF SwitchInv, Resumed, RegisterPut, Drv, User, power
<1>7. UserInv'
  BY DEF UserInv, Shown, RegisterPut, Drv, User, netdev
<1> QED
  BY <1>4, <1>5, <1>6, <1>7

\* register disables runtime PM after an error ...
LEMMA UndoDisableInv ==
  ASSUME PowerInv, UndoDisable
  PROVE  PowerInv'
<1> USE DEF PowerInv, Places, PmInv, DrvPlaces, Switched, Enabled, Registering,
            Managed, Holding, Used
<1>1. board.rpm => pm.depth = 0
  BY DEF UndoDisable, Drv, PmType
<1>2. board.rpm =>
         /\ pm.status # "suspending" /\ pm' \in PmType
         /\ pm'.usage = pm.usage /\ pm'.depth = 1
         /\ pm'.status = pm.status /\ (pm'.err <=> pm.err) /\ ~pm'.idle
  BY <1>1, PmDisable DEF UndoDisable
<1>3. ~board.rpm => pm' = pm
  BY DEF UndoDisable, Disable, Pm
<1>4. Places'
  BY <1>2, <1>3 DEF UndoDisable, Drv, User, power, netdev
<1>5. PmInv'
  BY <1>2, <1>3 DEF UndoDisable, Drv, User, UnboundPm, CanIdle, Refused, netdev
<1>6. SwitchInv'
  BY <1>2, <1>3 DEF SwitchInv, Resumed, UndoDisable, Drv, User, power
<1>7. UserInv'
  BY DEF UserInv, Shown, UndoDisable, Drv, User, netdev
<1> QED
  BY <1>4, <1>5, <1>6, <1>7

\* ... and gives its reference back.
LEMMA UndoNoidleInv ==
  ASSUME PowerInv, UndoNoidle
  PROVE  PowerInv'
<1> USE DEF PowerInv, Places, PmInv, DrvPlaces, Switched, Enabled, Registering,
            Managed, Holding, Used
<1>1. board.rpm => pm.usage > 0 /\ pm' = PutNoidle(pm)
  BY DEF UndoNoidle, Pm, Drv, User, PmType
<1>2. board.rpm =>
         /\ pm' \in PmType
         /\ pm'.usage = pm.usage - 1 /\ pm'.depth = pm.depth
         /\ pm'.status = pm.status /\ (pm'.err <=> pm.err)
         /\ (pm'.idle <=> pm.idle)
  BY <1>1, PmPutNoidle
<1>3. ~board.rpm => pm' = pm
  BY DEF UndoNoidle, Pm
<1>4. Places'
  BY <1>2, <1>3 DEF UndoNoidle, Drv, User, power, netdev
<1>5. PmInv'
  BY <1>2, <1>3 DEF UndoNoidle, Drv, User, UnboundPm, CanIdle, Refused, netdev
<1>6. SwitchInv'
  BY <1>2, <1>3 DEF SwitchInv, Resumed, UndoNoidle, Drv, User, power
<1>7. UserInv'
  BY DEF UserInv, Shown, UndoNoidle, Drv, User, netdev
<1> QED
  BY <1>4, <1>5, <1>6, <1>7

\* unregister gives back its reference ...
LEMMA UnregisterNoidleInv ==
  ASSUME PowerInv, UnregisterNoidle
  PROVE  PowerInv'
<1> USE DEF PowerInv, Places, PmInv, DrvPlaces, Switched, Enabled, Registering,
            Managed, Holding, Used
<1>1. board.rpm => pm.usage > 0 /\ pm' = PutNoidle(pm)
  BY DEF UnregisterNoidle, Pm, Drv, User, PmType
<1>2. board.rpm =>
         /\ pm' \in PmType
         /\ pm'.usage = pm.usage - 1 /\ pm'.depth = pm.depth
         /\ pm'.status = pm.status /\ (pm'.err <=> pm.err)
         /\ (pm'.idle <=> pm.idle)
  BY <1>1, PmPutNoidle
<1>3. ~board.rpm => pm' = pm
  BY DEF UnregisterNoidle, Pm
<1>4. Places'
  BY <1>2, <1>3 DEF UnregisterNoidle, Drv, User, power, netdev
<1>5. PmInv'
  BY <1>2, <1>3 DEF UnregisterNoidle, Drv, User, UnboundPm, CanIdle, Refused,
                    netdev
<1>6. SwitchInv'
  BY <1>2, <1>3 DEF SwitchInv, Resumed, UnregisterNoidle, Drv, User, power
<1>7. UserInv'
  BY DEF UserInv, Shown, UnregisterNoidle, Drv, User, netdev
<1> QED
  BY <1>4, <1>5, <1>6, <1>7

\* ... and disables runtime PM.
LEMMA UnregisterDisableInv ==
  ASSUME PowerInv, UnregisterDisable
  PROVE  PowerInv'
<1> USE DEF PowerInv, Places, PmInv, DrvPlaces, Switched, Enabled, Registering,
            Managed, Holding, Used
<1>1. board.rpm => pm.depth = 0
  BY DEF UnregisterDisable, Drv, PmType
<1>2. board.rpm =>
         /\ pm.status # "suspending" /\ pm' \in PmType
         /\ pm'.usage = pm.usage /\ pm'.depth = 1
         /\ pm'.status = pm.status /\ (pm'.err <=> pm.err) /\ ~pm'.idle
  BY <1>1, PmDisable DEF UnregisterDisable
<1>3. ~board.rpm => pm' = pm
  BY DEF UnregisterDisable, Disable, Pm
<1>4. Places'
  BY <1>2, <1>3 DEF UnregisterDisable, Drv, User, power, netdev
<1>5. PmInv'
  BY <1>2, <1>3 DEF UnregisterDisable, Drv, User, UnboundPm, CanIdle, Refused,
                    netdev
<1>6. SwitchInv'
  BY <1>2, <1>3 DEF SwitchInv, Resumed, UnregisterDisable, Drv, User, power
<1>7. UserInv'
  BY DEF UserInv, Shown, UnregisterDisable, Drv, User, netdev
<1> QED
  BY <1>4, <1>5, <1>6, <1>7

\* ndo_open gives up.
LEMMA OpenPutNoidleInv ==
  ASSUME PowerInv, OpenPutNoidle
  PROVE  PowerInv'
<1> USE DEF PowerInv, Places, PmInv, DrvPlaces, Switched, Enabled, Registering,
            Managed, Holding, Used
<1>1. board.rpm => pm.usage > 0 /\ pm' = PutNoidle(pm)
  BY DEF OpenPutNoidle, Pm, Drv, User, PmType
<1>2. board.rpm =>
         /\ pm' \in PmType
         /\ pm'.usage = pm.usage - 1 /\ pm'.depth = pm.depth
         /\ pm'.status = pm.status /\ (pm'.err <=> pm.err)
         /\ (pm'.idle <=> pm.idle)
  BY <1>1, PmPutNoidle
<1>3. ~board.rpm => pm' = pm
  BY DEF OpenPutNoidle, Pm
<1>4. Places'
  BY <1>2, <1>3 DEF OpenPutNoidle, Drv, User, power, netdev
<1>5. PmInv'
  BY <1>2, <1>3 DEF OpenPutNoidle, Drv, User, UnboundPm, CanIdle, Refused,
                    netdev, UserInv, Shown
<1>6. SwitchInv'
  BY <1>2, <1>3 DEF SwitchInv, Resumed, OpenPutNoidle, Drv, User, power
<1>7. UserInv'
  BY DEF UserInv, Shown, OpenPutNoidle, Drv, User, netdev
<1> QED
  BY <1>4, <1>5, <1>6, <1>7

\* ndo_stop, or a failing ndo_open, is done.
LEMMA StopPutInv ==
  ASSUME PowerInv, StopPut
  PROVE  PowerInv'
<1> USE DEF PowerInv, Places, PmInv, DrvPlaces, Switched, Enabled, Registering,
            Managed, Holding, Used
<1>1. board.rpm => pm.usage > 0 /\ pm' = Put(pm)
  BY DEF StopPut, Pm, Drv, User, PmType
<1>2. board.rpm =>
         /\ pm' \in PmType
         /\ pm'.usage = pm.usage - 1 /\ pm'.depth = pm.depth
         /\ pm'.status = pm.status /\ (pm'.err <=> pm.err)
         /\ pm'.idle => pm.idle \/ CanIdle(pm')
  BY <1>1, PmPut
<1>3. ~board.rpm => pm' = pm
  BY DEF StopPut, Pm
<1>4. Places'
  BY <1>2, <1>3 DEF StopPut, Drv, User, power, netdev
<1>5. PmInv'
  BY <1>2, <1>3 DEF StopPut, Drv, User, UnboundPm, CanIdle, Refused, netdev,
                    UserInv, Shown
<1>6. SwitchInv'
  BY <1>2, <1>3 DEF SwitchInv, Resumed, StopPut, Drv, User, power
<1>7. UserInv'
  BY DEF UserInv, Shown, StopPut, Drv, User, netdev
<1> QED
  BY <1>4, <1>5, <1>6, <1>7

(* Each part of the next-state relation keeps the invariant.               *)

\* mcp251xfd_register, its error labels and the end of probe.
LEMMA RegisterInv ==
  ASSUME PowerInv, Register
  PROVE  PowerInv'
<1>1. CASE RegisterActive
  BY <1>1, RegisterActiveInv
<1>2. CASE RegisterPut
  BY <1>2, RegisterPutInv
<1>3. CASE UndoDisable
  BY <1>3, UndoDisableInv
<1>4. CASE UndoNoidle
  BY <1>4, UndoNoidleInv
<1>5. CASE Free
  BY <1>5, FreeInv
<1> USE DEF PowerInv, Places, PmInv, SwitchInv, UserInv, DrvPlaces, Switched,
            Enabled, Registering, Managed, Holding, Shown, Used, Resumed,
            CanIdle, Refused, Drv, User, Works, Fails, Pm, power, netdev,
            UnboundPm, PmType
<1>6. CASE ProbeSetup
  BY <1>6 DEF ProbeSetup
<1>7. CASE RegisterEnable
  BY <1>7 DEF RegisterEnable, PowerOn, PowerOnFails
<1>8. CASE RegisterSoftreset
  BY <1>8 DEF RegisterSoftreset
<1>9. CASE RegisterChipDetect
  BY <1>9 DEF RegisterChipDetect, RegisterStep
<1>10. CASE RegisterCheckRxInt
  BY <1>10 DEF RegisterCheckRxInt, RegisterStep
<1>11. CASE RegisterRxIntDisable
  BY <1>11 DEF RegisterRxIntDisable, RegisterStep
<1>12. CASE RegisterCandev
  BY <1>12 DEF RegisterCandev
<1>13. CASE RegisterDone
  BY <1>13 DEF RegisterDone
<1>14. CASE RegisterSleep
  BY <1>14 DEF RegisterSleep, SleepMode
<1>15. CASE UnregisterCandev("undo_unregister", "undo_sleep")
  BY <1>15 DEF UnregisterCandev
<1>16. CASE UndoSleep
  BY <1>16 DEF UndoSleep, SleepMode
<1>17. CASE UndoPower
  BY <1>17 DEF UndoPower, PowerOff
<1> QED
  BY <1>1, <1>2, <1>3, <1>4, <1>5, <1>6, <1>7, <1>8, <1>9, <1>10, <1>11, <1>12,
     <1>13, <1>14, <1>15, <1>16, <1>17 DEF Register

\* mcp251xfd_unregister.
LEMMA UnregisterInv ==
  ASSUME PowerInv, Unregister
  PROVE  PowerInv'
<1>1. CASE UnregisterGet
  BY <1>1, UnregisterGetInv
<1>2. CASE UnregisterNoidle
  BY <1>2, UnregisterNoidleInv
<1>3. CASE UnregisterDisable
  BY <1>3, UnregisterDisableInv
<1> USE DEF PowerInv, Places, PmInv, SwitchInv, UserInv, DrvPlaces, Switched,
            Enabled, Registering, Managed, Holding, Shown, Used, Resumed,
            CanIdle, Refused, Drv, User, Works, Fails, Pm, power, netdev,
            UnboundPm, PmType
<1>4. CASE UnregisterCandev("unregister", "get")
  BY <1>4 DEF UnregisterCandev
<1>5. CASE UnregisterPower
  BY <1>5 DEF UnregisterPower, PowerOff
<1> QED
  BY <1>1, <1>2, <1>3, <1>4, <1>5 DEF Unregister

\* ndo_open and ndo_stop, once they began.
LEMMA UserStepsInv ==
  ASSUME PowerInv, UserSteps
  PROVE  PowerInv'
<1>1. CASE OpenPutNoidle
  BY <1>1, OpenPutNoidleInv
<1>2. CASE StopPut
  BY <1>2, StopPutInv
<1> USE DEF PowerInv, Places, PmInv, SwitchInv, UserInv, DrvPlaces, Switched,
            Enabled, Registering, Managed, Holding, Shown, Used, Resumed,
            CanIdle, Refused, Drv, User, Works, Fails, Pm, power, netdev,
            UnboundPm, PmType
<1>3. CASE OpenStart
  BY <1>3 DEF OpenStart
<1>4. CASE OpenInts
  BY <1>4 DEF OpenInts
<1>5. CASE StopChip
  BY <1>5 DEF StopChip, SleepMode
<1> QED
  BY <1>1, <1>2, <1>3, <1>4, <1>5 DEF UserSteps

\* The runtime PM worker.
LEMMA WorkerInv ==
  ASSUME PowerInv, Worker
  PROVE  PowerInv'
<1>1. CASE WorkerIdle
  BY <1>1, WorkerIdleInv
<1>2. CASE WorkerSuspend
  BY <1>2, WorkerSuspendInv
<1> QED
  BY <1>1, <1>2 DEF Worker

-----------------------------------------------------------------------------
\* Every step keeps the invariant.
LEMMA NextInv ==
  ASSUME PowerInv, [Next]_vars
  PROVE  PowerInv'
<1>1. CASE Register
  BY <1>1, RegisterInv
<1>2. CASE Unregister
  BY <1>2, UnregisterInv
<1>3. CASE UserSteps
  BY <1>3, UserStepsInv
<1>4. CASE Worker
  BY <1>4, WorkerInv
<1>5. CASE OpenGet
  BY <1>5, OpenGetInv
<1> USE DEF PowerInv, Places, PmInv, SwitchInv, UserInv, DrvPlaces, Switched,
            Enabled, Registering, Managed, Holding, Shown, Used, Resumed,
            CanIdle, Refused, Drv, User, Works, Fails, Pm, power, netdev,
            UnboundPm, PmType
<1>6. CASE Probe
  BY <1>6 DEF Probe
<1>7. CASE Remove
  BY <1>7 DEF Remove
<1>8. CASE Stop
  BY <1>8 DEF Stop
<1>9. CASE UNCHANGED vars
  BY <1>9 DEF vars
<1> QED
  BY <1>1, <1>2, <1>3, <1>4, <1>5, <1>6, <1>7, <1>8, <1>9 DEF Next

\* Whatever fails and however often the device is probed, the references of
\* the two threads, the state of runtime PM and the switches fit together.
THEOREM PowerInvariant == Spec => []PowerInv
<1>1. PowerInv /\ [Next]_vars => PowerInv'
  BY NextInv
<1> QED
  BY <1>1, PowerInit, PTL DEF Spec

\* Nobody accesses a controller without clock or supply, or one that is being
\* suspended (mcp251xfd_register, ndo_open, ndo_stop, the handler).
THEOREM AlwaysPowered == Spec => []PoweredWhenUsed
<1>1. PowerInv => PoweredWhenUsed
  BY DEF PowerInv, Places, PmInv, SwitchInv, UserInv, PoweredWhenUsed,
     Accessing, Powered, Switched, Registering, Managed, Shown, Used, Resumed,
     Refused, UnboundPm
<1> QED
  BY <1>1, PowerInvariant, PTL

\* A device without its driver has no interface, holds no reference and runs
\* SPI at its own clock rate; it holds no clock and no supply either, unless a
\* supply could not be disabled (mcp251xfd_clks_and_vdd_disable).
THEOREM PowerGivenBack == Spec => []PowerReturned
<1>1. PowerInv => PowerReturned
  BY DEF PowerInv, Places, PmInv, SwitchInv, UserInv, PowerReturned, Switched,
     Enabled, Registering, Managed, Holding, Shown, Used, UnboundPm
<1> QED
  BY <1>1, PowerInvariant, PTL

\* Clock and supply are disabled more often than they were enabled only after
\* a resume that failed, whose result mcp251xfd_unregister ignores.
THEOREM PowerBalanced == Spec => []BalancedPower
<1>1. PowerInv => BalancedPower
  BY DEF PowerInv, SwitchInv, BalancedPower
<1> QED
  BY <1>1, PowerInvariant, PTL

\* An interface that is up has an awake controller, unless it was opened while
\* mcp251xfd_register was still to put the controller to sleep.
THEOREM AwakeWhenUp == Spec => []AwakeWhileUp
<1>1. PowerInv => AwakeWhileUp
  BY DEF PowerInv, UserInv, AwakeWhileUp
<1> QED
  BY <1>1, PowerInvariant, PTL
=============================================================================
