------------------------------ MODULE IrqTests ------------------------------
(***************************************************************************)
(* The interrupt test modules: dv-int and dv-git, dv-irq-tst, which also   *)
(* takes an interrupt without a GPIO, and intltest, which needs no device. *)
(* Each takes a GPIO and its interrupt and gives them back.  What a module *)
(* remembers survives a probe that failed and the unbinding of the device. *)
(*                                                                         *)
(* The interrupts are counted in the handlers and printed; no property is  *)
(* about the counts, and they are left out.  One device, as all state of a *)
(* module is in one static structure.                                      *)
(***************************************************************************)
EXTENDS Integers

VARIABLES
  module,             \* the module that is loaded
  pos,                \* where its probe or remove is
  pin,                \* irq_pin: "none" (an error), "gpio", "gpio0" (GPIO 0)
  irq,                \* irq is not 0
  gpio,               \* the GPIO is requested
  handler,            \* the interrupt handler is registered
  direct,             \* the handler's interrupt is not the one of a GPIO
  proc,               \* the file in /proc
  slips               \* a GPIO was "kept", the return of one "refused"

irqTestVars == <<module, pos, pin, irq, gpio, handler, direct, proc, slips>>

TestModules == {"dv-int", "dv-irq-tst", "intltest"}

IrqTestInit ==
  /\ module = "none" /\ pos = "unloaded" /\ pin = "none" /\ irq = FALSE
  /\ gpio = FALSE /\ handler = FALSE /\ direct = FALSE /\ proc = FALSE
  /\ slips = {}

At(from, to) == pos = from /\ pos' = to
Slip(s) == slips' = slips \cup {s}

\* module_init.  intltest has no probe and its pin in the source.
InsMod ==
  /\ module' \in TestModules
  /\ IF module' = "intltest" THEN At("unloaded", "request") /\ pin' = "gpio"
                             ELSE At("unloaded", "unbound") /\ pin' = "none"
  /\ irq' = FALSE
  /\ UNCHANGED <<gpio, handler, direct, proc, slips>>

-----------------------------------------------------------------------------
(* dv_int_probe, dv_git_probe, intltest_init                               *)

\* Without a GPIO dv-int refuses the device; dv-irq-tst asks for the
\* interrupt of the device.
FindPin ==
  /\ module # "intltest"
  /\ \/ At("unbound", "request") /\ pin' \in {"gpio", "gpio0"}
     \/ /\ At("unbound",
              IF module = "dv-irq-tst" THEN "platform" ELSE "unbound")
        /\ pin' = "none"
  /\ UNCHANGED <<module, irq, gpio, handler, direct, proc, slips>>

GpioRequest ==
  /\ \/ At("request", "direction") /\ ~gpio /\ gpio' = TRUE
     \/ At("request", "unbound") /\ UNCHANGED gpio
  /\ UNCHANGED <<module, pin, irq, handler, direct, proc, slips>>

\* An error in dv-irq-tst leaves without the error label; dv-int does not
\* set the direction and intltest does not look at the result.
GpioDirection ==
  /\ \/ At("direction", "to_irq") /\ UNCHANGED slips
     \/ At("direction", "unbound") /\ module = "dv-irq-tst" /\ Slip("kept")
  /\ UNCHANGED <<module, pin, irq, gpio, handler, direct, proc>>

GpioToIrq ==
  /\ \/ At("to_irq", "irq") /\ irq' = TRUE /\ UNCHANGED slips
     \/ /\ At("to_irq", "unbound") /\ module = "dv-irq-tst"
        /\ Slip("kept") /\ UNCHANGED irq
     \/ /\ At("to_irq", "err_free_gpio") /\ module # "dv-irq-tst"
        /\ UNCHANGED <<irq, slips>>
  /\ UNCHANGED <<module, pin, gpio, handler, direct, proc>>

PlatformGetIrq ==
  /\ \/ At("platform", "irq") /\ irq' = TRUE
     \/ At("platform", "unbound") /\ UNCHANGED irq
  /\ UNCHANGED <<module, pin, gpio, handler, direct, proc, slips>>

RequestIrq ==
  /\ \/ At("irq", "bound") /\ handler' = TRUE /\ direct' = (pin = "none")
     \/ At("irq", "err_free_gpio") /\ UNCHANGED <<handler, direct>>
  /\ proc' = (module = "intltest" /\ pos' = "bound")
  /\ UNCHANGED <<module, pin, irq, gpio, slips>>

\* gpio_free() of an error code is refused with a warning.
GpioFree == IF pin = "none" THEN Slip("refused") /\ UNCHANGED gpio
                            ELSE gpio' = FALSE /\ UNCHANGED slips

ErrFreeGpio ==
  /\ At("err_free_gpio", "unbound")
  /\ GpioFree
  /\ UNCHANGED <<module, pin, irq, handler, direct, proc>>

-----------------------------------------------------------------------------
(* dv_int_remove, dv_git_remove, intltest_exit                             *)

\* Mutant: the GPIO is given back while the interrupt may still come.
FreeIrqForgotten ==
  /\ At("bound", "free_gpio")
  /\ UNCHANGED <<module, pin, irq, gpio, handler, direct, proc, slips>>

FreeIrq ==
  /\ At("bound", "free_gpio")
  /\ IF irq THEN handler' = FALSE ELSE UNCHANGED handler
  /\ UNCHANGED <<module, pin, irq, gpio, direct, proc, slips>>

\* dv-irq-tst takes GPIO 0 for no GPIO.
RemoveGpio ==
  /\ At("free_gpio", IF module = "intltest" THEN "proc" ELSE "unbound")
  /\ IF module = "dv-irq-tst" /\ pin = "gpio0"
       THEN Slip("kept") /\ UNCHANGED gpio
       ELSE GpioFree
  /\ UNCHANGED <<module, pin, irq, handler, direct, proc>>

ProcClean ==
  /\ At("proc", "unbound") /\ proc' = FALSE
  /\ UNCHANGED <<module, pin, irq, gpio, handler, direct, slips>>

\* module_exit; the static structure goes with the module.
RmMod ==
  /\ At("unbound", "unloaded")
  /\ module' = "none" /\ pin' = "none" /\ irq' = FALSE
  /\ UNCHANGED <<gpio, handler, direct, proc, slips>>

IrqTestNext ==
  \/ InsMod \/ FindPin \/ GpioRequest \/ GpioDirection \/ GpioToIrq
  \/ PlatformGetIrq \/ RequestIrq \/ ErrFreeGpio \/ FreeIrq \/ RemoveGpio
  \/ ProcClean \/ RmMod

IrqTestSpec == IrqTestInit /\ [][IrqTestNext]_irqTestVars

-----------------------------------------------------------------------------
(* Properties.                                                             *)

\* Wherever a probe fails, and after each remove, a module holds neither an
\* interrupt nor a GPIO nor its file, and an interrupt handler never outlives
\* the GPIO it belongs to.  Only dv-irq-tst keeps a GPIO, on the errors that
\* go past its label and for GPIO 0, which no later probe can request again.
PinsReturned ==
  /\ pos \in {"unbound", "unloaded"} =>
       ~handler /\ ~proc /\ (gpio => "kept" \in slips)
  /\ handler /\ ~direct => gpio
=============================================================================
