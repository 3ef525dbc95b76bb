-------------------------------- MODULE Irq ---------------------------------
(***************************************************************************)
(* Interrupts on the QEMU board: gic_init (src/AetherWebOS/src/kernel/     *)
(* gic.c), timer_init and handle_timer_irq (drivers/timer.c), the IRQ      *)
(* vector (arch/aarch64/vectors.S, kernel/exception.c) and                 *)
(* enable_interrupts (common/asm_utils.S).                                 *)
(*                                                                         *)
(* The timer's interrupt is edge triggered: it becomes pending when the    *)
(* timer's condition becomes true, and a condition that stays true raises  *)
(* no second one.  While handler is not "none" the core is in the handler  *)
(* and what it interrupted stands still.                                   *)
(***************************************************************************)
EXTENDS Pcie, Sequences

CONSTANTS
  Affinities,    \* the affinity of each redistributor, in the order of their frames
  Core,          \* that of the core the kernel runs on
  UPTIME_END     \* the width of uptime_ms

ASSUME IrqAssumption ==
  /\ Core \in Nat /\ Affinities \in Seq(Nat) /\ Affinities # <<>>
  /\ UPTIME_END \in Nat /\ UPTIME_END % 10 = 0 /\ UPTIME_END > 10

VARIABLES
  redist,        \* the redistributor gic_init is at
  gicr,          \* redistributor -> its waker and its timer interrupt's settings
  icc,           \* distributor and CPU interface enabled
  cntp,          \* the timer: enabled, and its condition due
  irq,           \* the timer interrupt: "idle", "pending", "active" or "active_pending"
  daif_i,        \* IRQs are masked
  handler,       \* "none", or where handle_irq_exception is
  uptime_ms

irq_vars == <<redist, gicr, icc, cntp, irq, daif_i, handler, uptime_ms>>

IrqInit ==
  /\ redist = 1
  /\ gicr = [r \in DOMAIN Affinities |->
               [sleep |-> TRUE, asleep |-> TRUE, group1 |-> FALSE, enabled |-> FALSE]]
  /\ icc = FALSE
  /\ cntp = [enabled |-> FALSE, due |-> FALSE]
  /\ irq = "idle"
  /\ daif_i = TRUE
  /\ handler = "none"
  /\ uptime_ms = 0

Main(where) == At(where) /\ NoMapping /\ handler = "none"

-----------------------------------------------------------------------------
(* GICR_TYPER: our core's redistributor, or the last there is *)
NextRedistributor ==
  /\ Main("gic")
  /\ Affinities[redist] # Core /\ redist < Len(Affinities)
  /\ redist' = redist + 1
  /\ GoTo("gic")
  /\ UNCHANGED <<gicr, icc, cntp, irq, daif_i, handler, uptime_ms>>

WakeRedistributor ==
  /\ Main("gic")
  /\ Affinities[redist] = Core \/ redist = Len(Affinities)
  /\ gicr' = [gicr EXCEPT ![redist].sleep = FALSE]
  /\ GoTo("wake")
  /\ UNCHANGED <<redist, icc, cntp, irq, daif_i, handler, uptime_ms>>

(* ChildrenAsleep reads 0: the timer's interrupt is put in Group 1 and     *)
(* enabled, and the CPU interface opened.                                  *)
EnableTimerInterrupt ==
  /\ Main("wake") /\ ~gicr[redist].asleep
  /\ gicr' = [gicr EXCEPT ![redist].group1 = TRUE, ![redist].enabled = TRUE]
  /\ icc' = TRUE
  /\ GoTo("timer")
  /\ UNCHANGED <<redist, cntp, irq, daif_i, handler, uptime_ms>>

timer_init ==
  /\ Main("timer")
  /\ cntp' = [enabled |-> TRUE, due |-> FALSE]
  /\ GoTo("unmask")
  /\ UNCHANGED <<redist, gicr, icc, irq, daif_i, handler, uptime_ms>>

enable_interrupts ==
  /\ Main("unmask")
  /\ daif_i' = FALSE
  /\ GoTo("loop")
  /\ UNCHANGED <<redist, gicr, icc, cntp, irq, handler, uptime_ms>>

(* while (1): what an iteration does is modules Console's, VirtioNet's and *)
(* Tcp's.                                                                  *)
MainLoop ==
  /\ Main("loop")
  /\ GoTo("loop")
  /\ UNCHANGED irq_vars

-----------------------------------------------------------------------------
HandlerStep ==
  NoMapping /\ UNCHANGED <<pc, dev, machine, pcie_vars, redist, gicr, icc>>

Signalled ==
  /\ irq = "pending" /\ icc
  /\ \E r \in DOMAIN Affinities :
       Affinities[r] = Core /\ gicr[r].group1 /\ gicr[r].enabled

(* irq_el1h: the core masks IRQs and enters the vector. *)
TakeIrq ==
  /\ handler = "none" /\ ~daif_i /\ Signalled
  /\ daif_i' = TRUE
  /\ handler' = "acknowledge"
  /\ HandlerStep /\ UNCHANGED <<cntp, irq, uptime_ms>>

(* ICC_IAR1_EL1 *)
Acknowledge ==
  /\ handler = "acknowledge"
  /\ irq' = "active"
  /\ handler' = "timer"
  /\ HandlerStep /\ UNCHANGED <<cntp, daif_i, uptime_ms>>

Mutant_Reload == cntp

(* Writing TVAL makes the condition false again. *)
Reload == [cntp EXCEPT !.due = FALSE]

handle_timer_irq ==
  /\ handler = "timer"
  /\ uptime_ms' = (uptime_ms + 10) % UPTIME_END
  /\ cntp' = Reload
  /\ handler' = "end"
  /\ HandlerStep /\ UNCHANGED <<irq, daif_i>>

(* ICC_EOIR1_EL1 *)
EndOfInterrupt ==
  /\ handler = "end"
  /\ irq' = IF irq = "active_pending" THEN "pending" ELSE "idle"
  /\ handler' = "exit"
  /\ HandlerStep /\ UNCHANGED <<cntp, daif_i, uptime_ms>>

kernel_exit ==
  /\ handler = "exit"
  /\ daif_i' = FALSE
  /\ handler' = "none"
  /\ HandlerStep /\ UNCHANGED <<cntp, irq, uptime_ms>>

-----------------------------------------------------------------------------
(* The redistributor and the timer (external) *)
ChildrenWake ==
  /\ \E r \in DOMAIN Affinities :
       /\ ~gicr[r].sleep /\ gicr[r].asleep
       /\ gicr' = [gicr EXCEPT ![r].asleep = FALSE]
  /\ NoMapping
  /\ UNCHANGED <<pc, dev, machine, pcie_vars, redist, icc, cntp, irq, daif_i, handler, uptime_ms>>

TimerExpires ==
  /\ cntp.enabled /\ ~cntp.due
  /\ cntp' = [cntp EXCEPT !.due = TRUE]
  /\ irq' = IF irq \in {"active", "active_pending"} THEN "active_pending" ELSE "pending"
  /\ HandlerStep /\ UNCHANGED <<daif_i, handler, uptime_ms>>

IrqStep ==
  \/ NextRedistributor \/ WakeRedistributor \/ EnableTimerInterrupt
  \/ timer_init \/ enable_interrupts \/ MainLoop
  \/ TakeIrq \/ Acknowledge \/ handle_timer_irq \/ EndOfInterrupt \/ kernel_exit

=============================================================================
