----------------------------- MODULE Interrupts -----------------------------
(***************************************************************************)
(* Interrupts: kernel_main's bring-up of the IDT, the PIC and the handlers *)
(* (kernel/kernel.c, kernel/drivers/idt.c, gdt.c), the entry stubs of      *)
(* kernel/boot.s, irq_handler with its end-of-interrupt writes, the timer, *)
(* and mp_hal_delay_ms (kernel/python/mphalport.h), which waits on it.     *)
(*                                                                         *)
(* Every gate is an interrupt gate: entry clears IF and iret restores it.  *)
(* The pair of 8259 PICs and the devices are the environment.  A device    *)
(* may raise its line at any time, during the bring-up as well, when IF is *)
(* off because the boot loader left it so.                                 *)
(***************************************************************************)
EXTENDS Integers, FiniteSets

CONSTANTS
  Lines,       \* IRQ lines that devices use, a subset of 0 .. 15
  Faults,      \* CPU exceptions the running code may cause
  Delays,      \* arguments of mp_hal_delay_ms
  TICKS,       \* number of values of timer_ticks (2^32)
  MaxElapsed   \* bound: ticks counted during one delay

ASSUME InterruptsAssumption ==
  /\ Lines \subseteq 0 .. 15 /\ Faults \subseteq 0 .. 19
  /\ TICKS \in Nat /\ TICKS > 1
  /\ MaxElapsed \in Nat      \* no delay is longer than what is counted
  /\ Delays \subseteq 0 .. TICKS - 1 /\ Delays \subseteq 0 .. MaxElapsed

VARIABLES
  gdt,           \* gdt_install has run: selector 0x08 is the kernel's code
  idt,           \* vector -> "null" (a present gate of base 0), "isr", "irq"
  idt_loaded,
  irq_handlers,  \* line -> "none", "timer", "keyboard"
  pic,           \* offset, mask, irr (requested), isr (in service)
  IF_flag,       \* the CPU's interrupt flag
  cpu,           \* what runs: main, halted, irq, eoi, iret, isr
  int_no,        \* the vector being handled
  main,          \* the main thread's place
  timer_ticks,
  start, ms,     \* mp_hal_delay_ms
  elapsed,       \* history: ticks since the delay began
  ran            \* the main thread has run since the last tick

bootVars == <<gdt, idt, idt_loaded, irq_handlers>>
delayVars == <<start, ms, elapsed>>
vars == <<bootVars, pic, IF_flag, cpu, int_no, main, timer_ticks, delayVars, ran>>

Vectors == 0 .. 255

-----------------------------------------------------------------------------
(* kernel_main, from gdt_install on; the steps before it, mem_initialize   *)
(* and initrd_init do not touch interrupts.                                *)

Boot(from, to) ==
  /\ main = from /\ cpu = "main"
  /\ main' = to
  /\ UNCHANGED <<cpu, int_no, timer_ticks, delayVars, ran>>

gdt_install ==
  /\ Boot("gdt_install", "idt_install")
  /\ gdt' = TRUE
  /\ UNCHANGED <<idt, idt_loaded, irq_handlers, pic, IF_flag>>

(* idt_install: first every gate is made present with base 0. *)
IdtClear ==
  /\ Boot("idt_install", "pic_remap")
  /\ idt' = [v \in Vectors |-> "null"]
  /\ UNCHANGED <<gdt, idt_loaded, irq_handlers, pic, IF_flag>>

(* Mutant: the PIC keeps the vectors the firmware gave it. *)
pic_remap_NoOffset ==
  /\ Boot("pic_remap", "stubs")
  /\ pic' = [pic EXCEPT !.mask = 2 .. 15, !.irr = {}, !.isr = {}]
  /\ UNCHANGED <<bootVars, IF_flag>>

(* ICW1 drops what was latched; then offsets 32 and 40, and only lines 0   *)
(* and 1 are enabled.                                                      *)
pic_remap ==
  /\ Boot("pic_remap", "stubs")
  /\ pic' = [offset |-> 32, mask |-> 2 .. 15, irr |-> {}, isr |-> {}]
  /\ UNCHANGED <<bootVars, IF_flag>>

IdtStubs ==
  /\ Boot("stubs", "idt_load")
  /\ idt' = [v \in Vectors |-> IF v \in 0 .. 19 THEN "isr"
                               ELSE IF v \in 32 .. 47 THEN "irq"
                               ELSE idt[v]]
  /\ UNCHANGED <<gdt, idt_loaded, irq_handlers, pic, IF_flag>>

idt_load ==
  /\ Boot("idt_load", "timer_install")
  /\ idt_loaded' = TRUE
  /\ UNCHANGED <<gdt, idt, irq_handlers, pic, IF_flag>>

irq_install_handler(irq, handler) ==
  /\ irq_handlers' = [irq_handlers EXCEPT ![irq] = handler]
  /\ UNCHANGED <<gdt, idt, idt_loaded, pic, IF_flag>>

(* Mutant: the timer handler is installed on line 2. *)
timer_install_WrongLine ==
  /\ Boot("timer_install", "keyboard_install")
  /\ irq_install_handler(2, "timer")

timer_install ==
  /\ Boot("timer_install", "keyboard_install")
  /\ irq_install_handler(0, "timer")

keyboard_install ==
  /\ Boot("keyboard_install", "sti")
  /\ irq_install_handler(1, "keyboard")

Sti ==
  /\ Boot("sti", "run")
  /\ IF_flag' = TRUE
  /\ UNCHANGED <<bootVars, pic>>

kernel_main ==
  \/ gdt_install \/ IdtClear \/ pic_remap \/ IdtStubs \/ idt_load
  \/ timer_install \/ keyboard_install \/ Sti

-----------------------------------------------------------------------------
(* The PICs: line 2 is the cascade, so lines 8 .. 15 rank after line 1.    *)

Rank(n) == IF n < 2 THEN n ELSE IF n >= 8 THEN n - 6 ELSE n + 8

Open(n) == n \notin pic.mask /\ (n >= 8 => 2 \notin pic.mask)

(* The requests the PIC may put through now. *)
Deliverable ==
  {n \in pic.irr : Open(n) /\ \A m \in pic.isr : Rank(n) < Rank(m)}

(* A device raises its line; a second edge before the first is served is   *)
(* not counted.  A tick leaves the main thread time for at least a step    *)
(* before the next one: a millisecond is long.                             *)
Raise(n) ==
  /\ n = 0 => ran
  /\ pic' = [pic EXCEPT !.irr = @ \cup {n}]
  /\ UNCHANGED <<bootVars, IF_flag, cpu, int_no, main, timer_ticks, delayVars,
                 ran>>

Enter(v) ==
  /\ IF_flag /\ cpu \in {"main", "halted"}
  /\ int_no' = v
  /\ IF_flag' = FALSE
  /\ cpu' = "irq"
  /\ UNCHANGED <<bootVars, main, timer_ticks, delayVars>>

Deliver(n) ==
  /\ n \in Deliverable /\ \A m \in Deliverable : Rank(n) <= Rank(m)
  /\ Enter(pic.offset + n)
  /\ pic' = [pic EXCEPT !.irr = @ \ {n},
                        !.isr = @ \cup (IF n >= 8 THEN {2, n} ELSE {n})]
  /\ ran' = (ran /\ n # 0)

(* A request that goes away before the CPU acknowledges it comes out as    *)
(* vector 7 of the master, with nothing in service.                        *)
Spurious ==
  /\ Enter(pic.offset + 7)
  /\ UNCHANGED <<pic, ran>>

-----------------------------------------------------------------------------
(* irq_common_stub and irq_handler. *)

(* Mutant: the counter is wider than the uint32_t the delay computes with. *)
CountTick_Wide ==
  /\ timer_ticks' = timer_ticks + 1
  /\ elapsed' = IF elapsed < MaxElapsed THEN elapsed + 1 ELSE elapsed

(* timer_handler. *)
CountTick ==
  /\ timer_ticks' = (timer_ticks + 1) % TICKS
  /\ elapsed' = IF elapsed < MaxElapsed THEN elapsed + 1 ELSE elapsed

Handler ==
  IF int_no \in 32 .. 47 THEN irq_handlers[int_no - 32] ELSE "none"

CallHandler ==
  /\ cpu = "irq"
  /\ \/ Handler = "timer" /\ CountTick
     \/ Handler # "timer" /\ UNCHANGED <<timer_ticks, elapsed>>
  /\ cpu' = "eoi"
  /\ UNCHANGED <<bootVars, pic, IF_flag, int_no, main, start, ms, ran>>

(* A non-specific EOI ends the highest-ranking interrupt in service. *)
First(S) == {n \in S : \A m \in S : Rank(n) <= Rank(m)}
EndOf(S) == S \ First(S)

(* Mutant: the master gets its EOI only with the second PIC's. *)
SendEoi_SlaveOnly ==
  /\ cpu = "eoi"
  /\ pic' = IF int_no >= 40 THEN [pic EXCEPT !.isr = EndOf({n \in @ : n >= 8})]
            ELSE pic
  /\ cpu' = "iret"
  /\ UNCHANGED <<bootVars, IF_flag, int_no, main, timer_ticks, delayVars, ran>>

SendEoi ==
  /\ cpu = "eoi"
  /\ pic' = [pic EXCEPT !.isr =
       (IF int_no >= 40 THEN EndOf({n \in @ : n >= 8}) ELSE {n \in @ : n >= 8})
         \cup EndOf({n \in @ : n < 8})]
  /\ cpu' = "iret"
  /\ UNCHANGED <<bootVars, IF_flag, int_no, main, timer_ticks, delayVars, ran>>

Iret ==
  /\ cpu = "iret"
  /\ cpu' = "main" /\ IF_flag' = TRUE
  /\ UNCHANGED <<bootVars, pic, int_no, main, timer_ticks, delayVars, ran>>

irq_handler == CallHandler \/ SendEoi \/ Iret

(* isr_handler prints a line and returns to the faulting instruction. *)
Fault(v) ==
  /\ main \in {"run", "delay_test", "delay_hlt"} /\ cpu = "main"
  /\ cpu' = "isr" /\ IF_flag' = FALSE /\ int_no' = v
  /\ UNCHANGED <<bootVars, pic, main, timer_ticks, delayVars, ran>>

isr_handler ==
  /\ cpu = "isr"
  /\ cpu' = "main" /\ IF_flag' = TRUE
  /\ UNCHANGED <<bootVars, pic, int_no, main, timer_ticks, delayVars, ran>>

-----------------------------------------------------------------------------
(* The main thread after the bring-up: other work, or mp_hal_delay_ms,     *)
(* where the test and the hlt are separate instructions.                   *)

Compute ==
  /\ main = "run" /\ cpu = "main"
  /\ ran' = TRUE
  /\ UNCHANGED <<bootVars, pic, IF_flag, cpu, int_no, main, timer_ticks, delayVars>>

DelayCall ==
  /\ main = "run" /\ cpu = "main"
  /\ ms' \in Delays
  /\ start' = timer_ticks
  /\ elapsed' = 0
  /\ main' = "delay_test" /\ ran' = TRUE
  /\ UNCHANGED <<bootVars, pic, IF_flag, cpu, int_no, timer_ticks>>

(* Mutant: the deadline start + ms is computed and compared. *)
DelayOver_Deadline == timer_ticks >= (start + ms) % TICKS

(* timer_get_ticks() - start, in uint32_t arithmetic. *)
DelayOver == (timer_ticks - start + TICKS) % TICKS >= ms

DelayTest ==
  /\ main = "delay_test" /\ cpu = "main"
  /\ main' = IF DelayOver THEN "run" ELSE "delay_hlt"
  /\ ran' = TRUE
  /\ UNCHANGED <<bootVars, pic, IF_flag, cpu, int_no, timer_ticks, delayVars>>

DelayHlt ==
  /\ main = "delay_hlt" /\ cpu = "main"
  /\ main' = "delay_test"
  /\ cpu' = "halted" /\ ran' = TRUE
  /\ UNCHANGED <<bootVars, pic, IF_flag, int_no, timer_ticks, delayVars>>

mp_hal_delay_ms == DelayTest \/ DelayHlt

-----------------------------------------------------------------------------
(* The boot loader leaves IF off and the PIC as the firmware set it. *)
Init ==
  /\ gdt = FALSE
  /\ idt = [v \in Vectors |-> "null"] /\ idt_loaded = FALSE
  /\ irq_handlers = [n \in 0 .. 15 |-> "none"]
  /\ pic = [offset |-> 8, mask |-> {}, irr |-> {}, isr |-> {}]
  /\ IF_flag = FALSE /\ cpu = "main" /\ int_no = 0
  /\ main = "gdt_install"
  /\ timer_ticks = 0
  /\ start = 0 /\ ms = 0 /\ elapsed = 0 /\ ran = TRUE

Cpu ==
  \/ kernel_main \/ irq_handler \/ isr_handler
  \/ Compute \/ DelayCall \/ mp_hal_delay_ms

Next ==
  \/ Cpu
  \/ \E n \in Lines : Raise(n) \/ Deliver(n)
  \/ Spurious
  \/ \E v \in Faults : Fault(v)

(***************************************************************************)
(* Fairness.  A CPU that is not halted executes.  The timer keeps raising  *)
(* its line.  A pending request is put through: strongly fair, because a   *)
(* fault, a spurious interrupt or another line may come first, but not at  *)
(* every turn.  The same holds of the main thread's own steps.             *)
(***************************************************************************)
Fairness ==
  /\ WF_vars(kernel_main)
  /\ WF_vars(irq_handler) /\ WF_vars(isr_handler)
  /\ SF_vars(mp_hal_delay_ms)
  /\ WF_vars(Raise(0))
  /\ SF_vars(Deliver(0)) /\ SF_vars(Deliver(1))

Spec == Init /\ [][Next]_vars /\ Fairness

-----------------------------------------------------------------------------
BeforeStubs == {"gdt_install", "idt_install", "pic_remap", "stubs"}
BeforeTimer == BeforeStubs \cup {"idt_load", "timer_install"}
BringUp == BeforeTimer \cup {"keyboard_install", "sti"}

TypeOK ==
  /\ gdt \in BOOLEAN /\ idt_loaded \in BOOLEAN /\ IF_flag \in BOOLEAN
  /\ idt \in [Vectors -> {"null", "isr", "irq"}]
  /\ irq_handlers \in [0 .. 15 -> {"none", "timer", "keyboard"}]
  /\ pic \in [offset : {8, 32}, mask : SUBSET (0 .. 15), irr : SUBSET (0 .. 15),
              isr : SUBSET (0 .. 15)]
  /\ cpu \in {"main", "halted", "irq", "eoi", "iret", "isr"}
  /\ main \in BringUp \cup {"run", "delay_test", "delay_hlt"}
  /\ int_no \in Vectors
  /\ timer_ticks \in 0 .. TICKS - 1 /\ start \in 0 .. TICKS - 1
  /\ ms \in 0 .. TICKS - 1 /\ elapsed \in 0 .. MaxElapsed
  /\ ran \in BOOLEAN

(***************************************************************************)
(* No interrupt arrives before the kernel is ready for it: once IF is on,  *)
(* whatever the PIC can put through has a stub behind its gate, a valid    *)
(* code selector and a handler, also if the line was raised early.         *)
(***************************************************************************)
InterruptsFindHandlers ==
  /\ IF_flag => gdt /\ idt_loaded /\ idt[pic.offset + 7] = "irq"
  /\ IF_flag => \A n \in Deliverable :
       idt[pic.offset + n] = "irq" /\ irq_handlers[n] # "none"
  /\ cpu = "irq" => idt[int_no] = "irq"

(***************************************************************************)
(* Every acknowledged interrupt is ended before the next can come: outside *)
(* the handlers nothing is in service, so no line is blocked by an EOI     *)
(* that was lost, or given for a spurious interrupt to the wrong line.     *)
(***************************************************************************)
NothingLeftInService ==
  /\ cpu \in {"main", "halted", "isr"} => pic.isr = {}
  /\ cpu \in {"irq", "eoi"} => Cardinality(pic.isr) <= 1

(***************************************************************************)
(* The inductive strengthening.  Each step of the bring-up finds what the  *)
(* steps before it have done, and IF stays off till the last; after it     *)
(* only lines 0 and 1 come through, and the one in service is the one that *)
(* is handled.  While elapsed can count, the tick counter's distance from  *)
(* the start of the delay, taken as uint32_t arithmetic takes it, has not  *)
(* overtaken it.                                                           *)
(***************************************************************************)
BootIsInOrder ==
  /\ main # "gdt_install" => gdt
  /\ main \notin BeforeStubs \ {"stubs"} => pic.offset = 32 /\ pic.mask = 2 .. 15
  /\ main \notin BeforeStubs => \A v \in 32 .. 47 : idt[v] = "irq"
  /\ main \notin BeforeStubs \cup {"idt_load"} => idt_loaded
  /\ main \notin BeforeTimer => irq_handlers[0] = "timer"
  /\ main \notin BeforeTimer \cup {"keyboard_install"} => irq_handlers[1] = "keyboard"
  /\ main \in BringUp => ~IF_flag /\ cpu = "main"

InServiceIsHandled ==
  /\ cpu \in {"irq", "eoi"} => int_no \in {32, 33, 39}
  /\ cpu \in {"irq", "eoi"} =>
       pic.isr = {} \/ (int_no \in {32, 33} /\ pic.isr = {int_no - 32})
  /\ cpu \notin {"irq", "eoi"} => pic.isr = {}

Since == IF timer_ticks >= start THEN timer_ticks - start
                                 ELSE timer_ticks - start + TICKS

DelayIsCounted ==
  /\ ms <= MaxElapsed
  /\ elapsed < MaxElapsed => Since <= elapsed

InterruptsInv ==
  TypeOK /\ BootIsInOrder /\ InServiceIsHandled /\ DelayIsCounted

(***************************************************************************)
(* mp_hal_delay_ms does not return early, also when timer_ticks wraps      *)
(* around during the wait.                                                 *)
(***************************************************************************)
DelayNotEarly ==
  [][main = "delay_test" /\ main' = "run" => elapsed >= ms]_vars

(***************************************************************************)
(* Every key interrupt is served after boot, whatever the timer, faults    *)
(* and spurious interrupts do meanwhile.                                   *)
(***************************************************************************)
KeyInterruptServed ==
  (main = "run" /\ 1 \in pic.irr) ~> (cpu = "irq" /\ int_no = 33)

(* A delay ends: the ticks that wake it from hlt also end it. *)
DelayEnds == (main = "delay_test") ~> (main = "run")
=============================================================================
