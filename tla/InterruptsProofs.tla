-------------------------- MODULE InterruptsProofs --------------------------
(***************************************************************************)
(* For every set of device lines, faults and delays and every width of the *)
(* tick counter: the bring-up is in order, an interrupt finds its handler, *)
(* nothing is left in service, and mp_hal_delay_ms is not early.           *)
(***************************************************************************)
EXTENDS Interrupts, FiniteSetTheorems, TLAPS

Running == {"run", "delay_test", "delay_hlt"}

Pic == [offset : {8, 32}, mask : SUBSET (0 .. 15), irr : SUBSET (0 .. 15),
        isr : SUBSET (0 .. 15)]

(* The Boolean variables, apart: they are Zenon's, the rest is SMT's. *)
Flags == gdt \in BOOLEAN /\ idt_loaded \in BOOLEAN /\ IF_flag \in BOOLEAN /\ ran \in BOOLEAN

Typed ==
  /\ idt \in [Vectors -> {"null", "isr", "irq"}]
  /\ irq_handlers \in [0 .. 15 -> {"none", "timer", "keyboard"}]
  /\ pic \in Pic
  /\ cpu \in {"main", "halted", "irq", "eoi", "iret", "isr"}
  /\ main \in BringUp \cup Running
  /\ int_no \in Vectors
  /\ timer_ticks \in 0 .. TICKS - 1 /\ start \in 0 .. TICKS - 1
  /\ ms \in 0 .. TICKS - 1 /\ elapsed \in 0 .. MaxElapsed

LEMMA TypeParts == TypeOK <=> Flags /\ Typed
BY Zenon DEF TypeOK, Flags, Typed, Pic, Running

LEMMA Constants ==
  /\ TICKS \in Nat /\ TICKS > 1 /\ MaxElapsed \in Nat
  /\ Lines \subseteq 0 .. 15 /\ Faults \subseteq 0 .. 19
  /\ Delays \subseteq 0 .. TICKS - 1 /\ Delays \subseteq 0 .. MaxElapsed
BY InterruptsAssumption

-----------------------------------------------------------------------------
(* Arithmetic of the tick counter. *)

LEMMA TickWraps ==
  ASSUME NEW x \in 0 .. TICKS - 1
  PROVE  (x + 1) % TICKS = IF x + 1 = TICKS THEN 0 ELSE x + 1
BY Constants

LEMMA DelayOverMeans ==
  ASSUME Typed PROVE DelayOver <=> Since >= ms
<1>1. \A x \in 0 .. TICKS - 1, y \in 0 .. TICKS - 1 :
        (x - y + TICKS) % TICKS = IF x >= y THEN x - y ELSE x - y + TICKS
  BY Constants
<1> QED BY <1>1 DEF Typed, DelayOver, Since

-----------------------------------------------------------------------------
LEMMA InitInv == Init => InterruptsInv
<1> SUFFICES ASSUME Init PROVE InterruptsInv
  OBVIOUS
<1>1. Flags
  BY Zenon DEF Init, Flags
<1>2. Typed
  BY Constants DEF Init, Typed, Pic, BringUp, BeforeTimer, BeforeStubs, Vectors
<1>3. BootIsInOrder
  BY DEF Init, BootIsInOrder, BringUp, BeforeTimer, BeforeStubs
<1>4. InServiceIsHandled
  BY DEF Init, InServiceIsHandled
<1>5. DelayIsCounted
  BY Constants DEF Init, DelayIsCounted, Since
<1> QED BY <1>1, <1>2, <1>3, <1>4, <1>5, TypeParts DEF InterruptsInv

(* The bring-up: one step done, and the interrupt flag still off. *)
LEMMA BootInv == ASSUME InterruptsInv, kernel_main PROVE InterruptsInv'
<1> USE DEF Boot, bootVars, delayVars
<1>1. Flags /\ Typed /\ BootIsInOrder /\ InServiceIsHandled /\ DelayIsCounted
  BY TypeParts DEF InterruptsInv
<1>2. Flags'
  BY <1>1, Zenon DEF Flags, kernel_main, gdt_install, IdtClear, pic_remap, IdtStubs,
     idt_load, timer_install, keyboard_install, irq_install_handler, Sti
<1>3. /\ main \in BringUp /\ cpu = "main"
      /\ UNCHANGED <<cpu, int_no, timer_ticks, start, ms, elapsed>>
  BY Zenon DEF kernel_main, gdt_install, IdtClear, pic_remap, IdtStubs, BringUp,
     idt_load, timer_install, keyboard_install, irq_install_handler, Sti, BeforeTimer, BeforeStubs
<1>4. Typed' /\ BootIsInOrder' /\ (pic' = pic \/ pic'.isr = {})
  <2> USE DEF Typed, BootIsInOrder, BringUp, BeforeTimer, BeforeStubs, Running
  <2>1. CASE gdt_install
    BY <1>1, <1>3, <2>1 DEF gdt_install
  <2>2. CASE IdtClear
    BY <1>1, <1>3, <2>2 DEF IdtClear
  <2>3. CASE pic_remap
    BY <1>1, <1>3, <2>3 DEF pic_remap, Pic
  <2>4. CASE IdtStubs
    <3>1. /\ main = "stubs" /\ main' = "idt_load"
          /\ UNCHANGED <<gdt, idt_loaded, irq_handlers, pic, IF_flag>>
      BY <2>4, Zenon DEF IdtStubs
    <3>2. idt' \in [Vectors -> {"null", "isr", "irq"}]
      BY <1>1, <2>4 DEF IdtStubs
    <3>3. \A v \in 32 .. 47 : idt'[v] = "irq"
      BY <2>4 DEF IdtStubs, Vectors
    <3> QED BY <1>1, <1>3, <3>1, <3>2, <3>3
  <2>5. CASE idt_load
    BY <1>1, <1>3, <2>5 DEF idt_load
  <2>6. CASE timer_install
    BY <1>1, <1>3, <2>6 DEF timer_install, irq_install_handler
  <2>7. CASE keyboard_install
    BY <1>1, <1>3, <2>7 DEF keyboard_install, irq_install_handler
  <2>8. CASE Sti
    BY <1>1, <1>3, <2>8 DEF Sti
  <2> QED BY <2>1, <2>2, <2>3, <2>4, <2>5, <2>6, <2>7, <2>8 DEF kernel_main
<1>5. InServiceIsHandled'
  BY <1>1, <1>3, <1>4 DEF InServiceIsHandled
<1>6. DelayIsCounted'
  BY <1>1, <1>3 DEF DelayIsCounted, Since
<1> QED BY <1>2, <1>4, <1>5, <1>6, TypeParts, PTL DEF InterruptsInv
-----------------------------------------------------------------------------
(* After the bring-up. *)

(* While a handler can be entered, only lines 0 and 1 are open, and the    *)
(* code that an interrupt reaches is there.                                *)
LEMMA AfterSti ==
  ASSUME InterruptsInv, IF_flag \/ cpu # "main"
  PROVE  /\ main \in Running /\ gdt /\ idt_loaded
         /\ pic.offset = 32 /\ pic.mask = 2 .. 15
         /\ \A v \in 32 .. 47 : idt[v] = "irq"
         /\ irq_handlers[0] = "timer" /\ irq_handlers[1] = "keyboard"
         /\ Deliverable \subseteq {0, 1}
<1>1. Typed /\ BootIsInOrder
  BY TypeParts DEF InterruptsInv
<1>2. main \in Running
  BY <1>1 DEF Typed, BootIsInOrder
<1>3. gdt /\ idt_loaded
  BY <1>1, <1>2, Zenon DEF BootIsInOrder, Running, BeforeStubs, BringUp
<1>4. /\ pic.offset = 32 /\ pic.mask = 2 .. 15
      /\ \A v \in 32 .. 47 : idt[v] = "irq"
      /\ irq_handlers[0] = "timer" /\ irq_handlers[1] = "keyboard"
  BY <1>1, <1>2 DEF BootIsInOrder, Running, BeforeStubs, BeforeTimer
<1>5. Deliverable \subseteq {0, 1}
  BY <1>1, <1>4 DEF Deliverable, Open, Typed, Pic
<1> QED BY <1>2, <1>3, <1>4, <1>5

(* A device raises its line. *)
LEMMA RaiseInv ==
  ASSUME InterruptsInv, NEW n \in Lines, Raise(n) PROVE InterruptsInv'
<1> USE DEF Raise, bootVars, delayVars
<1>1. Flags /\ Typed /\ BootIsInOrder /\ InServiceIsHandled /\ DelayIsCounted
  BY TypeParts DEF InterruptsInv
<1>2. Flags'
  BY <1>1, Zenon DEF Flags
<1>3. /\ pic' \in Pic /\ pic'.isr = pic.isr /\ pic'.offset = pic.offset
      /\ pic'.mask = pic.mask
  BY <1>1, Constants DEF Typed, Pic
<1>4. Typed'
  BY <1>1, <1>3 DEF Typed
<1>5. BootIsInOrder'
  BY <1>1, <1>3 DEF BootIsInOrder
<1>6. InServiceIsHandled' /\ DelayIsCounted'
  BY <1>1, <1>3 DEF InServiceIsHandled, DelayIsCounted, Since
<1> QED BY <1>2, <1>4, <1>5, <1>6, TypeParts, PTL DEF InterruptsInv

(* The CPU takes an interrupt: line 0 or 1, or the spurious vector. *)
LEMMA EnterInv ==
  ASSUME InterruptsInv, (\E n \in Lines : Deliver(n)) \/ Spurious PROVE InterruptsInv'
<1> USE DEF Enter, bootVars, delayVars
<1>1. Flags /\ Typed /\ BootIsInOrder /\ InServiceIsHandled /\ DelayIsCounted
  BY TypeParts DEF InterruptsInv
<1>2. /\ IF_flag /\ ~IF_flag' /\ cpu \in {"main", "halted"} /\ cpu' = "irq"
      /\ UNCHANGED <<gdt, idt, idt_loaded, irq_handlers, main, timer_ticks, start, ms, elapsed>>
  BY DEF Deliver, Spurious
<1>3. /\ main \in Running /\ pic.offset = 32 /\ Deliverable \subseteq {0, 1}
  BY <1>2, AfterSti
<1>4. Flags'
  BY <1>1, Zenon DEF Flags, Deliver, Spurious
<1> DEFINE EnteredPic ==
             /\ pic' \in Pic /\ pic'.offset = pic.offset /\ pic'.mask = pic.mask
             /\ \/ int_no' \in {32, 33} /\ pic'.isr = {int_no' - 32}
                \/ int_no' = 39 /\ pic'.isr = {}
<1>5. EnteredPic
  <2>1. pic \in Pic /\ pic.isr = {}
    BY <1>1, <1>2 DEF Typed, InServiceIsHandled
  <2>2. ASSUME NEW n \in Lines, Deliver(n) PROVE EnteredPic
    <3>1. n \in {0, 1} /\ int_no' = 32 + n
      BY <1>3, <2>2 DEF Deliver
    <3>2. {} \cup (IF n >= 8 THEN {2, n} ELSE {n}) = {n}
      BY <3>1
    <3>3. pic' = [pic EXCEPT !.irr = pic.irr \ {n}, !.isr = {n}]
      BY <2>1, <2>2, <3>2 DEF Deliver
    <3>4. {n} \in SUBSET (0 .. 15) /\ pic.irr \ {n} \in SUBSET (0 .. 15)
      BY <2>1, <3>1 DEF Pic
    <3>5. /\ pic' \in Pic /\ pic'.isr = {n} /\ pic'.offset = pic.offset
          /\ pic'.mask = pic.mask
      BY <2>1, <3>3, <3>4 DEF Pic
    <3> QED BY <3>1, <3>5
  <2>3. CASE Spurious
    BY <1>3, <2>1, <2>3 DEF Spurious
  <2> QED BY <2>2, <2>3
<1>6. Typed'
  BY <1>1, <1>2, <1>5 DEF Typed, Vectors
<1>7. BootIsInOrder'
  BY <1>1, <1>2, <1>3, <1>5 DEF BootIsInOrder, Running, BringUp, BeforeTimer, BeforeStubs
<1>8. InServiceIsHandled'
  BY <1>2, <1>5 DEF InServiceIsHandled
<1>9. DelayIsCounted'
  BY <1>1, <1>2 DEF DelayIsCounted, Since
<1> QED BY <1>4, <1>6, <1>7, <1>8, <1>9, TypeParts, PTL DEF InterruptsInv

(* timer_handler counts, modulo the width of the counter. *)
LEMMA CallHandlerInv == ASSUME InterruptsInv, CallHandler PROVE InterruptsInv'
<1> USE DEF CallHandler, bootVars
<1>1. Flags /\ Typed /\ BootIsInOrder /\ InServiceIsHandled /\ DelayIsCounted
  BY TypeParts DEF InterruptsInv
<1>2. Flags'
  BY <1>1, Zenon DEF Flags
<1>3. /\ timer_ticks' \in 0 .. TICKS - 1 /\ elapsed' \in 0 .. MaxElapsed
      /\ DelayIsCounted'
  <2>1. CASE UNCHANGED <<timer_ticks, elapsed>>
    BY <1>1, <2>1 DEF Typed, DelayIsCounted, Since
  <2>2. CASE CountTick
    <3>1. timer_ticks' = IF timer_ticks + 1 = TICKS THEN 0 ELSE timer_ticks + 1
      BY <1>1, <2>2, TickWraps DEF CountTick, Typed
    <3> QED BY <1>1, <2>2, <3>1, Constants DEF CountTick, Typed, DelayIsCounted, Since
  <2> QED BY <2>1, <2>2
<1>4. Typed'
  BY <1>1, <1>3 DEF Typed
<1>5. BootIsInOrder'
  BY <1>1 DEF BootIsInOrder
<1>6. InServiceIsHandled'
  BY <1>1 DEF InServiceIsHandled
<1> QED BY <1>2, <1>3, <1>4, <1>5, <1>6, TypeParts, PTL DEF InterruptsInv

(* The end-of-interrupt writes end exactly the interrupt in service; a     *)
(* spurious one has none and ends none.                                    *)
LEMMA SendEoiInv == ASSUME InterruptsInv, SendEoi PROVE InterruptsInv'
<1> USE DEF SendEoi, bootVars, delayVars
<1>1. Flags /\ Typed /\ BootIsInOrder /\ InServiceIsHandled /\ DelayIsCounted
  BY TypeParts DEF InterruptsInv
<1>2. Flags'
  BY <1>1, Zenon DEF Flags
<1>3. pic \in Pic /\ int_no \in {32, 33, 39} /\ (pic.isr = {} \/ \E n \in {0, 1} : pic.isr = {n})
  BY <1>1 DEF Typed, InServiceIsHandled
<1>4. EndOf({k \in pic.isr : k < 8}) = {} /\ {k \in pic.isr : k >= 8} = {}
  BY <1>3 DEF EndOf, First, Rank
<1>5. pic' = [pic EXCEPT !.isr = {}]
  BY <1>3, <1>4 DEF Pic
<1>6. pic' \in Pic /\ pic'.isr = {} /\ pic'.offset = pic.offset /\ pic'.mask = pic.mask
  <2>1. pic \in Pic
    BY <1>3
  <2>2. pic'.isr = {} /\ pic'.offset = pic.offset /\ pic'.mask = pic.mask
    BY <1>5, <2>1 DEF Pic
  <2>3. pic' \in Pic
    BY <1>5, <2>1 DEF Pic
  <2> QED BY <2>2, <2>3
<1>7. Typed'
  BY <1>1, <1>6 DEF Typed
<1>8. BootIsInOrder'
  BY <1>1, <1>6 DEF BootIsInOrder
<1>9. InServiceIsHandled' /\ DelayIsCounted'
  BY <1>1, <1>6 DEF InServiceIsHandled, DelayIsCounted, Since
<1> QED BY <1>2, <1>7, <1>8, <1>9, TypeParts, PTL DEF InterruptsInv

(* The steps that move only the CPU and the main thread. *)
LEMMA CpuInv ==
  ASSUME InterruptsInv,
         Iret \/ isr_handler \/ (\E v \in Faults : Fault(v)) \/ Compute \/ DelayCall
           \/ mp_hal_delay_ms
  PROVE  InterruptsInv'
<1> USE DEF bootVars, delayVars
<1>1. Flags /\ Typed /\ BootIsInOrder /\ InServiceIsHandled /\ DelayIsCounted
  BY TypeParts DEF InterruptsInv
<1>2. Flags'
  BY <1>1, Zenon DEF Flags, Iret, isr_handler, Fault, Compute, DelayCall, mp_hal_delay_ms,
     DelayTest, DelayHlt
<1>3. main \in Running
  <2>1. CASE Iret \/ isr_handler
    BY <2>1, AfterSti DEF Iret, isr_handler
  <2>2. CASE ~(Iret \/ isr_handler)
    BY <2>2 DEF Fault, Compute, DelayCall, mp_hal_delay_ms, DelayTest, DelayHlt, Running
  <2> QED BY <2>1, <2>2
<1>4. /\ UNCHANGED <<gdt, idt, idt_loaded, irq_handlers, pic, timer_ticks>>
      /\ cpu \notin {"irq", "eoi"} /\ cpu' \in {"main", "halted", "isr"}
      /\ main' \in Running /\ int_no' \in Vectors
  BY <1>1, <1>3, Constants DEF Iret, isr_handler, Fault, Compute, DelayCall, mp_hal_delay_ms,
     DelayTest, DelayHlt, Running, Typed, Vectors
<1>5. /\ start' \in 0 .. TICKS - 1 /\ ms' \in 0 .. TICKS - 1
      /\ elapsed' \in 0 .. MaxElapsed /\ DelayIsCounted'
  <2>1. CASE DelayCall
    BY <1>1, <2>1, Constants DEF DelayCall, Typed, DelayIsCounted, Since
  <2>2. CASE ~DelayCall
    <3>1. UNCHANGED <<start, ms, elapsed, timer_ticks>>
      BY <2>2 DEF Iret, isr_handler, Fault, Compute, mp_hal_delay_ms, DelayTest, DelayHlt
    <3> QED BY <1>1, <3>1 DEF Typed, DelayIsCounted, Since
  <2> QED BY <2>1, <2>2
<1>6. Typed'
  BY <1>1, <1>4, <1>5 DEF Typed
<1>7. BootIsInOrder'
  BY <1>1, <1>3, <1>4 DEF BootIsInOrder, Running, BringUp, BeforeTimer, BeforeStubs
<1>8. InServiceIsHandled'
  BY <1>1, <1>4 DEF InServiceIsHandled
<1> QED BY <1>2, <1>5, <1>6, <1>7, <1>8, TypeParts, PTL DEF InterruptsInv

LEMMA StepInv == InterruptsInv /\ [Next]_vars => InterruptsInv'
<1> SUFFICES ASSUME InterruptsInv, [Next]_vars PROVE InterruptsInv'
  OBVIOUS
<1>1. CASE Next
  BY <1>1, BootInv, RaiseInv, EnterInv, CallHandlerInv, SendEoiInv, CpuInv
  DEF Next, Cpu, irq_handler
<1>2. CASE UNCHANGED vars
  <2>1. Flags /\ Typed /\ BootIsInOrder /\ InServiceIsHandled /\ DelayIsCounted
    BY TypeParts DEF InterruptsInv
  <2>2. Flags'
    BY <1>2, <2>1, Zenon DEF vars, bootVars, Flags
  <2>3. (Typed /\ InServiceIsHandled /\ DelayIsCounted)'
    BY <1>2, <2>1 DEF vars, bootVars, delayVars, Typed, InServiceIsHandled, DelayIsCounted, Since
  <2>4. BootIsInOrder'
    BY <1>2, <2>1 DEF vars, bootVars, BootIsInOrder
  <2> QED BY <2>2, <2>3, <2>4, TypeParts, PTL DEF InterruptsInv
<1> QED BY <1>1, <1>2

(* Through bring-up, interrupts, faults and delays the kernel's tables,    *)
(* the PIC and the tick counter stay as the inductive invariant says.      *)
THEOREM InterruptsInvariant == Spec => []InterruptsInv
<1>1. Init => InterruptsInv
  BY InitInv
<1>2. InterruptsInv /\ [Next]_vars => InterruptsInv'
  BY StepInv
<1> QED BY <1>1, <1>2, PTL DEF Spec

(* kernel_main's order is right: no interrupt, not even one raised early   *)
(* or a spurious one, can come before its gate, its code selector and its  *)
(* handler are in place.                                                   *)
THEOREM ReadyBeforeSti == Spec => []InterruptsFindHandlers
<1>1. InterruptsInv => InterruptsFindHandlers
  <2> SUFFICES ASSUME InterruptsInv PROVE InterruptsFindHandlers
    OBVIOUS
  <2>1. CASE ~(IF_flag \/ cpu # "main")
    BY <2>1 DEF InterruptsFindHandlers
  <2>2. CASE IF_flag \/ cpu # "main"
    <3>1. gdt /\ idt_loaded
      BY <2>2, AfterSti
    <3>2. idt[pic.offset + 7] = "irq"
      BY <2>2, AfterSti
    <3>3. \A n \in Deliverable : idt[pic.offset + n] = "irq" /\ irq_handlers[n] # "none"
      BY <2>2, AfterSti
    <3>4. cpu = "irq" => idt[int_no] = "irq"
      BY <2>2, AfterSti DEF InterruptsInv, InServiceIsHandled
    <3> QED BY <3>1, <3>2, <3>3, <3>4 DEF InterruptsFindHandlers
  <2> QED BY <2>1, <2>2
<1> QED BY <1>1, InterruptsInvariant, PTL

(* irq_handler's end-of-interrupt writes leave nothing in service, also    *)
(* after a spurious interrupt.                                             *)
THEOREM EveryInterruptIsEnded == Spec => []NothingLeftInService
<1>1. InterruptsInv => NothingLeftInService
  <2> SUFFICES ASSUME InterruptsInv PROVE NothingLeftInService
    OBVIOUS
  <2>1. InServiceIsHandled
    BY DEF InterruptsInv
  <2>2. cpu \in {"irq", "eoi"} => Cardinality(pic.isr) <= 1
    <3>1. Cardinality({}) = 0 /\ Cardinality({int_no - 32}) = 1
      BY FS_EmptySet, FS_Singleton
    <3> QED BY <2>1, <3>1 DEF InServiceIsHandled
  <2> QED BY <2>1, <2>2 DEF NothingLeftInService, InServiceIsHandled
<1> QED BY <1>1, InterruptsInvariant, PTL

(* mp_hal_delay_ms returns only when at least ms ticks were counted since  *)
(* the call, whatever the width of timer_ticks and wherever it wraps.      *)
THEOREM DelayIsNeverEarly == Spec => DelayNotEarly
<1>1. InterruptsInv /\ [Next]_vars =>
        [main = "delay_test" /\ main' = "run" => elapsed >= ms]_vars
  <2> SUFFICES ASSUME InterruptsInv, Next, main = "delay_test", main' = "run"
               PROVE  elapsed >= ms
    OBVIOUS
  <2>1. DelayTest /\ DelayOver
    BY DEF Next, Cpu, kernel_main, gdt_install, IdtClear, pic_remap, IdtStubs, idt_load,
       timer_install, keyboard_install, Sti, Boot, irq_handler, CallHandler, SendEoi, Iret,
       isr_handler, Compute, DelayCall, mp_hal_delay_ms, DelayTest, DelayHlt, Raise,
       Deliver, Enter, Spurious, Fault
  <2>2. Typed /\ DelayIsCounted
    BY TypeParts DEF InterruptsInv
  <2>3. Since >= ms
    BY <2>1, <2>2, DelayOverMeans
  <2> QED BY <2>2, <2>3, Constants DEF DelayIsCounted, Typed, Since
<1> QED BY <1>1, InterruptsInvariant, PTL DEF Spec, DelayNotEarly
=============================================================================
