------------------------------- MODULE Stdin -------------------------------
(***************************************************************************)
(* Where characters come from: mp_hal_stdin_rx_chr of                      *)
(* kernel/python/nexus_hal.c, over the keyboard driver, the polled serial  *)
(* port of kernel/kernel.c and the timer interrupt of kernel/drivers/idt.c *)
(*                                                                         *)
(* The main thread tests the keyboard ring, then the serial port, then     *)
(* executes hlt, and interrupts can fall between any two of these.  A key  *)
(* that arrives after the test and before the hlt does not prevent the     *)
(* hlt: the CPU sleeps with a character waiting until the next interrupt.  *)
(* The serial port raises no interrupt at all (init_serial writes 0 to its *)
(* interrupt enable register).  Only the 1 kHz timer bounds both waits.    *)
(***************************************************************************)
EXTENDS Keyboard

CONSTANTS
  SerialChars,   \* the bytes that may arrive on COM1
  UART_FIFO,     \* bytes the UART holds (16)
  TICKS          \* number of values of timer_ticks (2^32)

ASSUME StdinAssumption ==
  /\ SerialChars \subseteq Byte
  /\ UART_FIFO \in Nat
  /\ TICKS \in Nat \ {0}

VARIABLES
  rx,          \* where the main thread is in mp_hal_stdin_rx_chr
  rx_ret,      \* the int the last call returned
  serial_rx,   \* the UART's receive FIFO, oldest first
  timer_ticks

devVars == <<serial_rx, timer_ticks>>
stdinVars == <<vars, rx, rx_ret, devVars>>

kbdVars == <<ringVars, modVars, ext_scancode, envVars>>

-----------------------------------------------------------------------------
(* mp_hal_stdin_rx_chr, one step per test of shared or device state. *)

RxCall ==
  /\ rx = "idle"
  /\ rx' = "kbd_test"
  /\ UNCHANGED <<vars, rx_ret, devVars>>

(* Mutant: keyboard_getc is called without asking keyboard_has_data. *)
RxKbdTest_Unasked ==
  /\ rx = "kbd_test"
  /\ pc' = "getc" /\ rx' = "kbd_getc"
  /\ UNCHANGED <<kbdVars, kbd_buffer_tail, slot, c, ret, rx_ret, devVars>>

RxKbdTest ==
  /\ rx = "kbd_test"
  /\ \/ /\ CallGetc
        /\ rx' = "kbd_getc"
     \/ /\ ~keyboard_has_data
        /\ rx' = "serial_test"
        /\ UNCHANGED vars
  /\ UNCHANGED <<rx_ret, devVars>>

RxKbdGetc ==
  /\ rx = "kbd_getc"
  /\ \/ /\ keyboard_getc
        /\ UNCHANGED <<rx, rx_ret>>
     \/ /\ pc = "caller"               \* keyboard_getc has returned
        /\ rx' = "idle" /\ rx_ret' = ret
        /\ UNCHANGED vars
  /\ UNCHANGED devVars

serial_has_data == serial_rx # << >>

(* Mutant: the serial port is never polled. *)
RxSerialTest_NotPolled ==
  /\ rx = "serial_test"
  /\ rx' = "hlt"
  /\ UNCHANGED <<vars, rx_ret, devVars>>

RxSerialTest ==
  /\ rx = "serial_test"
  /\ rx' = IF serial_has_data THEN "serial_getc" ELSE "hlt"
  /\ UNCHANGED <<vars, rx_ret, devVars>>

CR == 13
LF == 10

(* Mutant: serial_getc returns an unsigned char. *)
SerialResult_Unsigned(b) == IF b = CR THEN LF ELSE b

(* serial_getc returns a char, which is signed. *)
SerialResult(b) == IF b = CR THEN LF ELSE IF b < 128 THEN b ELSE b - 256

RxSerialGetc ==
  /\ rx = "serial_getc" /\ serial_has_data
  /\ rx_ret' = SerialResult(Head(serial_rx))
  /\ serial_rx' = Tail(serial_rx)
  /\ rx' = "idle"
  /\ UNCHANGED <<vars, timer_ticks>>

RxHlt ==
  /\ rx = "hlt"
  /\ rx' = "halted"
  /\ UNCHANGED <<vars, rx_ret, devVars>>

mp_hal_stdin_rx_chr ==
  RxKbdTest \/ RxKbdGetc \/ RxSerialTest \/ RxSerialGetc \/ RxHlt

-----------------------------------------------------------------------------
(* Interrupts, and the far end of the serial line. *)

(* hlt ends with the handler's iret; the loop starts over. *)
Resume == rx' = IF rx = "halted" THEN "kbd_test" ELSE rx

KeyboardIrq ==
  /\ keyboard_handler
  /\ Resume
  /\ UNCHANGED <<rx_ret, devVars>>

(* Mutant: pic_remap masks IRQ0 as well (0xFD), no timer interrupt comes. *)
TimerIrq_Masked == FALSE /\ UNCHANGED stdinVars

TimerIrq ==
  /\ timer_ticks' = (timer_ticks + 1) % TICKS
  /\ Resume
  /\ UNCHANGED <<vars, rx_ret, serial_rx>>

SerialArrives ==
  \E b \in SerialChars :
    /\ Len(serial_rx) < UART_FIFO
    /\ serial_rx' = Append(serial_rx, b)
    /\ UNCHANGED <<vars, rx, rx_ret, timer_ticks>>

StdinInit ==
  /\ Init
  /\ rx = "idle" /\ rx_ret = 0
  /\ serial_rx = << >> /\ timer_ticks = 0

StdinNext ==
  \/ RxCall
  \/ mp_hal_stdin_rx_chr
  \/ KeyboardIrq
  \/ TimerIrq
  \/ SerialArrives
  \/ User /\ UNCHANGED <<rx, rx_ret, devVars>>

(***************************************************************************)
(* Fairness.  The CPU runs when it is not halted, and the readers call     *)
(* again (nexus_readline loops until a newline).  The timer is programmed  *)
(* for 1000 Hz and unmasked.  A scancode in the controller keeps IRQ1      *)
(* raised until it is read.  Nothing makes the user type or the serial     *)
(* line send.                                                              *)
(***************************************************************************)
StdinSpec ==
  /\ StdinInit /\ [][StdinNext]_stdinVars
  /\ WF_stdinVars(RxCall \/ mp_hal_stdin_rx_chr)
  /\ WF_stdinVars(TimerIrq)
  /\ WF_stdinVars(KeyboardIrq)

-----------------------------------------------------------------------------
StdinTypeOK ==
  /\ TypeOK
  /\ rx \in {"idle", "kbd_test", "kbd_getc", "serial_test", "serial_getc",
             "hlt", "halted"}
  /\ rx_ret \in -128 .. 127
  /\ serial_rx \in Seq(SerialChars) /\ Len(serial_rx) <= UART_FIFO
  /\ timer_ticks \in 0 .. TICKS - 1

(***************************************************************************)
(* mp_hal_stdin_rx_chr uses the driver the way Keyboard assumes: it enters *)
(* keyboard_getc only when a character is there, and moves the tail only   *)
(* through it.  What holds of Keyboard therefore holds here.               *)
(***************************************************************************)
DriverUsedAsAssumed == Spec

(***************************************************************************)
(* A wait ends: whenever a call is in progress and a character is in the   *)
(* ring or in the UART, the call returns, even if the character came       *)
(* between the tests and the hlt and nothing more is ever typed.           *)
(***************************************************************************)
InputEndsTheWait ==
  (rx # "idle" /\ (keyboard_has_data \/ serial_has_data)) ~> (rx = "idle")

(***************************************************************************)
(* The keyboard has priority, but serial input waits for ever only while   *)
(* keys keep coming.                                                       *)
(***************************************************************************)
SerialServedWhenKeysStop ==
  <>[](~keyboard_has_data) => []<>(rx = "serial_getc" \/ ~serial_has_data)
=============================================================================
