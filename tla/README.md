# Nexus OS in TLA+

Nexus OS is a small i686 kernel that boots through Multiboot, brings up a
console, a keyboard, a timer and a RAM disk, and then runs MicroPython: first
the script `nexus_ai.py` from the RAM disk, then a REPL. This directory models
the kernel's own code (about 1,700 lines of C, assembly and Python) and the two
parts of the MicroPython core that the kernel's behaviour hangs on: its heap
(`py/gc.c`, with the port's `gc_collect`) and the way exceptions unwind
(`py/nlr.c`, with the code that pushes on its chains). The rest of
`kernel/python/py`, and everything under `kernel/python/lib`, is third-party
code used unchanged; nothing under `lib` is compiled.

There is one CPU, one main thread and no scheduler. What makes the code hard is
the interrupt: every gate is an interrupt gate, so a handler is atomic, but it
can fall between any two instructions of the main thread, and the main thread
waits by `hlt`. In the MicroPython parts, where no interrupt handler reaches,
the difficulty is bookkeeping: positions that are remembered and go stale,
lists that live in stack frames, a marker whose stack is too small.

## Inventory

| Component | State | Operations | Talks to | What must hold |
|---|---|---|---|---|
| Kernel heap, `drivers/mem.c` | `heap_start`, `heap_end`, `current_addr` | `mem_initialize`, `kmalloc`, `kfree` | `kernel_main`; no other caller in this build | blocks inside the heap, apart, aligned |
| Keyboard driver, `drivers/keyboard.c` | ring `kbd_buffer` with head and tail, modifier flags, `ext_scancode` | `keyboard_handler` (IRQ1), `keyboard_getc`, `keyboard_has_data` | interrupts; read by `mp_hal_stdin_rx_chr` | first in, first out; no slot overwritten while read; no stuck modifier |
| Character input, `mp_hal_stdin_rx_chr` | none of its own | tests ring, tests UART, `hlt` | keyboard driver, UART, timer | returns when a character is there |
| Console, `drivers/vga.c` | row, column, colour, video memory, hardware cursor | `terminal_*` | everyone who prints | stores stay on the screen; scrolling loses nothing visible |
| Line editor, `nexus_readline` | `line`, `i`, `esc_state`, `h_ptr`; history ring shared by all callers | one character at a time | character input, console; REPL and `input()` | screen equals buffer; history in order; line terminated |
| Interrupts, `drivers/idt.c`, `boot.s` | IDT, PIC, `irq_handlers`, `timer_ticks` | `idt_install`, `pic_remap`, `irq_handler`, `isr_handler`, `timer_handler` | devices, drivers | ready before `sti`; every interrupt ended |
| Delay, `mphalport.h` | `start` | `mp_hal_delay_ms` | timer | not early, not for ever |
| RAM disk, `initrd.c`, `tools/mkinitrd.py` | image, `initrd_base`, `n_files` | pack, `initrd_init`, `initrd_get_file` | boot loader, `start_nexus_python` | a packed file is found with its exact contents |
| Boot, `kernel.c`, `gdt.c`, `boot.s` | none kept | `kernel_main` | all of the above | order of the steps |
| REPL and script, `start_nexus_python`, `nexus_ai.py` | its `nlr_buf`, `exec_buf` | run script, read and run lines, print exceptions | line editor, MicroPython | an error returns to a prompt with `__main__`'s globals, empty chains and no open lexer; no line moves the next line's locals |
| Non-local return, `py/nlr.c`, `nlr.h`, `nlrx86.c` | chains `nlr_top`, `nlr_jump_callback_top` of nodes on the C stack | `nlr_push`, `nlr_pop`, `nlr_jump`, callbacks | interpreter, parser, `exec`, REPL | only live frames are on the chains; globals and lexers come back |
| Python heap, `py/gc.c`, `py/malloc.c` | allocation table, pool, first free index, last used block, mark stack | `gc_alloc`, `gc_free`, `gc_realloc`, mark, sweep | virtual machine | chains whole; exactly the unreachable objects go |
| GC hook, `gc_collect` | none | scan the stack, collect | `py/gc.c` | every live pointer is seen |
| `libc.c` | none | copies, comparisons | everyone | as in C |

Hard behaviours: interrupts between a test and the `hlt` that follows it;
interrupts inside `keyboard_getc`; a full ring; a full line; wrap-around of the
tick counter and of addresses; device lines raised during bring-up; spurious
interrupts; a mark stack that overflows during marking and again during the
rescan; a collection in the middle of `gc_realloc`; an exception that crosses
calls into other modules, `exec` with other dictionaries, classes and a
half-done parse; an exception raised while one is printed, or out of a class body. `PROJECT.json` lists each at its line under `hazards`.

## Modules

| Module | Models | Checked by | Proofs |
|---|---|---|---|
| `Mem` | heap | `MCBoot`, `MCMem` | `BootProofs` |
| `KbdLayout`, `Keyboard` | layout tables, keyboard driver | `MCKeyboard` | `InputProofs` |
| `KbdFifo` | what the driver promises: a bounded lossy queue | as a property of `Keyboard` | `InputProofs` |
| `Stdin` (extends `Keyboard`) | character input over keyboard, UART, timer | `MCStdin` | `InputProofs` |
| `Vga` | the functions of `vga.c` as operators | through its users | `VgaProofs` |
| `Terminal` (extends `Vga`) | the console as a state machine | `MCTerminal` | `TerminalProofs` |
| `Readline` (extends `Vga`) | line editor, callers, history, echo | `MCReadline` | `ReadlineProofs` |
| `Interrupts` | bring-up, PIC, handlers, timer, delay | `MCInterrupts` | `InterruptsProofs` |
| `Initrd` | packer and reader of the RAM disk | `MCBoot` | `BootProofs` |
| `Gc` | MicroPython's heap and collector | `MCGc` | `GcProofs` |
| `ObjectHeap` | what the virtual machine may expect of a heap | as a property of `Gc` | `GcProofs` |
| `Repl` | script, prompt, exceptions, calls, `exec`, parser | `MCRepl` | `ReplProofs` |

Each MC module only gives constants their values. Operators with an underscore
suffix and a comment "Mutant:" are deliberately wrong variants of the
definition that follows them; substituted for it, they must violate the
property that `PROJECT.json` pairs them with.

### Mem
The three statics are variables; all sums are taken modulo `WORD`, the
comparison in `kmalloc` (`DoesNotFit`) included. `blocks` records what has been
handed out. A NULL result changes nothing. `MCBoot` composes the heap with the
RAM disk, the two things `kernel_main` sets up in memory.

### Keyboard and KbdFifo
`keyboard_handler` is one atomic action that reads the oldest scancode of the
controller and goes through the branches of the code in order: E0 prefix,
extended key, release, modifier, character. `keyboard_getc` is a step per
access to shared state. The indices are volatile and the buffer is not, so the
compiler may move the read of the slot after the store to the tail: `GetcRead;
GetcAdvance` and `GetcAdvanceEarly; GetcReadLate` are both possible. Keys and
controller are the environment: any key may be pressed, repeated or released at
any time. `RingIsFifo` maps the ring to the queue of `KbdFifo`: the contents
from tail to head, and the character returned, which counts as read when the
tail moves.

### Stdin
A step per test (ring, UART) and one for `hlt`; `halted` is left only by an
interrupt. The UART raises none. `DriverUsedAsAssumed` is the specification of
`Keyboard`: the input path is one of its users.

### Vga and Terminal
The console is a record; each function of `vga.c` is an operator on it.
`stray` is set by a store outside the cells. `Terminal` calls the functions in
any order and also writes on an endless roll of paper, the reference the screen
is compared with.

### Readline
One action per character: the loop body for that character, the loop test, and
the copy into the history when the loop ends. `line` is an uninitialised stack
array; only its last byte is ever read before it is written, so one byte of
`Garbage` fills it. The REPL's array lives as long as the REPL (`repl_byte`),
`input()` has a new one in each call. Reading past an array is the state
`undefined`, where the model stops: a full line, or a history row that was one,
may have no NUL. `OverrunNeedsFullLine` says that nothing else leads there.

### Interrupts
`kernel_main`'s calls are steps in their order; device lines may be raised from
the start. The pair of PICs (request, mask, in-service, priority, EOI) is
external and modelled from how `pic_remap` and `irq_handler` use it. The
keyboard handler's own effect is in `Keyboard`. An exception prints and
returns. A spurious interrupt of the master may come whenever the interrupt flag
is on, before the REPL, in it and during a delay. `ran` states that at least one main-thread step fits between two timer
interrupts: a tick is a millisecond.

### Initrd
The image is a sequence of bytes in the layout of `mkinitrd.py`: count, headers
of name and size, data; numbers are four bytes, low byte first. The packer's
conversion of line ends is modelled (CR LF to LF, a final newline added), so is
the cut of names, after which two files may have the same name or a long name
may have become another file's: the kernel then finds the first of them.
`initrd_get_file` is an action per turn of its loop over byte
addresses, with the comparison loop of `strncmp`.

### Gc and ObjectHeap
The configuration is the port's (`mpconfigport.h`, ROM level minimum): one area,
no finalisers, no threads, no threshold, `MICROPY_PY_GC` off, memory cleared
when handed out (`MICROPY_GC_CONSERVATIVE_CLEAR`), 4 words to a block, a mark
stack of 64. The table has one entry per block and one more, the gap byte that
the loops over a chain may read. A word of the pool or of a root is the block
it points to, or `NoPtr`; pointers into the middle of an object are words like
any other. `gc_alloc`, `gc_free` and `gc_realloc` are one action each unless
they collect: then `req` is the pending allocation, with the length `gc_realloc`
has counted and will copy, and `pc` walks through
`gc_collect_start`, the roots, `gc_mark_subtree` (a step per word), the rescan
after an overflow and the sweep (a step per block) to the second search. The
frame of `gc_realloc`, which holds the old pointer across all this, is the root
word `FRAME`. Root words hold anything, which covers what the compiler leaves
in registers and on the stack. `HeapSpec` maps the table to the objects of
`ObjectHeap`; the objects vanish in one step, when the sweep starts.

Assumed: live pointers are in a register or on the stack when `gc_collect`
runs; no request is within 15 bytes of 4 GiB (the rounding in `gc_alloc` would
wrap); `gc_free` and `gc_realloc` get the head of an object, as their own
assertions say. `gc_info`, `gc_nbytes` and the dumps only read and are left
out; the lock is never taken but by the collection.

### Repl
`cs` is the C stack, reduced to the activations that push on a chain, change
the context or check the stack; an address is a position in it. An activation
holds where it is, the dictionary it runs in and the context it saved. What
Python code does is left open: it may call, `eval` or `exec`, return or raise
at any point, and every call crosses into any module. `mp_builtin___build_class__`
is an activation that pushes on neither chain: it sets the locals to the class's
dictionary and gives the old ones back only if the body returns. `nlr_jump` cuts
the stack to the latest `nlr_buf` and runs the callbacks registered above it,
which is one action because nothing of it can raise. `nlr_jump_fail` is the
state `fatal`.
The depth that `MP_STACK_CHECK` measures in bytes (50000 of the 64 KiB stack) is
counted in activations.

When `mp_lexer_new` raises, that is a `Raise` of its caller; the half-built
lexer belongs to no one, and only a collection takes it back. `lexers` counts
those that were handed out. An uncaught exception is printed through its
`__repr__`, which may be Python code. Other C functions that push an `nlr_buf`
(`runtime.c:1245`, `runtime.c:1381`, `objgetitemiter.c:41`) are abstracted as
calls that handle their exception.

## Runs

| Run | Bounds | Shows |
|---|---|---|
| `boot` | 64-byte address space, 14-byte heap, sizes 0, 2, 7, 15; two files, names of 1 to 4 bytes in a 3-byte field, contents with and without CR LF and final newline; 706,000 states | `MemInv`: heap exhausted, padding past the end, zero sizes, blocks inside the heap, aligned and apart; `GetsThePackedFile`, `WalkStaysInImage`, `LongNamesAreNotFound` |
| `heap_wrap` (violation) | every size of a word | `BlocksInHeap` is violated: the out-of-memory test wraps |
| `keyboard` | ring of 2, seven keys, 2 pending scancodes | `NoStuckModifier`, `EveryCharacterTypeable` |
| `stdin` | ring of 4, an arrow key (three characters a press), 2 pending, UART of 1 | `StdinTypeOK`, `GetcInv`, `RingIsFifo`, `DriverUsedAsAssumed`: full ring, cut sequences, both indices wrap; liveness: `InputEndsTheWait`, `SerialServedWhenKeysStop` |
| `terminal` | 5 x 2 screen, letter, tab, newline, return, backspace, two colours, 2 lines beyond the first | `InsideScreen`, `ScreenShowsPaper`, `BackspaceUndoesPrint` |
| `readline` | lines of 2 characters and a NUL, 2 history rows, 3 x 2 screen, 3 lines read | `EditInv`, `EchoMatchesLine`, `HistoryIsRecent`, `OnlyFullLinesUnterminated` |
| `readline_full` (violation) | the same | a full line has no NUL |
| `interrupts` | lines 0, 1, 4, 9, one exception, delays 0 and 2, tick counter modulo 4 | `InterruptsInv`, `InterruptsFindHandlers`, `NothingLeftInService`, `DelayNotEarly`, `KeyInterruptServed`, `DelayEnds` |
| `gc_heap` | 2 table bytes of 2 blocks, 1 word a block, a mark stack of 1, the program stores a pointer to block 2 or none; 597,000 states | `GcInv`, `MarkInv`, `ChainsAreWhole`, `NoFreeBlockBeforeIndex`, `SweepCoversHeap`, and `HeapSpec`, the refinement of `ObjectHeap`, over every order of calls and collections |
| `gc_collect` | 6 blocks of 2 words, a mark stack of 1; starts: every table and every pointer graph on 4 blocks, and all 720 layouts of a tree that overflows the stack twice; 273,000 states | one collection from each: `MarksAreTraced`, `CollectionIsExact`, and it ends (`CollectionEnds`) |
| `repl` | `__main__` and one other dictionary, 9 activations of which the check admits 7; 207,000 states | `ChainsMatchStack`, `RunsInItsOwnGlobals`, `PromptIsClean`, `OnlyPrintingIsFatal`, `StackIsBounded`, `LinesKeepTheLocals` |
| `repl_locals` (violation) | the same, 6 admitted | `LinesAssignInMain` is violated: a line that catches an exception from a class body goes on with the class's locals |

Why the bounds are enough to be interesting: in each the limits are reached and
passed. The ring fills and both indices wrap several times; the heap is
exhausted with and without padding; the screen wraps, tabs past its end,
scrolls and is backspaced to its first cell; the line fills, the history
overwrites its oldest row, and recall walks through empty and full rows; the
tick counter wraps during a delay; two files have the same name, a long
name becomes the one of another file or of another long name; the Python heap is full, fragmented and
grown up to its last block, and its mark stack overflows in the rescan too; the
stack holds calls above `exec` above calls, with a parser on top, at its limit.
The sizes of the real system (ring 256,
screen 80 x 25, line 256, mark stack 64, call depth) are covered by the proofs
where there are any.
Symmetry is not used: the values are characters and numbers whose order matters.

Deadlock checking is off where the modelled program really stops: the heap
is used up (`heap_wrap`) and nobody looks for another file (`boot`),
`undefined` or the bound on lines read (`readline`), the loop of `nlr_jump_fail`
(`repl`, `repl_locals`), and the end of the one collection looked at
(`gc_collect`).

## Fairness

`Stdin`, `Interrupts` and `Gc` state liveness.

* A CPU that is not halted executes its next instruction: weak fairness of the
  main thread's steps in `Stdin`, of `kernel_main`, `irq_handler` and
  `isr_handler` in `Interrupts`.
* The timer is programmed for 1000 Hz and unmasked: weak fairness of `TimerIrq`
  and of raising line 0.
* A pending, unmasked request is put through: weak fairness of `KeyboardIrq` in
  `Stdin`, where it stays enabled; strong fairness of delivery in `Interrupts`,
  because interrupts go off and on again around other handlers, faults and
  spurious interrupts. The strong fairness of the delay's own steps says that
  interrupts do not consume every moment.
* The collector runs in the only thread and waits for nothing: weak fairness of
  `Collector` in `Gc`.
* Nothing is assumed of the user or of the far end of the serial line.

Without the timer `InputEndsTheWait` fails, which its mutant shows: the timer is
what makes the unprotected test-then-`hlt` correct.

## Proofs

All for every value of the constants, under the named assumptions of the
modules; TLC evaluates these in every run.

* `BootProofs!MemInvariant`: if no request can wrap (`RequestsDoNotWrap`),
  `[]MemInv`. Inductive because it keeps all blocks below `current_addr`, which
  is aligned and at most three bytes above `heap_end`.
  `KmallocBlocksAreSeparate` follows. `heap_wrap` shows that the hypothesis is
  needed.
* `BootProofs!LookupInvariant`: `[]LookupInv`, for any number of files of any
  size (`struct.pack` takes none of 4 GiB), any nonempty names of 7-bit
  characters and any field length above one. The walk of
  `initrd_get_file` adds up numbers it reads from the image; the invariant says
  that at turn i it stands at header i and at the end of the data of the files
  before it, and that none of these has the name. What the packer wrote where is
  the lemma `ImageLayout`: the n-th header and the n-th data start where the
  lengths of everything before them add up to. From it `WalkIsInside`,
  `LongNamesStayHidden` (`LongNameDiffers`: every packed name has a NUL
  within the field, where a name that is too long still has a character) and
  `PackedFilesAreFound`: the file returned is the first whose name was cut to
  the one asked for, for every image, those with cut names included.
* `InputProofs!GetcInvariant`: `[]GetcInv`, for every ring size above one and
  every layout. `RingIsFifo` alone is not inductive: in the middle of
  `keyboard_getc` one must know that the loaded slot is still the tail's (or,
  in the other order, the one just before the tail, which is exactly the slot
  the full test keeps free) and still holds the character.
* `InputProofs!KeyboardImplementsFifo`: `Spec => Fifo!Spec`. The lemmas say
  what one put and one get do to the contents (`PushContents`, `PopContents`),
  that a burst puts the prefix that fits (`PutsAccepted`), and that each branch
  of the handler is one burst or none (`DecodeStep`).
* `InputProofs!DecoderInvariant`, `ModifiersNeverStick`: a modifier the driver
  holds down is down on the keyboard or its release is queued. To carry this
  over the queue one needs that an E0 and the byte it prefixes stay neighbours
  (`PrefixesPair`, also across the driver's own `ext_scancode`) and that after a
  press in the queue its release follows (`ReleaseFollows`). For any set of keys
  and any backlog. The assumption on keys says that no key has code 96, whose
  release would be an E0; scancode set 1 has none.
* `InputProofs!EveryCharacterStaysTypeable`, `StdinEveryCharacterTypeable`: with
  the two tables of `keyboard.c` (`UsLayout`, the one hypothesis, which
  `UsLayoutIsLayout` shows to be a layout the driver's assumption admits), any
  set of keys and any backlog. What is left behind by the keys is caps lock, and
  ctrl only while it is held (from `ModifiersNeverStick`); under either state of
  caps lock a letter and its capital are on the letter's key (`LetterHasKey`)
  and any other character on a key that is no letter's, so that caps lock does
  not touch it (`OtherHasKey`).
* `InputProofs!StdinImplementsKeyboard`, `StdinReadsFifo`,
  `StdinModifiersNeverStick`: the input path's steps are steps of `Keyboard` or
  leave it alone, so all this holds of it. `ReturnsASignedChar`: its results.
* `TerminalProofs!ConsoleStaysOnScreen`: `[]InsideScreen` for every screen size
  and every order of calls. Within `terminal_putchar` the row may be one too
  large; the lemmas of `VgaProofs` follow the branches with that weaker type,
  and `ScrollBack` restores the row. `IndexOnScreen` is the index arithmetic.
* `TerminalProofs!RollInvariant`, `ScreenIsWindow`: the screen is the window on
  the endless roll that ends at its last row. Inductive with the fact that the
  roll is blank beyond that row, or a scroll would show a line the screen clears.
  `ErasingUndoesPrinting`: a backspace restores cells and cursor after any
  printed character, over a line wrap and over a scroll. It needs a screen of at
  least two rows: on one row the wrap scrolls away the line the backspace would
  return to.
* `ReadlineProofs!EditInvariant`: `[]EditInv`, for every line length, history
  size, screen, prompt, input and stack garbage: `line` holds characters that
  were typed up to `i`, `i` leaves room for the NUL while a line is read, and
  the ring is the latest lines read. The editor's own stores stay inside its
  arrays. Its copies are another matter: a history row is printable up to a NUL
  or up to its last byte, which the editor never stores and which need not be a
  NUL. `OverrunNeedsFullLine` says that a copy runs past an array only if a line
  that the history still holds filled its array and found no NUL there. It is
  inductive with `UnusedRowsTerminated` (rows not yet used are empty) and
  `Remembered` (the line returned is the history's latest).
  `HistoryKeepsTheLatest` and `EnteredLinesAreStrings` follow.
* `ReadlineProofs!EditedLineIsShown`, `EchoIsTheLine`: the screen shows the
  prompt and the edited line and nothing after the cursor. The proof reads the
  cells row by row as one line, on which every printed character moves one cell
  on and every erased one moves back, over wraps and scrolls alike. Two
  hypotheses, both satisfied by the run:
  `LineFitsScreen`, prompt and longest line fit above the last row (the REPL's
  do, with 255 characters on 80 x 25; a prompt given to `input()` may be longer, and scrolls out), and, for the blank rest of
  the screen, `OutputHasNoCR`, no program has printed a bare carriage return,
  which puts the prompt over old text.
* `InterruptsProofs!InterruptsInvariant`: `[]InterruptsInv`, for every set of
  device lines, faults and delays and every width of the tick counter.
  `BootIsInOrder` ties each step of the bring-up to what is installed and masked
  by then, which makes `InterruptsFindHandlers` (`ReadyBeforeSti`) inductive;
  `InServiceIsHandled` says that nothing but the interrupt being handled is
  ever in service, and nothing at all outside a handler, so that
  `NothingLeftInService` (`EveryInterruptIsEnded`) survives spurious interrupts;
  `DelayIsCounted` says that the difference the delay computes with wrap-around
  never exceeds the ticks that have passed, so `DelayIsNeverEarly`.
* `GcProofs!GcInvariant`: `[]GcInv`, for every size of table, block and mark
  stack, and any initial contents of pool and roots. It is inductive together
  with `MarkInv` (`BothInvariant`): that `gc_realloc` copies no more than the old
  chain holds rests on `FrameKeepsLength`, that the length counted before the
  collection is still the chain's after it. `ChainsAreWhole` speaks of
  the moments when the virtual machine runs; to carry it through a collection
  one must know what the sweep has done so far (`SweptSoFar`: behind the cursor
  no mark is left and everything in use is counted), that a tail is without its
  head only at the cursor and only if `free_tail` says so (`TailsFollow`), that
  nothing ever writes the gap byte (`GapIsFree`), and that the old chain of a
  `gc_realloc` is marked from the moment its frame is scanned until the sweep
  has passed it (`FrameIsKept`), for otherwise the copy after the collection
  would read freed blocks. `TableIsWhole`, `IndexHidesNoFreeBlock` and
  `SweepReachesAll` follow.
* `GcProofs!MarkInvariant`: `[]MarkInv`, for every pointer graph and every depth
  of the mark stack. A marked chain has all its pointers marked, or it is on the
  stack, or it is the one being read, beyond the word reached, or the overflow
  flag is set (`MarksAreTraced`, `NoMarkIsLost`); the stack and the chain being
  read are marked heads; every root already scanned is marked; and only what
  the roots reach is marked (`MarksAreReachable`).
* `GcProofs!CollectionDropsGarbage`, `GcImplementsObjectHeap`: `Spec => HeapSpec`
  step by step. Where the sweep starts, `MarkInv` says that the marks contain the
  roots, are closed under pointers and are reachable, hence are exactly the
  reachable objects; `GcInv` gives the other steps, among them that the sweep
  itself changes no object of the abstract heap and that `gc_realloc` copies
  from a chain the collection in its middle has kept.
* `ReplProofs!ReplInvariant`: `[]ReplInv`, for every stack limit and set of
  dictionaries. The properties say little about the middle of the stack, but a
  return or an exception brings any of it to the top. `StackIsNested` says who
  can have called whom, where the caller waits meanwhile, and that the callee
  saved the caller's globals. From it follows the central lemma, `Catcher`: the
  latest `nlr_buf` is at most two activations below the top (a parser under an
  `exec` under a call, or a call that raises under a class under a call), so
  `nlr_jump` has at most one context to restore and one lexer to free.
  `LexersAreCounted` gives the prompt its lexers, `RoomIsLeft` bounds each kind
  of activation by the last check below it. `ChainsFollowStack`, `OwnGlobals`,
  `EveryPromptIsClean`, `PrintingAloneIsFatal` and `StackStaysBounded` follow.
  The chains are described by `Lists(s, S)`, "s lists S in ascending order",
  with a lemma each for appending, popping and cutting.
* `ReplProofs!LinesDoNotMoveTheLocals`: nothing is invariant about the locals, for
  a class body that raises leaves its own in place. But while a line runs, its
  `exec` is the second activation and holds the locals it found; they come back
  when it returns, and when an exception goes to the REPL's own `nlr_buf`, by
  its callback, the earliest on the chain (`nlr_jump` restores what the earliest
  saved). So the locals the next line will start with change in no step of a
  line. The printing of an exception has no `exec` below it, and there they can.

Induction over numbers is done by the least-number argument (`LeastNumber` in
`BootProofs` and `GcProofs` and its like, from the well-foundedness of `<`), as
the library's induction theorems take an operator the provers cannot
instantiate.

Only model-checked: all liveness (`InputEndsTheWait`, `SerialServedWhenKeysStop`,
`KeyInterruptServed`, `DelayEnds`, `CollectionEnds`), since fairness and ENABLED
are out of the prover's reach. Every other property of a passing run is a
theorem.

## Findings

1. `kmalloc` (`kernel/drivers/mem.c:14`) compares `current_addr + size` in 32
   bits. A size that wraps is granted instead of refused as "Out of memory".
   Nothing calls `kmalloc` in this build. Run `heap_wrap`.
2. `nexus_readline` (`kernel/python/nexus_hal.c:100`) ends a line that reaches
   `max_len - 1` characters without storing a NUL. Its callers copy up to the
   NUL. Run `readline_full`; `OnlyFullLinesUnterminated` shows that this is the
   only way to get such a line.
3. `mp_builtin___build_class__` (`kernel/python/py/modbuiltins.c:61`) restores
   the locals only after the class body has returned; there is no `nlr_buf` and
   no callback. A line that catches an exception from a class body goes on
   assigning in the dictionary of the abandoned class. Run `repl_locals`.
   `LinesKeepTheLocals` shows that the end of the line mends it, unless the class
   was defined by the `__repr__` of an exception that the prompt was printing:
   then the class's dictionary stays for the lines that follow.

## Not modelled

* The rest of MicroPython: lexer, grammar, compiler, opcodes, object types,
  `py/map.c`. They are third-party algorithms without a connection to this
  kernel, and a faithful model of any of them is a project of its own. The
  vendored libraries (littlefs, oofatfs, CMSIS, mbedtls and others) make up most
  of the repository's lines and are not part of the kernel image.
* The recursion of the compiler over the parse tree, which has no
  `MP_STACK_CHECK`: its depth depends on the text of a program.
* The command dispatcher in `nexus_ai.py`, a Python program without state.
* The place of the boot module in memory (`kernel.c:93`) and the vectors
  without a stub (`idt.c:55`): both depend on the loader and the linked image. A
  fault that repeats for ever (`idt.c:124`): there is no recovery to state a
  property of.
* The copying and comparing loops of `libc.c`, other than `strncmp`; the banner
  and the serial log (output only); the busy wait for the UART's transmitter;
  the build files; `irq_uninstall_handler` and `mp_hal_ticks_ms`, which have no
  caller.

## Plan

Done: the modules above, and a theorem for each safety property, action property
and refinement of their runs. Left:

1. `Faults`: `isr_handler` printing in the middle of `terminal_putchar`, over
   `Vga` split at its stores, with `ConsoleStaysOnScreen` for it.
2. The loops of `libc.c` (`strcmp`, `memmove`, `memcpy`) against their
   definitions in C.
