-------------------------------- MODULE Mem --------------------------------
(***************************************************************************)
(* The kernel heap of kernel/drivers/mem.c: a bump allocator over one      *)
(* region.  kmalloc moves current_addr up and never comes back; kfree does *)
(* nothing.  Addresses and sizes are unsigned machine words, so every sum  *)
(* is taken modulo WORD (2^32 in the kernel), the test against heap_end    *)
(* included: that is where a request can wrap.                             *)
(***************************************************************************)
EXTENDS Integers

CONSTANTS
  WORD,        \* number of values of a uint32_t / size_t
  HEAP_START,  \* 0x200000 in kernel_main
  HEAP_SIZE,   \* 4 MiB in kernel_main
  Requests     \* the sizes callers ask kmalloc for

VARIABLES
  heap_start, heap_end, current_addr,  \* the three statics of mem.c
  blocks       \* history: every [ptr, size] kmalloc has handed out

memVars == <<heap_start, heap_end, current_addr, blocks>>

Addr == 0 .. WORD - 1

(***************************************************************************)
(* The region kernel_main passes is a region of the address space, it      *)
(* does not touch address 0, and it starts on a 4-byte boundary.           *)
(***************************************************************************)
ASSUME MemAssumption ==
  /\ WORD \in Nat
  /\ HEAP_START \in Nat \ {0} /\ HEAP_START % 4 = 0
  /\ HEAP_SIZE \in Nat
  /\ HEAP_START + HEAP_SIZE + 4 <= WORD
  /\ Requests \subseteq Addr

(***************************************************************************)
(* No request is so large that current_addr + size passes the top of the   *)
(* address space; current_addr never exceeds heap_end by more than the     *)
(* padding of one block.                                                   *)
(***************************************************************************)
RequestsDoNotWrap ==
  \A size \in Requests : HEAP_START + HEAP_SIZE + 3 + size < WORD

-----------------------------------------------------------------------------
(* mem.c before kernel_main reaches mem_initialize: all statics are zero. *)
MemInit ==
  /\ heap_start = 0
  /\ heap_end = 0
  /\ current_addr = 0
  /\ blocks = {}

mem_initialize ==
  /\ heap_end = 0          \* kernel_main calls it once
  /\ heap_start' = HEAP_START
  /\ heap_end' = (HEAP_START + HEAP_SIZE) % WORD
  /\ current_addr' = HEAP_START
  /\ UNCHANGED blocks

(* The address kmalloc continues from after a block that ends at a. *)
AlignUp(a) == IF a % 4 # 0 THEN (a + (4 - (a % 4))) % WORD ELSE a

(* Mutant: only the start of the block is compared. *)
DoesNotFit_StartOnly(size) == current_addr > heap_end

(* The comparison kmalloc makes, in the arithmetic of the machine. *)
DoesNotFit(size) == (current_addr + size) % WORD > heap_end

(***************************************************************************)
(* kmalloc(size).  A block at address 0 is what the caller sees as NULL,   *)
(* so it is not a block the caller owns.                                   *)
(***************************************************************************)
kmalloc(size) ==
  \/ /\ DoesNotFit(size)
     /\ UNCHANGED memVars
  \/ /\ ~DoesNotFit(size)
     /\ current_addr' = AlignUp((current_addr + size) % WORD)
     /\ blocks' = blocks \cup
          {[ptr |-> p, size |-> size] : p \in {current_addr} \ {0}}
     /\ UNCHANGED <<heap_start, heap_end>>

(* kfree(ptr): "Bump allocator doesn't support free". *)
kfree(b) == UNCHANGED memVars

MemNext ==
  \/ mem_initialize
  \/ \E size \in Requests : kmalloc(size)
  \/ \E b \in blocks : kfree(b)

MemSpec == MemInit /\ [][MemNext]_memVars

-----------------------------------------------------------------------------
TypeOK ==
  /\ heap_start \in Addr
  /\ heap_end \in Addr
  /\ current_addr \in Addr
  /\ blocks \subseteq [ptr : Addr \ {0}, size : Addr]

(***************************************************************************)
(* Every block kmalloc returned, to its last byte, lies inside the region  *)
(* mem_initialize was given ("4MB heap starting at 2MB"): a request that   *)
(* does not fit got NULL.                                                  *)
(***************************************************************************)
BlocksInHeap ==
  \A b \in blocks : heap_start <= b.ptr /\ b.ptr + b.size <= heap_end

(***************************************************************************)
(* No byte belongs to two blocks, whatever sizes were asked for in         *)
(* whatever order; kfree never makes a block available again.              *)
(***************************************************************************)
BlocksDisjoint ==
  \A b, c \in blocks :
    \/ b = c
    \/ b.ptr + b.size <= c.ptr
    \/ c.ptr + c.size <= b.ptr

(* Every block starts on a 4-byte boundary ("Align to 4 bytes"). *)
BlocksAligned == \A b \in blocks : b.ptr % 4 = 0

(***************************************************************************)
(* The inductive strengthening: blocks end at or below current_addr, and   *)
(* current_addr stays aligned and at most three bytes above heap_end.      *)
(***************************************************************************)
HeapRegion ==
  \/ /\ heap_start = 0 /\ heap_end = 0 /\ current_addr = 0
     /\ blocks = {}
  \/ /\ heap_start = HEAP_START
     /\ heap_end = HEAP_START + HEAP_SIZE
     /\ current_addr >= heap_start
     /\ current_addr <= heap_end + 3
     /\ current_addr % 4 = 0

BlocksBelow == \A b \in blocks : b.ptr + b.size <= current_addr

MemInv ==
  /\ TypeOK
  /\ HeapRegion
  /\ BlocksBelow
  /\ BlocksInHeap
  /\ BlocksDisjoint
  /\ BlocksAligned
=============================================================================
