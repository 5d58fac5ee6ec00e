-------------------------------- MODULE Gc --------------------------------
(***************************************************************************)
(* MicroPython's heap (py/gc.c) as this port builds it: one area, no       *)
(* finalisers, no threads, no allocation threshold, memory cleared when it *)
(* is handed out; with the port's gc_collect (nexus_hal.c).                *)
(*                                                                         *)
(* The allocation table atb holds two bits for every block, and one entry  *)
(* more: the gap byte behind the table, which the loops over a chain read. *)
(* A word of memory is the block it points to, or NoPtr for a value that   *)
(* VERIFY_PTR refuses.  gc_alloc, gc_free and gc_realloc are one step each *)
(* as long as they do not collect; marking is a step per word, the rescan  *)
(* and the sweep are a step per block.  Nothing runs in between: the       *)
(* interrupt handlers of this kernel do not touch the heap.                *)
(***************************************************************************)
EXTENDS Integers, Sequences

CONSTANTS
  BLOCKS_PER_ATB,               \* 4: table entries in a byte
  ATB_LEN,                      \* gc_alloc_table_byte_len
  WORDS_PER_BLOCK,              \* 4
  MICROPY_ALLOC_GC_STACK_SIZE,  \* 64
  NROOTS,                       \* root words besides the frame of gc_realloc
  Stored                        \* bound: the words the virtual machine writes

ASSUME GcAssumption ==
  /\ BLOCKS_PER_ATB \in Nat \ {0} /\ ATB_LEN \in Nat \ {0}
  /\ WORDS_PER_BLOCK \in Nat \ {0}
  /\ MICROPY_ALLOC_GC_STACK_SIZE \in Nat \ {0}
  /\ NROOTS \in Nat
  /\ Stored \subseteq 0 .. ATB_LEN * BLOCKS_PER_ATB

NBlocks == ATB_LEN * BLOCKS_PER_ATB
Block == 0 .. NBlocks - 1
NoPtr == NBlocks
Word == 0 .. NBlocks
Index == 1 .. WORDS_PER_BLOCK
FRAME == 0                      \* ptr_in in the frame of gc_realloc
Slots == FRAME .. NROOTS
Request == [n : 0 .. NBlocks, slot : Slots, old : 0 .. NBlocks]
NoReq == [n |-> 0, slot |-> FRAME, old |-> 0]
Kind == {"FREE", "HEAD", "TAIL", "MARK"}

VARIABLES
  atb, mem, roots,
  gc_last_free_atb_index, gc_last_used_block,
  pc,                  \* mutator, roots, overflow, rescan, sweep, retry
  req,                 \* the pending gc_alloc and, if it is gc_realloc's, n_blocks
  root,                \* gc_collect_root: the next root word
  block, stop, word,   \* gc_mark_subtree: where it reads, end of the chain
  gc_block_stack, gc_stack_overflow,
  cursor,              \* the rescan's and the sweep's block
  free_tail, last_used_block   \* locals of gc_sweep

heap == <<atb, mem, roots, gc_last_free_atb_index, gc_last_used_block>>
marker == <<block, stop, word, gc_block_stack, gc_stack_overflow>>
sweeper == <<free_tail, last_used_block>>
vars == <<heap, pc, req, root, marker, cursor, sweeper>>

Min2(a, b) == IF a < b THEN a ELSE b
Max2(a, b) == IF a < b THEN b ELSE a

(* The chain at b ends before e: do ... while (kind == AT_TAIL). *)
Chain(b, e) ==
  /\ atb[e] # "TAIL"
  /\ \A k \in b + 1 .. e - 1 : atb[k] = "TAIL"

Set(t, S, k) == [b \in DOMAIN t |-> IF b \in S THEN k ELSE t[b]]

(* memset to zero: no word of these blocks is a pointer. *)
Clear(m, S) == [b \in Block |-> IF b \in S THEN [w \in Index |-> NoPtr] ELSE m[b]]

-----------------------------------------------------------------------------
(* gc_init: an empty table; the pool and the roots hold anything. *)
Init ==
  /\ atb = [b \in 0 .. NBlocks |-> "FREE"]
  /\ mem \in [Block -> [Index -> Word]]
  /\ roots \in [Slots -> Word] /\ roots[FRAME] = NoPtr
  /\ gc_last_free_atb_index = 0 /\ gc_last_used_block = 0
  /\ pc = "mutator" /\ req = NoReq
  /\ root = 0 /\ block = 0 /\ stop = 0 /\ word = 1
  /\ gc_block_stack = << >> /\ gc_stack_overflow = FALSE
  /\ cursor = 0 /\ free_tail = FALSE /\ last_used_block = 0

-----------------------------------------------------------------------------
(* The virtual machine writes its roots and its objects. *)

SetRoot(s, v) ==
  /\ pc = "mutator" /\ roots' = [roots EXCEPT ![s] = v]
  /\ UNCHANGED <<atb, mem, gc_last_free_atb_index, gc_last_used_block,
                 pc, req, root, marker, cursor, sweeper>>

Store(b, w, v) ==
  /\ pc = "mutator" /\ atb[b] # "FREE"
  /\ mem' = [mem EXCEPT ![b][w] = v]
  /\ UNCHANGED <<atb, roots, gc_last_free_atb_index, gc_last_used_block,
                 pc, req, root, marker, cursor, sweeper>>

-----------------------------------------------------------------------------
(* gc_alloc *)

FreeRun(b, n) == b + n <= NBlocks /\ \A k \in b .. b + n - 1 : atb[k] = "FREE"

(* The first run of n free blocks from gc_last_free_atb_index on. *)
FirstFit(b, n) ==
  /\ b >= gc_last_free_atb_index * BLOCKS_PER_ATB
  /\ FreeRun(b, n)
  /\ \A c \in gc_last_free_atb_index * BLOCKS_PER_ATB .. b - 1 : ~FreeRun(c, n)

Fits(n) == \E b \in Block : FirstFit(b, n)

FreeIndexAfter(b, n) ==
  IF n = 1 THEN (b + 1) \div BLOCKS_PER_ATB ELSE gc_last_free_atb_index

(* Mutant: the start of the run is remembered instead of its end. *)
Take_StartIsLast(b, n, s) ==
  /\ atb' = [Set(atb, b .. b + n - 1, "TAIL") EXCEPT ![b] = "HEAD"]
  /\ gc_last_free_atb_index' = FreeIndexAfter(b, n)
  /\ gc_last_used_block' = Max2(gc_last_used_block, b)
  /\ mem' = Clear(mem, b .. b + n - 1)
  /\ roots' = [roots EXCEPT ![s] = b]

(* found: the run becomes a chain, is cleared, and the caller's slot gets it. *)
Take(b, n, s) ==
  /\ atb' = [Set(atb, b .. b + n - 1, "TAIL") EXCEPT ![b] = "HEAD"]
  /\ gc_last_free_atb_index' = FreeIndexAfter(b, n)
  /\ gc_last_used_block' = Max2(gc_last_used_block, b + n - 1)
  /\ mem' = Clear(mem, b .. b + n - 1)
  /\ roots' = [roots EXCEPT ![s] = b]

(* Nothing found: gc_collect_start, the lock is taken and the roots are    *)
(* next.  A gc_realloc that waits has counted the old blocks already.      *)
StartCollect(n, s, old) ==
  /\ pc' = "roots" /\ req' = [n |-> n, slot |-> s, old |-> old]
  /\ root' = 0 /\ gc_stack_overflow' = FALSE
  /\ UNCHANGED <<atb, mem, gc_last_free_atb_index, gc_last_used_block,
                 block, stop, word, gc_block_stack, cursor, sweeper>>

gc_alloc(n, s) ==
  /\ pc = "mutator"
  /\ \/ /\ \E b \in Block : FirstFit(b, n) /\ Take(b, n, s)
        /\ UNCHANGED <<pc, req, root, marker, cursor, sweeper>>
     \/ /\ ~Fits(n)
        /\ StartCollect(n, s, 0)
        /\ UNCHANGED roots

-----------------------------------------------------------------------------
(* gc_free *)

(* Mutant: the index is left where it is. *)
FreeIndexBack_Keeps(b) == gc_last_free_atb_index

FreeIndexBack(b) == Min2(gc_last_free_atb_index, b \div BLOCKS_PER_ATB)

(* Mutant: the tails stay. *)
gc_free_HeadOnly(b) ==
  /\ pc = "mutator" /\ atb[b] = "HEAD"
  /\ atb' = [atb EXCEPT ![b] = "FREE"]
  /\ gc_last_free_atb_index' = FreeIndexBack(b)
  /\ UNCHANGED <<mem, roots, gc_last_used_block, pc, req, root, marker, cursor, sweeper>>

gc_free(b) ==
  /\ pc = "mutator" /\ atb[b] = "HEAD"
  /\ \E e \in b + 1 .. NBlocks : Chain(b, e) /\ atb' = Set(atb, b .. e - 1, "FREE")
  /\ gc_last_free_atb_index' = FreeIndexBack(b)
  /\ UNCHANGED <<mem, roots, gc_last_used_block, pc, req, root, marker, cursor, sweeper>>

-----------------------------------------------------------------------------
(* gc_realloc of the chain b to e, to n blocks *)

Shrink(b, e, n) ==
  /\ n < e - b
  /\ atb' = Set(atb, b + n .. e - 1, "FREE")
  /\ gc_last_free_atb_index' = FreeIndexBack(b + n)
  /\ UNCHANGED <<mem, roots, gc_last_used_block>>

CanGrow(b, e, n) == n > e - b /\ FreeRun(e, n - (e - b))

(* Mutant: end_block is counted once more. *)
Grow_PastEnd(b, e, n) ==
  /\ CanGrow(b, e, n)
  /\ atb' = Set(atb, e .. b + n - 1, "TAIL")
  /\ mem' = Clear(mem, e .. b + n - 1)
  /\ gc_last_used_block' = Max2(gc_last_used_block, b + n + 1)
  /\ UNCHANGED <<roots, gc_last_free_atb_index>>

(* In place: end_block is the block after the chain here. *)
Grow(b, e, n) ==
  /\ CanGrow(b, e, n)
  /\ atb' = Set(atb, e .. b + n - 1, "TAIL")
  /\ mem' = Clear(mem, e .. b + n - 1)
  /\ gc_last_used_block' = Max2(gc_last_used_block, b + n)
  /\ UNCHANGED <<roots, gc_last_free_atb_index>>

(* Mutant: the new blocks are counted when the words are copied. *)
MoveTo_CopiesTooMuch(b, e, old, n, c, s) ==
  /\ atb' = [Set(Set(atb, b .. e - 1, "FREE"), c .. c + n - 1, "TAIL")
               EXCEPT ![c] = "HEAD"]
  /\ mem' = [k \in Block |->
               IF k \in c .. c + n - 1 THEN mem[(k - c + b) % NBlocks] ELSE mem[k]]
  /\ gc_last_free_atb_index' = FreeIndexBack(b)
  /\ gc_last_used_block' = Max2(gc_last_used_block, c + n - 1)
  /\ roots' = [roots EXCEPT ![FRAME] = NoPtr, ![s] = c]

(* gc_alloc found c (n > 1, the free index stays); memcpy of the blocks    *)
(* counted before; gc_free, which finds the end of the old chain itself.   *)
MoveTo(b, e, old, n, c, s) ==
  /\ atb' = [Set(Set(atb, b .. e - 1, "FREE"), c .. c + n - 1, "TAIL")
               EXCEPT ![c] = "HEAD"]
  /\ mem' = [k \in Block |->
               IF k \in c .. c + old - 1 THEN mem[k - c + b]
               ELSE Clear(mem, c .. c + n - 1)[k]]
  /\ gc_last_free_atb_index' = FreeIndexBack(b)
  /\ gc_last_used_block' = Max2(gc_last_used_block, c + n - 1)
  /\ roots' = [roots EXCEPT ![FRAME] = NoPtr, ![s] = c]

gc_realloc(b, n, s) ==
  /\ pc = "mutator" /\ atb[b] = "HEAD"
  /\ \E e \in b + 1 .. NBlocks :
       /\ Chain(b, e)
       /\ \/ /\ Shrink(b, e, n) \/ Grow(b, e, n)
             /\ UNCHANGED <<pc, req, root, marker, cursor, sweeper>>
          \/ /\ n > e - b /\ ~CanGrow(b, e, n)
             /\ \E c \in Block : FirstFit(c, n) /\ MoveTo(b, e, e - b, n, c, s)
             /\ UNCHANGED <<pc, req, root, marker, cursor, sweeper>>
          \/ /\ n > e - b /\ ~CanGrow(b, e, n) /\ ~Fits(n)
             /\ StartCollect(n, s, e - b)
             /\ roots' = [roots EXCEPT ![FRAME] = b]

-----------------------------------------------------------------------------
(* Marking *)

Mark(b) == atb' = [atb EXCEPT ![b] = "MARK"]

(* gc_mark_subtree begins, or goes on, with the chain at b. *)
Enter(b) ==
  \E e \in b + 1 .. NBlocks :
    /\ Chain(b, e)
    /\ block' = b /\ stop' = e /\ word' = 1

Marking == stop # 0

(* Mutant: what a pointer into an object leads to is traced as well. *)
ScanRoot_Interior ==
  /\ pc = "roots" /\ ~Marking /\ root \in Slots
  /\ root' = root + 1
  /\ IF roots[root] \in Block /\ atb[roots[root]] \in {"HEAD", "TAIL"}
     THEN Enter(roots[root])
          /\ IF atb[roots[root]] = "HEAD" THEN Mark(roots[root]) ELSE UNCHANGED atb
     ELSE UNCHANGED <<atb, block, stop, word>>
  /\ UNCHANGED <<mem, roots, gc_last_free_atb_index, gc_last_used_block, pc, req,
                 gc_block_stack, gc_stack_overflow, cursor, sweeper>>

(* gc_collect_root: one root word.  FRAME is scanned like any other. *)
ScanRoot ==
  /\ pc = "roots" /\ ~Marking /\ root \in Slots
  /\ root' = root + 1
  /\ IF roots[root] \in Block /\ atb[roots[root]] = "HEAD"
     THEN Mark(roots[root]) /\ Enter(roots[root])
     ELSE UNCHANGED <<atb, block, stop, word>>
  /\ UNCHANGED <<mem, roots, gc_last_free_atb_index, gc_last_used_block, pc, req,
                 gc_block_stack, gc_stack_overflow, cursor, sweeper>>

RootsDone ==
  /\ pc = "roots" /\ ~Marking /\ root \notin Slots
  /\ pc' = "overflow" /\ root' = 0
  /\ UNCHANGED <<heap, req, marker, cursor, sweeper>>

(* Mutant: the last entry is not used, and a full stack drops the block. *)
Push_Drops(v) ==
  /\ gc_block_stack' = IF Len(gc_block_stack) + 1 < MICROPY_ALLOC_GC_STACK_SIZE
                       THEN Append(gc_block_stack, v) ELSE gc_block_stack
  /\ UNCHANGED gc_stack_overflow

Push(v) ==
  IF Len(gc_block_stack) < MICROPY_ALLOC_GC_STACK_SIZE
  THEN gc_block_stack' = Append(gc_block_stack, v) /\ UNCHANGED gc_stack_overflow
  ELSE gc_stack_overflow' = TRUE /\ UNCHANGED gc_block_stack

(* One word of the chain; block moves along it. *)
ScanWord ==
  /\ Marking /\ block < stop
  /\ LET v == mem[block][word] IN
     IF v \in Block /\ atb[v] = "HEAD"
     THEN Mark(v) /\ Push(v)
     ELSE UNCHANGED <<atb, gc_block_stack, gc_stack_overflow>>
  /\ IF word < WORDS_PER_BLOCK
     THEN word' = word + 1 /\ UNCHANGED block
     ELSE word' = 1 /\ block' = block + 1
  /\ UNCHANGED <<mem, roots, gc_last_free_atb_index, gc_last_used_block, pc, req,
                 root, stop, cursor, sweeper>>

(* The chain is read: the next one from the stack, or back to the caller. *)
PopBlock ==
  /\ Marking /\ block = stop
  /\ IF gc_block_stack = << >>
     THEN block' = 0 /\ stop' = 0 /\ word' = 1 /\ UNCHANGED gc_block_stack
     ELSE /\ Enter(gc_block_stack[Len(gc_block_stack)])
          /\ gc_block_stack' = SubSeq(gc_block_stack, 1, Len(gc_block_stack) - 1)
  /\ UNCHANGED <<heap, pc, req, root, gc_stack_overflow, cursor, sweeper>>

-----------------------------------------------------------------------------
(* gc_deal_with_stack_overflow *)

(* Mutant: the flag is not reset before the pass. *)
Overflowed_KeepsFlag ==
  /\ pc = "overflow" /\ gc_stack_overflow
  /\ pc' = "rescan" /\ cursor' = 0 /\ UNCHANGED gc_stack_overflow
  /\ UNCHANGED <<heap, req, root, block, stop, word, gc_block_stack, sweeper>>

Overflowed ==
  /\ pc = "overflow" /\ gc_stack_overflow
  /\ pc' = "rescan" /\ cursor' = 0 /\ gc_stack_overflow' = FALSE
  /\ UNCHANGED <<heap, req, root, block, stop, word, gc_block_stack, sweeper>>

Rescan ==
  /\ pc = "rescan" /\ ~Marking /\ cursor < NBlocks
  /\ cursor' = cursor + 1
  /\ IF atb[cursor] = "MARK" THEN Enter(cursor) ELSE UNCHANGED <<block, stop, word>>
  /\ UNCHANGED <<heap, pc, req, root, gc_block_stack, gc_stack_overflow, sweeper>>

(* Mutant: one pass is taken to be enough. *)
RescanDone_Once ==
  /\ pc = "rescan" /\ ~Marking /\ cursor = NBlocks
  /\ pc' = "overflow" /\ cursor' = 0 /\ gc_stack_overflow' = FALSE
  /\ UNCHANGED <<heap, req, root, block, stop, word, gc_block_stack, sweeper>>

RescanDone ==
  /\ pc = "rescan" /\ ~Marking /\ cursor = NBlocks
  /\ pc' = "overflow" /\ cursor' = 0
  /\ UNCHANGED <<heap, req, root, marker, sweeper>>

-----------------------------------------------------------------------------
(* gc_sweep, and the end of gc_collect *)

StartSweep ==
  /\ pc = "overflow" /\ ~gc_stack_overflow
  /\ pc' = "sweep" /\ cursor' = 0 /\ free_tail' = FALSE /\ last_used_block' = 0
  /\ UNCHANGED <<heap, req, root, marker>>

EndBlock == IF gc_last_used_block < NBlocks THEN gc_last_used_block + 1 ELSE NBlocks

(* One block: an unmarked head and its tails are freed, a mark is undone. *)
SweepBlock ==
  /\ pc = "sweep" /\ cursor < EndBlock
  /\ cursor' = cursor + 1
  /\ \/ /\ atb[cursor] = "HEAD" \/ (atb[cursor] = "TAIL" /\ free_tail)
        /\ atb' = [atb EXCEPT ![cursor] = "FREE"]
        /\ free_tail' = TRUE /\ UNCHANGED last_used_block
     \/ /\ atb[cursor] = "TAIL" /\ ~free_tail
        /\ last_used_block' = cursor /\ UNCHANGED <<atb, free_tail>>
     \/ /\ atb[cursor] = "MARK"
        /\ atb' = [atb EXCEPT ![cursor] = "HEAD"]
        /\ free_tail' = FALSE /\ last_used_block' = cursor
     \/ /\ atb[cursor] = "FREE"
        /\ UNCHANGED <<atb, free_tail, last_used_block>>
  /\ UNCHANGED <<mem, roots, gc_last_free_atb_index, gc_last_used_block, pc, req,
                 root, marker>>

SweepDone ==
  /\ pc = "sweep" /\ cursor = EndBlock
  /\ gc_last_used_block' = last_used_block
  /\ gc_last_free_atb_index' = 0
  /\ pc' = "retry"
  /\ cursor' = 0 /\ free_tail' = FALSE /\ last_used_block' = 0
  /\ UNCHANGED <<atb, mem, roots, req, root, marker>>

(* gc_alloc searches again, collected = 1; on failure it returns NULL and  *)
(* its caller raises MemoryError, the slot is not assigned.  gc_realloc    *)
(* goes on with the length it had found before the collection.             *)
Retry ==
  /\ pc = "retry" /\ pc' = "mutator"
  /\ IF roots[FRAME] = NoPtr
     THEN \/ \E b \in Block : FirstFit(b, req.n) /\ Take(b, req.n, req.slot)
          \/ ~Fits(req.n) /\ UNCHANGED heap
     ELSE \/ \E c \in Block, e \in 1 .. NBlocks :
               /\ FirstFit(c, req.n)
               /\ e > roots[FRAME] /\ Chain(roots[FRAME], e)
               /\ MoveTo(roots[FRAME], e, req.old, req.n, c, req.slot)
          \/ /\ ~Fits(req.n)
             /\ roots' = [roots EXCEPT ![FRAME] = NoPtr]
             /\ UNCHANGED <<atb, mem, gc_last_free_atb_index, gc_last_used_block>>
  /\ req' = NoReq
  /\ UNCHANGED <<root, marker, cursor, sweeper>>

-----------------------------------------------------------------------------
Mutator ==
  \/ \E s \in 1 .. NROOTS, v \in Stored : SetRoot(s, v)
  \/ \E b \in Block, w \in Index, v \in Stored : Store(b, w, v)
  \/ \E n \in 1 .. NBlocks, s \in 1 .. NROOTS : gc_alloc(n, s)
  \/ \E b \in Block : gc_free(b)
  \/ \E b \in Block, n \in 1 .. NBlocks, s \in 1 .. NROOTS : gc_realloc(b, n, s)

Collector ==
  \/ ScanRoot \/ RootsDone \/ ScanWord \/ PopBlock
  \/ Overflowed \/ Rescan \/ RescanDone
  \/ StartSweep \/ SweepBlock \/ SweepDone \/ Retry

Next == Mutator \/ Collector

Spec == Init /\ [][Next]_vars
FairSpec == Spec /\ WF_vars(Collector)

-----------------------------------------------------------------------------
(* Type correctness of the collector's state. *)
TypeOK ==
  /\ atb \in [0 .. NBlocks -> Kind]
  /\ mem \in [Block -> [Index -> Word]]
  /\ roots \in [Slots -> Word]
  /\ gc_last_free_atb_index \in 0 .. ATB_LEN
  /\ gc_last_used_block \in 0 .. NBlocks
  /\ pc \in {"mutator", "roots", "overflow", "rescan", "sweep", "retry"}
  /\ req \in Request
  /\ root \in 0 .. NROOTS + 1
  /\ block \in Word /\ stop \in 0 .. NBlocks /\ word \in Index
  /\ gc_block_stack \in Seq(Block)
  /\ Len(gc_block_stack) <= MICROPY_ALLOC_GC_STACK_SIZE
  /\ gc_stack_overflow \in BOOLEAN
  /\ cursor \in 0 .. NBlocks
  /\ free_tail \in BOOLEAN /\ last_used_block \in 0 .. NBlocks

(* Whenever the virtual machine runs, the table is a sequence of chains: a *)
(* tail follows a head or a tail, no mark is left, and the gap byte behind *)
(* the table, which ends the last chain, is still free.                    *)
ChainsAreWhole ==
  pc \in {"mutator", "retry"} =>
    /\ \A b \in 0 .. NBlocks : atb[b] # "MARK"
    /\ \A b \in 0 .. NBlocks : atb[b] = "TAIL" => b > 0 /\ atb[b - 1] \in {"HEAD", "TAIL"}
    /\ atb[NBlocks] = "FREE"

(* gc_alloc's comment: the index "guarantees that there are no free blocks *)
(* before this one"; gc_free, gc_realloc and the sweep keep it so.  A free *)
(* block before it would be lost until the next collection.                *)
NoFreeBlockBeforeIndex ==
  pc \in {"mutator", "retry"} =>
    \A b \in Block : b < gc_last_free_atb_index * BLOCKS_PER_ATB => atb[b] # "FREE"

(* Every block in use is within the part of the table that gc_sweep looks  *)
(* at, so that no mark survives a collection and no garbage is missed.     *)
SweepCoversHeap ==
  pc # "sweep" => \A b \in Block : atb[b] # "FREE" => b <= gc_last_used_block

(* What makes these inductive: the gap byte, what the sweep has done so    *)
(* far, and that gc_realloc's old chain is found by its own frame.         *)
GapIsFree == atb[NBlocks] = "FREE"

UsedBlocksBelow == \A b \in Block : atb[b] # "FREE" => b <= gc_last_used_block

NoMarks == pc \in {"mutator", "retry"} => \A b \in Block : atb[b] # "MARK"

TailsFollow ==
  \A b \in Block : atb[b] = "TAIL" =>
    /\ b > 0
    /\ atb[b - 1] # "FREE" \/ (pc = "sweep" /\ b = cursor /\ free_tail)

SweptSoFar ==
  pc = "sweep" =>
    /\ cursor <= EndBlock
    /\ \A b \in Block : b < cursor =>
         atb[b] # "MARK" /\ (atb[b] # "FREE" => b <= last_used_block)

(* The slot a pending gc_alloc will assign is not gc_realloc's frame. *)
RequestIsPending ==
  pc # "mutator" => req.n \in 1 .. NBlocks /\ req.slot \in 1 .. NROOTS

MarkerIsIdle == Marking => pc \in {"roots", "rescan"}

FrameIsKept ==
  roots[FRAME] # NoPtr =>
    /\ pc # "mutator"
    /\ atb[roots[FRAME]] \in {"HEAD", "MARK"}
    /\ (pc = "roots" /\ root > 0) \/ pc \in {"overflow", "rescan"}
         => atb[roots[FRAME]] = "MARK"
    /\ pc = "sweep" => atb[roots[FRAME]] = "MARK" \/ roots[FRAME] < cursor

GcInv ==
  /\ TypeOK /\ GapIsFree /\ UsedBlocksBelow /\ NoFreeBlockBeforeIndex
  /\ NoMarks /\ TailsFollow /\ SweptSoFar /\ RequestIsPending /\ MarkerIsIdle
  /\ FrameIsKept

(* The objects: the chains, less those a sweep under way will still free. *)
Heads ==
  IF pc = "sweep"
  THEN {b \in Block : atb[b] = "MARK" \/ (b < cursor /\ atb[b] = "HEAD")}
  ELSE {b \in Block : atb[b] \in {"HEAD", "MARK"}}

Objects == {o \in Block \X (1 .. NBlocks) : o[1] \in Heads /\ o[1] < o[2] /\ Chain(o[1], o[2])}

Heap == INSTANCE ObjectHeap WITH objs <- Objects

(* py/gc.c implements the object heap: seen through the chains, every step *)
(* is one the virtual machine may rely on, and a whole collection is the   *)
(* one step that drops what is unreachable, however small the mark stack.  *)
HeapSpec == Heap!Spec

(* While gc_collect runs, the virtual machine sees at most one change, the *)
(* loss of exactly what it cannot reach: no object is freed, cut short or  *)
(* written to in passing, and none that is reachable is lost because the   *)
(* mark stack was full.                                                    *)
CollectionIsExact == [][pc \notin {"mutator", "retry"} => Heap!Collect]_(Heap!vars)

(* What is marked and not yet traced can still be found: on the stack, in  *)
(* the chain being read, ahead of the rescan, or by the next rescan.  At   *)
(* the end of marking nothing is left to find.                             *)
Pending(b) ==
  \/ gc_stack_overflow
  \/ \E k \in 1 .. Len(gc_block_stack) : gc_block_stack[k] = b
  \/ pc = "rescan" /\ b >= cursor

MarksAreTraced ==
  pc \in {"roots", "overflow", "rescan"} =>
    \A o \in Objects : \A b \in o[1] .. o[2] - 1, w \in Index :
      /\ atb[o[1]] = "MARK"
      /\ mem[b][w] \in Block /\ atb[mem[b][w]] = "HEAD"
      => \/ Pending(o[1])
         \/ /\ Marking /\ stop = o[2]
            /\ block < b \/ (block = b /\ word <= w)

(* Only what is reachable is ever marked, so that no garbage survives.     *)
MarksAreReachable ==
  pc \in {"roots", "overflow", "rescan"} =>
    {o \in Objects : atb[o[1]] = "MARK"} \subseteq Heap!Reachable

(* What makes these inductive: the mark stack is in use only while a chain *)
(* is read, and holds marked heads; the chain being read is a marked one;  *)
(* the root words read so far lead to marked heads; the tails that the     *)
(* sweep frees follow a block it has freed; and the chain of a gc_realloc  *)
(* that waits for the collection still has the length it counted, which is *)
(* less than what was asked for.                                           *)
StackIsIdle == ~Marking => gc_block_stack = << >>

StackIsMarked ==
  \A k \in 1 .. Len(gc_block_stack) : atb[gc_block_stack[k]] = "MARK"

ReadsMarked ==
  Marking =>
    \E o \in Objects :
      atb[o[1]] = "MARK" /\ o[2] = stop /\ o[1] <= block /\ block <= stop

RootsAreMarked ==
  \A s \in Slots :
    /\ pc \in {"overflow", "rescan"} \/ (pc = "roots" /\ s < root)
    /\ roots[s] \in Block
    => atb[roots[s]] # "HEAD"

FreesTails == pc = "sweep" /\ free_tail => cursor > 0 /\ atb[cursor - 1] = "FREE"

FrameKeepsLength ==
  pc # "mutator" =>
    \A o \in Objects : o[1] = roots[FRAME] => o[2] - o[1] = req.old /\ req.old < req.n

MarkInv ==
  /\ StackIsIdle /\ StackIsMarked /\ ReadsMarked /\ RootsAreMarked
  /\ FreesTails /\ FrameKeepsLength
  /\ MarksAreTraced /\ MarksAreReachable

(* Every collection ends, and with it the gc_alloc that asked for it: each *)
(* rescan after an overflow marks a block that was not marked.             *)
CollectionEnds == pc # "mutator" ~> pc = "mutator"
=============================================================================
