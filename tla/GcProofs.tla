------------------------------ MODULE GcProofs ------------------------------
(***************************************************************************)
(* py/gc.c, for every heap size, mark stack and pointer graph.             *)
(*                                                                         *)
(* First the table: it is whole whenever the virtual machine runs, the     *)
(* remembered free index hides no free block, and the sweep reaches every  *)
(* used block.  The inductive invariant is GcInv.  It adds to the three    *)
(* properties what holds half way through a collection: marks are gone     *)
(* below the sweep's cursor, a tail without its head can only be at the    *)
(* cursor, and the chain gc_realloc was called with is marked through its  *)
(* frame.                                                                  *)
(*                                                                         *)
(* Then what the table means: gc_alloc, gc_free and gc_realloc do to the   *)
(* chains what ObjectHeap says, and a collection removes exactly what the  *)
(* roots do not lead to.  The chains are first looked at as a function of  *)
(* the table alone.  GcInv and MarkInv are inductive together: the marks   *)
(* need a consistent table, and the retry of a gc_realloc needs the length *)
(* that MarkInv keeps for it.  At the end of marking the marked chains are *)
(* the reachable ones: they are closed under pointers (MarksAreTraced,     *)
(* RootsAreMarked), and every closed set holds them (MarksAreReachable).   *)
(***************************************************************************)
EXTENDS Gc, SequenceTheorems, WellFoundedInduction, TLAPS

LEMMA HeapSize ==
  /\ NBlocks \in Nat \ {0}
  /\ BLOCKS_PER_ATB \in Nat \ {0} /\ ATB_LEN \in Nat \ {0}
  /\ NBlocks = ATB_LEN * BLOCKS_PER_ATB
  BY GcAssumption DEF NBlocks

(* Quotients of block numbers are indices of the table. *)
LEMMA Quotient ==
  ASSUME NEW a \in Nat, NEW k \in Nat \ {0}
  PROVE  /\ a \div k \in Nat
         /\ (a \div k) * k <= a
         /\ a < (a \div k) * k + k
  OBVIOUS

LEMMA TableIndex ==
  ASSUME NEW a \in 0 .. NBlocks
  PROVE  /\ a \div BLOCKS_PER_ATB \in 0 .. ATB_LEN
         /\ (a \div BLOCKS_PER_ATB) * BLOCKS_PER_ATB <= a
<1>1. /\ a \div BLOCKS_PER_ATB \in Nat
      /\ (a \div BLOCKS_PER_ATB) * BLOCKS_PER_ATB <= a
  BY HeapSize, Quotient
<1>2. a \div BLOCKS_PER_ATB <= ATB_LEN
  <2> SUFFICES ASSUME a \div BLOCKS_PER_ATB > ATB_LEN PROVE FALSE
    BY <1>1, HeapSize
  <2>1. \A q, l, k \in Nat : q > l /\ k > 0 => q * k > l * k
    OBVIOUS
  <2>2. (a \div BLOCKS_PER_ATB) * BLOCKS_PER_ATB > ATB_LEN * BLOCKS_PER_ATB
    BY <1>1, <2>1, HeapSize
  <2> QED BY <1>1, <2>2, HeapSize
<1> QED BY <1>1, <1>2

LEMMA Constants ==
  /\ NROOTS \in Nat /\ WORDS_PER_BLOCK \in Nat \ {0}
  /\ MICROPY_ALLOC_GC_STACK_SIZE \in Nat \ {0}
  /\ Stored \subseteq Word
  BY GcAssumption, HeapSize DEF Word

-----------------------------------------------------------------------------
(* gc_init *)

LEMMA InitInv == Init => GcInv
<1> SUFFICES ASSUME Init PROVE GcInv
  OBVIOUS
<1> USE HeapSize, Constants DEF Init
<1>1. TypeOK
  <2>2. req \in Request
    BY DEF Request, NoReq, Slots, FRAME
  <2>3. atb \in [0 .. NBlocks -> Kind]
    BY DEF Kind
  <2>4. /\ gc_block_stack \in Seq(Block)
        /\ Len(gc_block_stack) <= MICROPY_ALLOC_GC_STACK_SIZE
    OBVIOUS
  <2>5. word \in Index /\ block \in Word
    BY DEF Index, Word
  <2>6. gc_stack_overflow \in BOOLEAN /\ free_tail \in BOOLEAN
    BY Zenon
  <2>7. mem \in [Block -> [Index -> Word]] /\ roots \in [Slots -> Word]
    OBVIOUS
  <2>8. /\ pc \in {"mutator", "roots", "overflow", "rescan", "sweep", "retry"}
        /\ gc_last_free_atb_index \in 0 .. ATB_LEN /\ gc_last_used_block \in 0 .. NBlocks
        /\ root \in 0 .. NROOTS + 1 /\ cursor \in 0 .. NBlocks
        /\ stop \in 0 .. NBlocks /\ last_used_block \in 0 .. NBlocks
    OBVIOUS
  <2> QED BY <2>2, <2>3, <2>4, <2>5, <2>6, <2>7, <2>8, Zenon DEF TypeOK
<1>2. GapIsFree /\ UsedBlocksBelow /\ NoFreeBlockBeforeIndex /\ NoMarks /\ TailsFollow
  BY DEF GapIsFree, UsedBlocksBelow, NoFreeBlockBeforeIndex, NoMarks, TailsFollow, Block
<1>3. SweptSoFar /\ RequestIsPending /\ MarkerIsIdle /\ FrameIsKept
  BY DEF SweptSoFar, RequestIsPending, FrameIsKept, MarkerIsIdle, Marking, marker
<1> QED BY <1>1, <1>2, <1>3 DEF GcInv

-----------------------------------------------------------------------------
(* The virtual machine *)

LEMMA SetRootInv ==
  ASSUME GcInv, NEW s \in 1 .. NROOTS, NEW v \in Stored, SetRoot(s, v)
  PROVE  GcInv'
<1> USE HeapSize, Constants DEF GcInv, SetRoot, marker, sweeper
<1>1. TypeOK'
  BY DEF TypeOK, Slots, FRAME
<1>2. roots'[FRAME] = roots[FRAME]
  BY DEF TypeOK, Slots, FRAME
<1>3. (GapIsFree /\ UsedBlocksBelow /\ NoFreeBlockBeforeIndex /\ NoMarks /\ TailsFollow)'
  BY DEF GapIsFree, UsedBlocksBelow, NoFreeBlockBeforeIndex, NoMarks, TailsFollow
<1>4. (SweptSoFar /\ RequestIsPending /\ MarkerIsIdle /\ FrameIsKept)'
  BY <1>2 DEF SweptSoFar, RequestIsPending, FrameIsKept, MarkerIsIdle, Marking, marker, EndBlock
<1> QED BY <1>1, <1>3, <1>4

LEMMA StoreInv ==
  ASSUME GcInv, NEW b \in Block, NEW w \in Index, NEW v \in Stored, Store(b, w, v)
  PROVE  GcInv'
<1> USE HeapSize, Constants DEF GcInv, Store, marker, sweeper
<1>1. TypeOK'
  <2>1. mem' \in [Block -> [Index -> Word]]
    BY DEF TypeOK
  <2> QED BY <2>1 DEF TypeOK
<1>2. (GapIsFree /\ UsedBlocksBelow /\ NoFreeBlockBeforeIndex /\ NoMarks /\ TailsFollow)'
  BY DEF GapIsFree, UsedBlocksBelow, NoFreeBlockBeforeIndex, NoMarks, TailsFollow
<1>3. (SweptSoFar /\ RequestIsPending /\ MarkerIsIdle /\ FrameIsKept)'
  BY DEF SweptSoFar, RequestIsPending, FrameIsKept, MarkerIsIdle, Marking, marker, EndBlock
<1> QED BY <1>1, <1>2, <1>3

-----------------------------------------------------------------------------
(* What the operators on the table and the memory return. *)

LEMMA ClearMemory ==
  ASSUME NEW m \in [Block -> [Index -> Word]], NEW S
  PROVE  Clear(m, S) \in [Block -> [Index -> Word]]
  BY HeapSize DEF Clear, Word, NoPtr

LEMMA MinMax ==
  ASSUME NEW a \in Nat, NEW b \in Nat
  PROVE  /\ Min2(a, b) \in {a, b} /\ Min2(a, b) <= a /\ Min2(a, b) <= b
         /\ Max2(a, b) \in {a, b} /\ Max2(a, b) >= a /\ Max2(a, b) >= b
  BY DEF Min2, Max2

(* The table after a run of free blocks was taken. *)
LEMMA TakenTable ==
  ASSUME TypeOK, NEW b \in Block, NEW n \in 1 .. NBlocks,
         atb' = [Set(atb, b .. b + n - 1, "TAIL") EXCEPT ![b] = "HEAD"]
  PROVE  /\ atb' \in [0 .. NBlocks -> Kind]
         /\ \A x \in 0 .. NBlocks :
              atb'[x] = IF x = b THEN "HEAD"
                        ELSE IF x \in b .. b + n - 1 THEN "TAIL" ELSE atb[x]
<1>1. "TAIL" \in Kind /\ "HEAD" \in Kind
  BY DEF Kind
<1> DEFINE t == Set(atb, b .. b + n - 1, "TAIL")
<1>2. /\ t \in [0 .. NBlocks -> Kind]
      /\ \A x \in 0 .. NBlocks : t[x] = IF x \in b .. b + n - 1 THEN "TAIL" ELSE atb[x]
  BY <1>1 DEF TypeOK, Set
<1>3. b \in 0 .. NBlocks
  BY HeapSize DEF Block
<1> HIDE DEF t
<1>4. atb' = [t EXCEPT ![b] = "HEAD"]
  BY DEF t
<1> QED BY <1>1, <1>2, <1>3, <1>4

LEMMA TakeInv ==
  ASSUME GcInv, pc \in {"mutator", "retry"}, roots[FRAME] = NoPtr,
         NEW b \in Block, NEW n \in 1 .. NBlocks, NEW s \in 1 .. NROOTS,
         FirstFit(b, n), Take(b, n, s), pc' = "mutator",
         req' \in Request,
         UNCHANGED <<root, marker, cursor, sweeper>>
  PROVE  GcInv'
<1> USE HeapSize, Constants
<1>0. /\ TypeOK /\ GapIsFree /\ UsedBlocksBelow /\ NoFreeBlockBeforeIndex
      /\ NoMarks /\ TailsFollow /\ SweptSoFar /\ RequestIsPending /\ MarkerIsIdle
      /\ FrameIsKept
  BY DEF GcInv
<1>1. /\ atb' \in [0 .. NBlocks -> Kind]
      /\ \A x \in 0 .. NBlocks :
           atb'[x] = IF x = b THEN "HEAD"
                     ELSE IF x \in b .. b + n - 1 THEN "TAIL" ELSE atb[x]
  BY <1>0, TakenTable DEF Take
<1>2. b + n <= NBlocks /\ \A x \in b .. b + n - 1 : atb[x] = "FREE"
  BY DEF FirstFit, FreeRun
<1>3. /\ gc_last_used_block' \in 0 .. NBlocks
      /\ gc_last_used_block' >= gc_last_used_block
      /\ gc_last_used_block' >= b + n - 1
  <2>1. /\ gc_last_used_block \in 0 .. NBlocks
        /\ b + n - 1 \in Nat /\ b + n - 1 <= NBlocks
    BY <1>0, <1>2 DEF TypeOK, Block
  <2>2. gc_last_used_block' = Max2(gc_last_used_block, b + n - 1)
    BY DEF Take
  <2> QED BY <2>1, <2>2, MinMax
<1>4. b + 1 \in 0 .. NBlocks
  BY DEF Block
<1>5. gc_last_free_atb_index' \in 0 .. ATB_LEN
  BY <1>0, <1>4, TableIndex DEF Take, FreeIndexAfter, TypeOK
<1>6. TypeOK'
  <2>1. mem' \in [Block -> [Index -> Word]]
    <3>1. mem' = Clear(mem, b .. b + n - 1) /\ mem \in [Block -> [Index -> Word]]
      BY <1>0 DEF Take, TypeOK
    <3> QED BY <3>1, ClearMemory
  <2>2. roots' \in [Slots -> Word]
    <3>1. roots \in [Slots -> Word] /\ roots' = [roots EXCEPT ![s] = b]
      BY <1>0 DEF TypeOK, Take
    <3>2. b \in Word
      BY DEF Block, Word
    <3> QED BY <3>1, <3>2
  <2>3. pc' \in {"mutator", "roots", "overflow", "rescan", "sweep", "retry"}
    OBVIOUS
  <2> QED BY <1>0, <1>1, <1>3, <1>5, <2>1, <2>2, <2>3 DEF TypeOK, marker, sweeper
<1>7. roots'[FRAME] = NoPtr
  BY <1>0 DEF Take, TypeOK, Slots, FRAME
<1>8. GapIsFree'
  BY <1>0, <1>1, <1>2 DEF GapIsFree, Block
<1>9. UsedBlocksBelow'
  BY <1>0, <1>1, <1>3 DEF UsedBlocksBelow, Block, TypeOK
<1>10. NoFreeBlockBeforeIndex'
  <2> SUFFICES ASSUME NEW x \in Block, x < gc_last_free_atb_index' * BLOCKS_PER_ATB,
                      x # b, x \notin b .. b + n - 1
               PROVE  atb[x] # "FREE"
    BY <1>1 DEF NoFreeBlockBeforeIndex, Block
  <2>1. CASE n # 1
    BY <1>0, <2>1 DEF Take, FreeIndexAfter, NoFreeBlockBeforeIndex
  <2>2. CASE n = 1
    <3>1. ((b + 1) \div BLOCKS_PER_ATB) * BLOCKS_PER_ATB <= b + 1
      BY <1>4, TableIndex
    <3>2. x < b
      BY <2>2, <3>1, <1>5 DEF Take, FreeIndexAfter, Block
    <3>3. CASE x < gc_last_free_atb_index * BLOCKS_PER_ATB
      BY <1>0, <3>3 DEF NoFreeBlockBeforeIndex
    <3>4. CASE x >= gc_last_free_atb_index * BLOCKS_PER_ATB
      <4>1. x \in gc_last_free_atb_index * BLOCKS_PER_ATB .. b - 1
        BY <1>0, <3>2, <3>4 DEF Block, TypeOK
      <4>2. ~FreeRun(x, 1)
        BY <2>2, <4>1 DEF FirstFit
      <4> QED BY <4>2 DEF FreeRun, Block
    <3> QED BY <1>0, <3>3, <3>4 DEF Block, TypeOK
  <2> QED BY <2>1, <2>2
<1>11. NoMarks'
  BY <1>0, <1>1 DEF NoMarks, Block
<1>12. TailsFollow'
  BY <1>0, <1>1, <1>2 DEF TailsFollow, Block
<1>13. (SweptSoFar /\ RequestIsPending /\ MarkerIsIdle /\ FrameIsKept)'
  BY <1>0, <1>7 DEF SweptSoFar, RequestIsPending, FrameIsKept, MarkerIsIdle, Marking, marker
<1> QED BY <1>6, <1>8, <1>9, <1>10, <1>11, <1>12, <1>13 DEF GcInv

(* gc_last_free_atb_index after blocks from b on were freed. *)
LEMMA IndexBack ==
  ASSUME TypeOK, NEW b \in 0 .. NBlocks, gc_last_free_atb_index' = FreeIndexBack(b)
  PROVE  /\ gc_last_free_atb_index' \in 0 .. ATB_LEN
         /\ \A x \in Block : x < gc_last_free_atb_index' * BLOCKS_PER_ATB =>
              x < gc_last_free_atb_index * BLOCKS_PER_ATB /\ x < b
<1> USE HeapSize
<1> DEFINE q == b \div BLOCKS_PER_ATB
<1>1. q \in 0 .. ATB_LEN /\ q * BLOCKS_PER_ATB <= b
  BY TableIndex
<1>2. gc_last_free_atb_index' = Min2(gc_last_free_atb_index, q)
  BY DEF FreeIndexBack
<1> HIDE DEF q
<1>3. /\ gc_last_free_atb_index \in 0 .. ATB_LEN
      /\ gc_last_free_atb_index' \in {gc_last_free_atb_index, q}
      /\ gc_last_free_atb_index' <= gc_last_free_atb_index /\ gc_last_free_atb_index' <= q
  BY <1>1, <1>2, MinMax DEF TypeOK
<1>4. gc_last_free_atb_index' \in 0 .. ATB_LEN
  BY <1>1, <1>3
<1>5. \A i, j, k \in Nat : i <= j => i * k <= j * k
  OBVIOUS
<1>6. /\ gc_last_free_atb_index' * BLOCKS_PER_ATB <= gc_last_free_atb_index * BLOCKS_PER_ATB
      /\ gc_last_free_atb_index' * BLOCKS_PER_ATB <= q * BLOCKS_PER_ATB
  BY <1>1, <1>3, <1>4, <1>5
<1>7. /\ gc_last_free_atb_index' * BLOCKS_PER_ATB \in Nat
      /\ gc_last_free_atb_index * BLOCKS_PER_ATB \in Nat
      /\ q * BLOCKS_PER_ATB \in Nat
  BY <1>1, <1>3, <1>4
<1>8. ASSUME NEW x \in Block, x < gc_last_free_atb_index' * BLOCKS_PER_ATB
      PROVE  x < gc_last_free_atb_index * BLOCKS_PER_ATB /\ x < b
  BY <1>1, <1>6, <1>7, <1>8 DEF Block
<1> QED BY <1>4, <1>8

(* gc_free and the shrinking gc_realloc: the end of a chain is freed. *)
LEMMA FreeEndInv ==
  ASSUME GcInv, pc = "mutator",
         NEW b \in Block, NEW e \in b + 1 .. NBlocks, NEW f \in b .. e - 1,
         Chain(b, e), atb' = Set(atb, f .. e - 1, "FREE"),
         gc_last_free_atb_index' = FreeIndexBack(f),
         UNCHANGED <<mem, roots, gc_last_used_block, pc, req, root, marker, cursor, sweeper>>
  PROVE  GcInv'
<1> USE HeapSize, Constants
<1>0. /\ TypeOK /\ GapIsFree /\ UsedBlocksBelow /\ NoFreeBlockBeforeIndex
      /\ NoMarks /\ TailsFollow /\ SweptSoFar /\ RequestIsPending /\ MarkerIsIdle
      /\ FrameIsKept
  BY DEF GcInv
<1>1. f \in 0 .. NBlocks /\ e \in 0 .. NBlocks
  BY DEF Block
<1>2. /\ atb' \in [0 .. NBlocks -> Kind]
      /\ \A x \in 0 .. NBlocks : atb'[x] = IF x \in f .. e - 1 THEN "FREE" ELSE atb[x]
  BY <1>0 DEF TypeOK, Set, Kind
<1>3. /\ gc_last_free_atb_index' \in 0 .. ATB_LEN
      /\ \A x \in Block : x < gc_last_free_atb_index' * BLOCKS_PER_ATB =>
           x < gc_last_free_atb_index * BLOCKS_PER_ATB /\ x < f
  BY <1>0, <1>1, IndexBack
<1>4. TypeOK'
  BY <1>0, <1>2, <1>3 DEF TypeOK, marker, sweeper
<1>5. GapIsFree' /\ UsedBlocksBelow' /\ NoMarks'
  BY <1>0, <1>2 DEF GapIsFree, UsedBlocksBelow, NoMarks, Block
<1>6. NoFreeBlockBeforeIndex'
  BY <1>0, <1>2, <1>3 DEF NoFreeBlockBeforeIndex, Block
<1>7. TailsFollow'
  <2>1. atb[e] # "TAIL"
    BY DEF Chain
  <2> QED BY <1>0, <1>2, <2>1 DEF TailsFollow, Block
<1>8. (SweptSoFar /\ RequestIsPending /\ MarkerIsIdle /\ FrameIsKept)'
  BY <1>0 DEF SweptSoFar, RequestIsPending, FrameIsKept, MarkerIsIdle, Marking, marker
<1> QED BY <1>4, <1>5, <1>6, <1>7, <1>8 DEF GcInv

LEMMA GcFreeInv ==
  ASSUME GcInv, NEW b \in Block, gc_free(b)
  PROVE  GcInv'
<1>1. PICK e \in b + 1 .. NBlocks : Chain(b, e) /\ atb' = Set(atb, b .. e - 1, "FREE")
  BY DEF gc_free
<1>2. b \in b .. e - 1
  BY <1>1, HeapSize DEF Block
<1> QED BY <1>1, <1>2, FreeEndInv DEF gc_free

LEMMA ShrinkInv ==
  ASSUME GcInv, pc = "mutator",
         NEW b \in Block, NEW e \in b + 1 .. NBlocks, NEW n \in 1 .. NBlocks,
         Chain(b, e), Shrink(b, e, n), UNCHANGED <<pc, req, root, marker, cursor, sweeper>>
  PROVE  GcInv'
<1>1. b + n \in b .. e - 1
  BY HeapSize DEF Shrink, Block
<1> QED BY <1>1, FreeEndInv DEF Shrink

LEMMA GrowInv ==
  ASSUME GcInv, pc = "mutator",
         NEW b \in Block, NEW e \in b + 1 .. NBlocks, NEW n \in 1 .. NBlocks,
         atb[b] = "HEAD", Chain(b, e), Grow(b, e, n),
         UNCHANGED <<pc, req, root, marker, cursor, sweeper>>
  PROVE  GcInv'
<1> USE HeapSize, Constants
<1>0. /\ TypeOK /\ GapIsFree /\ UsedBlocksBelow /\ NoFreeBlockBeforeIndex
      /\ NoMarks /\ TailsFollow /\ SweptSoFar /\ RequestIsPending /\ MarkerIsIdle
      /\ FrameIsKept
  BY DEF GcInv
<1>1. /\ atb' \in [0 .. NBlocks -> Kind]
      /\ \A x \in 0 .. NBlocks : atb'[x] = IF x \in e .. b + n - 1 THEN "TAIL" ELSE atb[x]
  BY <1>0 DEF TypeOK, Set, Kind, Grow
<1>2. b + n \in e + 1 .. NBlocks
  BY DEF Grow, CanGrow, FreeRun, Block
<1>3. \A x \in e .. b + n - 1 : atb[x] = "FREE"
  <2>1. e + (n - (e - b)) - 1 = b + n - 1
    BY DEF Block
  <2> QED BY <2>1 DEF Grow, CanGrow, FreeRun
<1>4. /\ gc_last_used_block' \in 0 .. NBlocks
      /\ gc_last_used_block' >= gc_last_used_block
      /\ gc_last_used_block' >= b + n
  <2>1. gc_last_used_block \in Nat /\ b + n \in Nat /\ gc_last_used_block <= NBlocks
    BY <1>0, <1>2 DEF TypeOK, Block
  <2>2. gc_last_used_block' = Max2(gc_last_used_block, b + n)
    BY DEF Grow
  <2> QED BY <1>2, <2>1, <2>2, MinMax
<1>5. TypeOK'
  <2>1. mem' \in [Block -> [Index -> Word]]
    <3>1. mem' = Clear(mem, e .. b + n - 1) /\ mem \in [Block -> [Index -> Word]]
      BY <1>0 DEF Grow, TypeOK
    <3> QED BY <3>1, ClearMemory
  <2> QED BY <1>0, <1>1, <1>4, <2>1 DEF TypeOK, Grow, marker, sweeper
<1>6. GapIsFree' /\ NoMarks'
  BY <1>0, <1>1, <1>2 DEF GapIsFree, NoMarks, Block
<1>7. UsedBlocksBelow'
  BY <1>0, <1>1, <1>4 DEF UsedBlocksBelow, Block, TypeOK
<1>8. NoFreeBlockBeforeIndex'
  BY <1>0, <1>1 DEF NoFreeBlockBeforeIndex, Block, Grow
<1>9. TailsFollow'
  <2>1. atb[e - 1] # "FREE"
    BY DEF Chain, Block
  <2> QED BY <1>0, <1>1, <1>2, <2>1 DEF TailsFollow, Block
<1>10. (SweptSoFar /\ RequestIsPending /\ MarkerIsIdle /\ FrameIsKept)'
  BY <1>0 DEF SweptSoFar, RequestIsPending, FrameIsKept, MarkerIsIdle, Marking, marker, Grow
<1> QED BY <1>5, <1>6, <1>7, <1>8, <1>9, <1>10 DEF GcInv

(* The moving gc_realloc, from the virtual machine or after a collection. *)
LEMMA MoveInv ==
  ASSUME GcInv, pc \in {"mutator", "retry"},
         NEW b \in Block, NEW e \in b + 1 .. NBlocks, NEW n \in 1 .. NBlocks,
         NEW c \in Block, NEW s \in 1 .. NROOTS,
         atb[b] = "HEAD", Chain(b, e), FirstFit(c, n), MoveTo(b, e, e - b, n, c, s),
         pc' = "mutator", req' \in Request,
         UNCHANGED <<root, marker, cursor, sweeper>>
  PROVE  GcInv'
<1> USE HeapSize, Constants
<1>0. /\ TypeOK /\ GapIsFree /\ UsedBlocksBelow /\ NoFreeBlockBeforeIndex
      /\ NoMarks /\ TailsFollow /\ SweptSoFar /\ RequestIsPending /\ MarkerIsIdle
      /\ FrameIsKept
  BY DEF GcInv
<1>1. /\ atb' \in [0 .. NBlocks -> Kind]
      /\ \A x \in 0 .. NBlocks :
           atb'[x] = IF x = c THEN "HEAD"
                     ELSE IF x \in c .. c + n - 1 THEN "TAIL"
                     ELSE IF x \in b .. e - 1 THEN "FREE" ELSE atb[x]
  <2> DEFINE t == Set(atb, b .. e - 1, "FREE")
             u == Set(t, c .. c + n - 1, "TAIL")
  <2>1. /\ t \in [0 .. NBlocks -> Kind]
        /\ \A x \in 0 .. NBlocks : t[x] = IF x \in b .. e - 1 THEN "FREE" ELSE atb[x]
    BY <1>0 DEF TypeOK, Set, Kind
  <2> HIDE DEF t
  <2>2. /\ u \in [0 .. NBlocks -> Kind]
        /\ \A x \in 0 .. NBlocks : u[x] = IF x \in c .. c + n - 1 THEN "TAIL" ELSE t[x]
    BY <2>1 DEF Set, Kind
  <2>3. atb' = [u EXCEPT ![c] = "HEAD"]
    BY DEF MoveTo, t
  <2> HIDE DEF u
  <2>4. c \in 0 .. NBlocks /\ "HEAD" \in Kind
    BY DEF Block, Kind
  <2> QED BY <2>1, <2>2, <2>3, <2>4
<1>2. c + n <= NBlocks /\ \A x \in c .. c + n - 1 : atb[x] = "FREE"
  BY DEF FirstFit, FreeRun
<1>3. /\ gc_last_used_block' \in 0 .. NBlocks
      /\ gc_last_used_block' >= gc_last_used_block
      /\ gc_last_used_block' >= c + n - 1
  <2>1. /\ gc_last_used_block \in 0 .. NBlocks
        /\ c + n - 1 \in Nat /\ c + n - 1 <= NBlocks
    BY <1>0, <1>2 DEF TypeOK, Block
  <2>2. gc_last_used_block' = Max2(gc_last_used_block, c + n - 1)
    BY DEF MoveTo
  <2> QED BY <2>1, <2>2, MinMax
<1>4. /\ gc_last_free_atb_index' \in 0 .. ATB_LEN
      /\ \A x \in Block : x < gc_last_free_atb_index' * BLOCKS_PER_ATB =>
           x < gc_last_free_atb_index * BLOCKS_PER_ATB /\ x < b
  <2>1. b \in 0 .. NBlocks
    BY DEF Block
  <2> QED BY <1>0, <2>1, IndexBack DEF MoveTo
<1>5. roots' \in [Slots -> Word] /\ roots'[FRAME] = NoPtr
  <2>1. /\ roots \in [Slots -> Word]
        /\ roots' = [roots EXCEPT ![FRAME] = NoPtr, ![s] = c]
    BY <1>0 DEF TypeOK, MoveTo
  <2>2. s \in Slots /\ FRAME \in Slots /\ s # FRAME
    BY DEF Slots, FRAME
  <2>3. c \in Word /\ NoPtr \in Word
    BY DEF Block, Word, NoPtr
  <2> QED BY <2>1, <2>2, <2>3
<1>6. mem' \in [Block -> [Index -> Word]]
  <2> DEFINE m == Clear(mem, c .. c + n - 1)
  <2>1. mem \in [Block -> [Index -> Word]] /\ m \in [Block -> [Index -> Word]]
    BY <1>0, ClearMemory DEF TypeOK
  <2>2. mem' = [k \in Block |-> IF k \in c .. c + (e - b) - 1 THEN mem[k - c + b] ELSE m[k]]
    BY DEF MoveTo
  <2> HIDE DEF m
  <2>3. ASSUME NEW k \in Block, k \in c .. c + (e - b) - 1
        PROVE  k - c + b \in Block
    BY <2>3 DEF Block
  <2> QED BY <2>1, <2>2, <2>3
<1>7. TypeOK'
  <2>1. pc' \in {"mutator", "roots", "overflow", "rescan", "sweep", "retry"}
    OBVIOUS
  <2> QED BY <1>0, <1>1, <1>3, <1>4, <1>5, <1>6, <2>1 DEF TypeOK, marker, sweeper
<1>8. GapIsFree' /\ NoMarks'
  BY <1>0, <1>1, <1>2 DEF GapIsFree, NoMarks, Block
<1>9. UsedBlocksBelow'
  BY <1>0, <1>1, <1>3 DEF UsedBlocksBelow, Block, TypeOK
<1>10. NoFreeBlockBeforeIndex'
  <2> SUFFICES ASSUME NEW x \in Block, x < gc_last_free_atb_index' * BLOCKS_PER_ATB
               PROVE  atb'[x] # "FREE"
    BY DEF NoFreeBlockBeforeIndex
  <2>1. x < gc_last_free_atb_index * BLOCKS_PER_ATB /\ x < b
    BY <1>4
  <2>2. atb[x] # "FREE" /\ x \in 0 .. NBlocks /\ x \notin b .. e - 1
    BY <1>0, <2>1 DEF NoFreeBlockBeforeIndex, Block
  <2> QED BY <1>1, <2>2
<1>11. TailsFollow'
  <2>1. atb[e] # "TAIL"
    BY DEF Chain
  <2> SUFFICES ASSUME NEW x \in Block, atb'[x] = "TAIL"
               PROVE  x > 0 /\ atb'[x - 1] # "FREE"
    BY DEF TailsFollow
  <2>2. CASE x \in c .. c + n - 1
    BY <1>1, <2>2 DEF Block
  <2>3. CASE x \notin c .. c + n - 1
    <3>1. x \notin b .. e - 1 /\ atb[x] = "TAIL" /\ x # e
      BY <1>1, <2>1, <2>3 DEF Block
    <3>2. x > 0 /\ atb[x - 1] # "FREE"
      BY <1>0, <3>1 DEF TailsFollow
    <3>3. x - 1 \in 0 .. NBlocks /\ x - 1 \notin b .. e - 1
      BY <3>1, <3>2 DEF Block
    <3> QED BY <1>1, <1>2, <3>2, <3>3
  <2> QED BY <2>2, <2>3
<1>12. (SweptSoFar /\ RequestIsPending /\ MarkerIsIdle /\ FrameIsKept)'
  BY <1>0, <1>5 DEF SweptSoFar, RequestIsPending, FrameIsKept, MarkerIsIdle, Marking, marker
<1> QED BY <1>7, <1>8, <1>9, <1>10, <1>11, <1>12 DEF GcInv

(* gc_collect_start: gc_realloc's pointer, or none, is in its frame. *)
LEMMA StartCollectInv ==
  ASSUME GcInv, pc = "mutator", NEW n \in 1 .. NBlocks, NEW s \in 1 .. NROOTS,
         NEW old \in 0 .. NBlocks, StartCollect(n, s, old), roots' \in [Slots -> Word],
         roots'[FRAME] # NoPtr => atb[roots'[FRAME]] = "HEAD"
  PROVE  GcInv'
<1> USE HeapSize, Constants
<1>0. /\ TypeOK /\ GapIsFree /\ UsedBlocksBelow /\ NoFreeBlockBeforeIndex
      /\ NoMarks /\ TailsFollow /\ SweptSoFar /\ RequestIsPending /\ MarkerIsIdle
      /\ FrameIsKept
  BY DEF GcInv
<1>1. /\ req' \in Request
      /\ req'.n \in 1 .. NBlocks /\ req'.slot \in 1 .. NROOTS
      /\ pc' = "roots" /\ root' = 0
  BY DEF StartCollect, Request, Slots, FRAME
<1>2. gc_stack_overflow' \in BOOLEAN /\ UNCHANGED free_tail
  BY Zenon DEF StartCollect, sweeper
<1>3. /\ UNCHANGED <<atb, mem, gc_last_free_atb_index, gc_last_used_block>>
      /\ UNCHANGED <<block, stop, word, gc_block_stack, cursor, last_used_block>>
  BY DEF StartCollect, sweeper
<1>4. TypeOK'
  <2>1. /\ atb' \in [0 .. NBlocks -> Kind] /\ mem' \in [Block -> [Index -> Word]]
        /\ gc_last_free_atb_index' \in 0 .. ATB_LEN
        /\ gc_last_used_block' \in 0 .. NBlocks
        /\ pc' \in {"mutator", "roots", "overflow", "rescan", "sweep", "retry"}
        /\ root' \in 0 .. NROOTS + 1
        /\ block' \in Word /\ stop' \in 0 .. NBlocks /\ word' \in Index
        /\ gc_block_stack' \in Seq(Block)
        /\ Len(gc_block_stack') <= MICROPY_ALLOC_GC_STACK_SIZE
        /\ cursor' \in 0 .. NBlocks /\ last_used_block' \in 0 .. NBlocks
    BY <1>0, <1>1, <1>3 DEF TypeOK
  <2>2. free_tail' \in BOOLEAN
    BY <1>0, <1>2, Zenon DEF TypeOK
  <2> QED BY <1>1, <1>2, <2>1, <2>2, Zenon DEF TypeOK
<1>5. (GapIsFree /\ UsedBlocksBelow /\ NoFreeBlockBeforeIndex /\ NoMarks)'
  BY <1>0, <1>1, <1>3 DEF GapIsFree, UsedBlocksBelow, NoFreeBlockBeforeIndex, NoMarks
<1>6. TailsFollow'
  BY <1>0, <1>1, <1>3 DEF TailsFollow
<1>7. (SweptSoFar /\ RequestIsPending /\ MarkerIsIdle /\ FrameIsKept)'
  BY <1>0, <1>1, <1>3 DEF SweptSoFar, RequestIsPending, FrameIsKept, MarkerIsIdle, Marking, marker
<1> QED BY <1>4, <1>5, <1>6, <1>7 DEF GcInv

LEMMA GcAllocInv ==
  ASSUME GcInv, NEW n \in 1 .. NBlocks, NEW s \in 1 .. NROOTS, gc_alloc(n, s)
  PROVE  GcInv'
<1>1. /\ pc = "mutator" /\ roots[FRAME] = NoPtr
      /\ req \in Request /\ roots \in [Slots -> Word]
  BY DEF GcInv, FrameIsKept, TypeOK, gc_alloc
<1>2. CASE /\ \E b \in Block : FirstFit(b, n) /\ Take(b, n, s)
           /\ UNCHANGED <<pc, req, root, marker, cursor, sweeper>>
  BY <1>1, <1>2, TakeInv
<1>3. CASE StartCollect(n, s, 0) /\ UNCHANGED roots
  <2>1. 0 \in 0 .. NBlocks /\ roots' = roots
    BY <1>3, HeapSize
  <2> QED BY <1>1, <1>3, <2>1, StartCollectInv
<1> QED BY <1>2, <1>3 DEF gc_alloc

LEMMA GcReallocInv ==
  ASSUME GcInv, NEW b \in Block, NEW n \in 1 .. NBlocks, NEW s \in 1 .. NROOTS,
         gc_realloc(b, n, s)
  PROVE  GcInv'
<1>1. /\ pc = "mutator" /\ atb[b] = "HEAD"
      /\ req \in Request /\ roots \in [Slots -> Word]
  BY DEF GcInv, TypeOK, gc_realloc
<1>2. PICK e \in b + 1 .. NBlocks :
       /\ Chain(b, e)
       /\ \/ /\ Shrink(b, e, n) \/ Grow(b, e, n)
             /\ UNCHANGED <<pc, req, root, marker, cursor, sweeper>>
          \/ /\ \E c \in Block : FirstFit(c, n) /\ MoveTo(b, e, e - b, n, c, s)
             /\ UNCHANGED <<pc, req, root, marker, cursor, sweeper>>
          \/ /\ StartCollect(n, s, e - b)
             /\ roots' = [roots EXCEPT ![FRAME] = b]
  BY DEF gc_realloc
<1>3. CASE /\ Shrink(b, e, n) \/ Grow(b, e, n)
           /\ UNCHANGED <<pc, req, root, marker, cursor, sweeper>>
  BY <1>1, <1>2, <1>3, ShrinkInv, GrowInv
<1>4. CASE /\ \E c \in Block : FirstFit(c, n) /\ MoveTo(b, e, e - b, n, c, s)
           /\ UNCHANGED <<pc, req, root, marker, cursor, sweeper>>
  BY <1>1, <1>2, <1>4, MoveInv
<1>5. CASE StartCollect(n, s, e - b) /\ roots' = [roots EXCEPT ![FRAME] = b]
  <2>1. b \in Word /\ FRAME \in Slots
    BY HeapSize, Constants DEF Block, Word, Slots, FRAME
  <2>2. roots' \in [Slots -> Word] /\ roots'[FRAME] = b
    BY <1>1, <1>5, <2>1
  <2>3. e - b \in 0 .. NBlocks
    BY HeapSize DEF Block
  <2> QED BY <1>1, <1>5, <2>2, <2>3, StartCollectInv
<1> QED BY <1>2, <1>3, <1>4, <1>5

-----------------------------------------------------------------------------
(* Marking *)

(* A marking step marks at most one head.  The frame of gc_realloc is the  *)
(* first root, so that its chain is marked before any other root is read.  *)
LEMMA MarkingInv ==
  ASSUME GcInv, pc \in {"roots", "rescan"}, UNCHANGED <<pc, req>>,
         UNCHANGED <<mem, roots, gc_last_free_atb_index, gc_last_used_block>>,
         UNCHANGED sweeper,
         \/ UNCHANGED atb
         \/ \E v \in Block : atb[v] = "HEAD" /\ Mark(v),
         roots[FRAME] # NoPtr /\ pc = "roots" /\ root' > 0 /\ root = 0
           => atb'[roots[FRAME]] = "MARK",
         root' \in 0 .. NROOTS + 1, cursor' \in 0 .. NBlocks,
         block' \in Word, stop' \in 0 .. NBlocks, word' \in Index,
         gc_block_stack' \in Seq(Block),
         Len(gc_block_stack') <= MICROPY_ALLOC_GC_STACK_SIZE,
         gc_stack_overflow' \in BOOLEAN
  PROVE  GcInv'
<1> USE HeapSize, Constants
<1>0. /\ TypeOK /\ GapIsFree /\ UsedBlocksBelow /\ NoFreeBlockBeforeIndex
      /\ NoMarks /\ TailsFollow /\ SweptSoFar /\ RequestIsPending /\ MarkerIsIdle
      /\ FrameIsKept
  BY DEF GcInv
<1>1. /\ atb' \in [0 .. NBlocks -> Kind]
      /\ \A x \in 0 .. NBlocks :
           \/ atb'[x] = atb[x]
           \/ x \in Block /\ atb[x] = "HEAD" /\ atb'[x] = "MARK"
  <2>1. CASE UNCHANGED atb
    BY <1>0, <2>1 DEF TypeOK
  <2>2. ASSUME NEW v \in Block, atb[v] = "HEAD", Mark(v)
        PROVE  /\ atb' \in [0 .. NBlocks -> Kind]
               /\ \A x \in 0 .. NBlocks :
                    \/ atb'[x] = atb[x]
                    \/ x \in Block /\ atb[x] = "HEAD" /\ atb'[x] = "MARK"
    BY <1>0, <2>2 DEF TypeOK, Mark, Kind, Block
  <2> QED BY <2>1, <2>2
<1>2. TypeOK'
  <2>1. /\ mem' \in [Block -> [Index -> Word]] /\ roots' \in [Slots -> Word]
        /\ gc_last_free_atb_index' \in 0 .. ATB_LEN
        /\ gc_last_used_block' \in 0 .. NBlocks
        /\ pc' \in {"mutator", "roots", "overflow", "rescan", "sweep", "retry"}
        /\ req' \in Request
        /\ last_used_block' \in 0 .. NBlocks
    BY <1>0 DEF TypeOK, sweeper
  <2>2. free_tail' \in BOOLEAN
    BY <1>0, Zenon DEF TypeOK, sweeper
  <2> QED BY <1>1, <2>1, <2>2, Zenon DEF TypeOK
<1>3. (GapIsFree /\ UsedBlocksBelow /\ NoFreeBlockBeforeIndex /\ NoMarks)'
  BY <1>0, <1>1 DEF GapIsFree, UsedBlocksBelow, NoFreeBlockBeforeIndex, NoMarks, Block
<1>4. TailsFollow'
  <2> SUFFICES ASSUME NEW b \in Block, atb'[b] = "TAIL"
               PROVE  b > 0 /\ atb'[b - 1] # "FREE"
    BY DEF TailsFollow
  <2>1. b \in 0 .. NBlocks /\ atb[b] = "TAIL"
    BY <1>1 DEF Block
  <2>2. b > 0 /\ atb[b - 1] # "FREE"
    BY <2>1 DEF GcInv, TailsFollow
  <2>3. b - 1 \in 0 .. NBlocks
    BY <2>1, <2>2
  <2>4. atb'[b - 1] = atb[b - 1] \/ atb'[b - 1] = "MARK"
    BY <1>1, <2>3, Zenon
  <2> QED BY <2>2, <2>4
<1>5. (SweptSoFar /\ RequestIsPending /\ MarkerIsIdle)'
  BY <1>0 DEF SweptSoFar, RequestIsPending, MarkerIsIdle
<1>6. FrameIsKept'
  <2> SUFFICES ASSUME roots[FRAME] # NoPtr PROVE FrameIsKept'
    BY DEF FrameIsKept
  <2>1. roots[FRAME] \in 0 .. NBlocks
    BY <1>0 DEF TypeOK, Slots, FRAME, Word
  <2>2. atb'[roots[FRAME]] = atb[roots[FRAME]] \/ atb'[roots[FRAME]] = "MARK"
    BY <1>1, <2>1
  <2>3. root \in Nat /\ root' \in Nat
    BY <1>0 DEF TypeOK
  <2> QED BY <1>0, <2>2, <2>3 DEF FrameIsKept
<1> QED BY <1>2, <1>3, <1>4, <1>5, <1>6 DEF GcInv

(* Where gc_mark_subtree reads after it has entered a chain. *)
LEMMA Entered ==
  ASSUME NEW b \in Block, Enter(b)
  PROVE  block' \in Word /\ stop' \in 0 .. NBlocks /\ word' \in Index
  BY HeapSize, Constants DEF Enter, Block, Word, Index

LEMMA FrameBlock ==
  ASSUME TypeOK, roots[FRAME] # NoPtr
  PROVE  roots[FRAME] \in Block
<1>1. roots[FRAME] \in Word
  BY Constants DEF TypeOK, Slots, FRAME
<1> QED BY <1>1, HeapSize DEF Word, Block, NoPtr

LEMMA ScanRootInv == ASSUME GcInv, ScanRoot PROVE GcInv'
<1> USE HeapSize, Constants
<1>1. /\ TypeOK /\ FrameIsKept
  BY DEF GcInv
<1>2. /\ pc = "roots" /\ root \in Slots /\ root' = root + 1 /\ UNCHANGED <<pc, req>>
      /\ UNCHANGED <<mem, roots, gc_last_free_atb_index, gc_last_used_block>>
      /\ UNCHANGED <<gc_block_stack, cursor>> /\ UNCHANGED sweeper
  BY DEF ScanRoot
<1>3. UNCHANGED gc_stack_overflow
  BY Zenon DEF ScanRoot
<1>4. gc_stack_overflow' \in BOOLEAN
  BY <1>1, <1>3, Zenon DEF TypeOK
<1>5. /\ root' \in 0 .. NROOTS + 1 /\ cursor' \in 0 .. NBlocks
      /\ gc_block_stack' \in Seq(Block)
      /\ Len(gc_block_stack') <= MICROPY_ALLOC_GC_STACK_SIZE
  BY <1>1, <1>2 DEF TypeOK, Slots, FRAME
<1>6. CASE roots[root] \in Block /\ atb[roots[root]] = "HEAD"
  <2>1. Mark(roots[root]) /\ Enter(roots[root])
    BY <1>6 DEF ScanRoot
  <2>2. root = 0 => atb'[roots[FRAME]] = "MARK"
    BY <1>1, <1>6, <2>1 DEF Mark, FRAME, TypeOK, Block
  <2>3. block' \in Word /\ stop' \in 0 .. NBlocks /\ word' \in Index
    BY <1>6, <2>1, Entered
  <2> QED BY <1>2, <1>4, <1>5, <1>6, <2>1, <2>2, <2>3, MarkingInv
<1>7. CASE ~(roots[root] \in Block /\ atb[roots[root]] = "HEAD")
  <2>1. UNCHANGED <<atb, block, stop, word>>
    BY <1>7 DEF ScanRoot
  <2>2. block' \in Word /\ stop' \in 0 .. NBlocks /\ word' \in Index
    BY <1>1, <2>1 DEF TypeOK
  <2>3. roots[FRAME] # NoPtr /\ root = 0 => atb'[roots[FRAME]] = "MARK"
    <3> SUFFICES ASSUME roots[FRAME] # NoPtr, root = 0 PROVE atb[roots[FRAME]] = "MARK"
      BY <2>1
    <3>1. roots[FRAME] \in Block
      BY <1>1, FrameBlock
    <3>2. atb[roots[FRAME]] # "HEAD"
      BY <1>7, <3>1 DEF FRAME
    <3> QED BY <1>1, <3>2 DEF FrameIsKept
  <2> QED BY <1>2, <1>4, <1>5, <2>1, <2>2, <2>3, MarkingInv
<1> QED BY <1>6, <1>7

LEMMA ScanWordInv == ASSUME GcInv, ScanWord PROVE GcInv'
<1> USE HeapSize, Constants
<1>1. /\ TypeOK /\ MarkerIsIdle
  BY DEF GcInv
<1>2. /\ pc \in {"roots", "rescan"} /\ UNCHANGED <<pc, req>>
      /\ UNCHANGED <<mem, roots, gc_last_free_atb_index, gc_last_used_block>>
      /\ UNCHANGED <<root, stop, cursor>> /\ UNCHANGED sweeper
      /\ block < stop
  BY <1>1 DEF ScanWord, MarkerIsIdle
<1>3. block' \in Word /\ stop' \in 0 .. NBlocks /\ word' \in Index
  <2>1. block \in 0 .. NBlocks /\ stop \in 0 .. NBlocks /\ word \in 1 .. WORDS_PER_BLOCK
    BY <1>1 DEF TypeOK, Word, Index
  <2>2. \/ word < WORDS_PER_BLOCK /\ word' = word + 1 /\ UNCHANGED block
        \/ word' = 1 /\ block' = block + 1
    BY DEF ScanWord
  <2> QED BY <1>2, <2>1, <2>2 DEF Word, Index
<1>4. root' \in 0 .. NROOTS + 1 /\ cursor' \in 0 .. NBlocks
  BY <1>1, <1>2 DEF TypeOK
<1> DEFINE v == mem[block][word]
<1>5. CASE v \in Block /\ atb[v] = "HEAD"
  <2>1. Mark(v) /\ Push(v)
    BY <1>5 DEF ScanWord
  <2>2. /\ gc_block_stack' \in Seq(Block)
        /\ Len(gc_block_stack') <= MICROPY_ALLOC_GC_STACK_SIZE
    <3> HIDE DEF v
    <3>1. /\ gc_block_stack \in Seq(Block) /\ v \in Block
          /\ Len(gc_block_stack) <= MICROPY_ALLOC_GC_STACK_SIZE
      BY <1>1, <1>5 DEF TypeOK
    <3>2. \/ /\ Len(gc_block_stack) < MICROPY_ALLOC_GC_STACK_SIZE
             /\ gc_block_stack' = Append(gc_block_stack, v)
          \/ UNCHANGED gc_block_stack
      BY <2>1 DEF Push
    <3> QED BY <3>1, <3>2
  <2>3. gc_stack_overflow' \in BOOLEAN
    <3>1. gc_stack_overflow \in BOOLEAN
      BY <1>1 DEF TypeOK
    <3> QED BY <2>1, <3>1, Zenon DEF Push
  <2> HIDE DEF v
  <2> QED BY <1>2, <1>3, <1>4, <1>5, <2>1, <2>2, <2>3, MarkingInv
<1>6. CASE ~(v \in Block /\ atb[v] = "HEAD")
  <2>1. UNCHANGED <<atb, gc_block_stack>>
    BY <1>6 DEF ScanWord
  <2>2. gc_stack_overflow' \in BOOLEAN
    <3>1. UNCHANGED gc_stack_overflow
      BY <1>6, Zenon DEF ScanWord
    <3> QED BY <1>1, <3>1, Zenon DEF TypeOK
  <2>3. /\ gc_block_stack' \in Seq(Block)
        /\ Len(gc_block_stack') <= MICROPY_ALLOC_GC_STACK_SIZE
    BY <1>1, <2>1 DEF TypeOK
  <2> QED BY <1>2, <1>3, <1>4, <2>1, <2>2, <2>3, MarkingInv
<1> QED BY <1>5, <1>6

LEMMA PopBlockInv == ASSUME GcInv, PopBlock PROVE GcInv'
<1> USE HeapSize, Constants
<1>1. /\ TypeOK /\ MarkerIsIdle
  BY DEF GcInv
<1>2. /\ pc \in {"roots", "rescan"} /\ UNCHANGED <<pc, req>>
      /\ UNCHANGED <<atb, mem, roots, gc_last_free_atb_index, gc_last_used_block>>
      /\ UNCHANGED <<root, cursor>> /\ UNCHANGED sweeper
  BY <1>1 DEF PopBlock, MarkerIsIdle, heap
<1>3. gc_stack_overflow' \in BOOLEAN
  <2>1. UNCHANGED gc_stack_overflow
    BY Zenon DEF PopBlock
  <2> QED BY <1>1, <2>1, Zenon DEF TypeOK
<1>4. root' \in 0 .. NROOTS + 1 /\ cursor' \in 0 .. NBlocks
  BY <1>1, <1>2 DEF TypeOK
<1>5. /\ gc_block_stack \in Seq(Block)
      /\ Len(gc_block_stack) <= MICROPY_ALLOC_GC_STACK_SIZE
  BY <1>1 DEF TypeOK
<1>6. CASE gc_block_stack = << >>
  <2>1. block' = 0 /\ stop' = 0 /\ word' = 1 /\ UNCHANGED gc_block_stack
    BY <1>6 DEF PopBlock
  <2>2. block' \in Word /\ stop' \in 0 .. NBlocks /\ word' \in Index
    BY <2>1 DEF Word, Index
  <2> QED BY <1>2, <1>3, <1>4, <1>5, <2>1, <2>2, MarkingInv
<1>7. CASE gc_block_stack # << >>
  <2> DEFINE n == Len(gc_block_stack)
  <2>1. n \in Nat \ {0} /\ gc_block_stack[n] \in Block
    BY <1>5, <1>7
  <2>2. /\ Enter(gc_block_stack[n])
        /\ gc_block_stack' = SubSeq(gc_block_stack, 1, n - 1)
    BY <1>7 DEF PopBlock
  <2>3. block' \in Word /\ stop' \in 0 .. NBlocks /\ word' \in Index
    BY <2>1, <2>2, Entered
  <2>4. gc_block_stack' \in Seq(Block) /\ Len(gc_block_stack') = n - 1
    <3>1. n - 1 \in Int /\ \A i \in 1 .. n - 1 : gc_block_stack[i] \in Block
      BY <1>5, <2>1
    <3> DEFINE u == SubSeq(gc_block_stack, 1, n - 1)
    <3>2. u \in Seq(Block) /\ Len(u) = IF 1 <= n - 1 THEN n - 1 - 1 + 1 ELSE 0
      BY <3>1, SubSeqProperties
    <3>3. gc_block_stack' = u
      BY <2>2
    <3> HIDE DEF n, u
    <3> QED BY <2>1, <3>2, <3>3
  <2>5. Len(gc_block_stack') <= MICROPY_ALLOC_GC_STACK_SIZE
    BY <1>5, <2>1, <2>4
  <2> QED BY <1>2, <1>3, <1>4, <2>3, <2>4, <2>5, MarkingInv
<1> QED BY <1>6, <1>7

LEMMA RescanInv == ASSUME GcInv, Rescan PROVE GcInv'
<1> USE HeapSize, Constants
<1>1. TypeOK
  BY DEF GcInv
<1>2. /\ pc = "rescan" /\ UNCHANGED <<pc, req>> /\ cursor < NBlocks
      /\ UNCHANGED <<atb, mem, roots, gc_last_free_atb_index, gc_last_used_block>>
      /\ UNCHANGED <<root, gc_block_stack>> /\ UNCHANGED sweeper /\ cursor' = cursor + 1
  BY DEF Rescan, heap
<1>3. gc_stack_overflow' \in BOOLEAN
  <2>1. UNCHANGED gc_stack_overflow
    BY Zenon DEF Rescan
  <2> QED BY <1>1, <2>1, Zenon DEF TypeOK
<1>4. /\ root' \in 0 .. NROOTS + 1 /\ cursor' \in 0 .. NBlocks
      /\ gc_block_stack' \in Seq(Block)
      /\ Len(gc_block_stack') <= MICROPY_ALLOC_GC_STACK_SIZE
  BY <1>1, <1>2 DEF TypeOK
<1>5. block' \in Word /\ stop' \in 0 .. NBlocks /\ word' \in Index
  <2>1. CASE Enter(cursor)
    <3>1. cursor \in Block
      BY <1>1, <1>2 DEF TypeOK, Block
    <3> QED BY <2>1, <3>1, Entered
  <2>2. CASE UNCHANGED <<block, stop, word>>
    BY <1>1, <2>2 DEF TypeOK
  <2> QED BY <2>1, <2>2 DEF Rescan
<1> QED BY <1>2, <1>3, <1>4, <1>5, MarkingInv

-----------------------------------------------------------------------------
(* From one phase of the collection to the next *)

(* The table is not touched; the chain in the frame is marked by now. *)
LEMMA PhaseInv ==
  ASSUME GcInv, pc \in {"roots", "overflow", "rescan"}, pc = "roots" => root > 0,
         pc' \in {"overflow", "rescan", "sweep"}, pc' = "sweep" => cursor' = 0,
         UNCHANGED <<heap, req, stop>>, ~Marking,
         root' \in 0 .. NROOTS + 1, cursor' \in 0 .. NBlocks,
         UNCHANGED <<block, word, gc_block_stack>>,
         gc_stack_overflow' \in BOOLEAN, free_tail' \in BOOLEAN,
         last_used_block' \in 0 .. NBlocks
  PROVE  GcInv'
<1> USE HeapSize, Constants
<1>0. /\ TypeOK /\ GapIsFree /\ UsedBlocksBelow /\ NoFreeBlockBeforeIndex
      /\ NoMarks /\ TailsFollow /\ SweptSoFar /\ RequestIsPending /\ MarkerIsIdle
      /\ FrameIsKept
  BY DEF GcInv
<1>1. UNCHANGED <<atb, mem, roots, gc_last_free_atb_index, gc_last_used_block>>
  BY DEF heap
<1>2. TypeOK'
  <2>1. /\ atb' \in [0 .. NBlocks -> Kind]
        /\ mem' \in [Block -> [Index -> Word]] /\ roots' \in [Slots -> Word]
        /\ gc_last_free_atb_index' \in 0 .. ATB_LEN
        /\ gc_last_used_block' \in 0 .. NBlocks
        /\ pc' \in {"mutator", "roots", "overflow", "rescan", "sweep", "retry"}
        /\ req' \in Request
        /\ block' \in Word /\ stop' \in 0 .. NBlocks /\ word' \in Index
        /\ gc_block_stack' \in Seq(Block)
        /\ Len(gc_block_stack') <= MICROPY_ALLOC_GC_STACK_SIZE
    BY <1>0, <1>1 DEF TypeOK
  <2> QED BY <2>1, Zenon DEF TypeOK
<1>3. (GapIsFree /\ UsedBlocksBelow /\ NoFreeBlockBeforeIndex /\ NoMarks)'
  BY <1>0, <1>1 DEF GapIsFree, UsedBlocksBelow, NoFreeBlockBeforeIndex, NoMarks
<1>4. TailsFollow'
  BY <1>0, <1>1 DEF TailsFollow
<1>5. SweptSoFar'
  <2> SUFFICES ASSUME pc' = "sweep" PROVE SweptSoFar'
    BY DEF SweptSoFar
  <2>1. cursor' = 0 /\ 0 <= EndBlock'
    BY <1>0, <1>1 DEF EndBlock, TypeOK
  <2>2. \A b \in Block : ~(b < cursor')
    BY <2>1 DEF Block
  <2> QED BY <2>1, <2>2 DEF SweptSoFar
<1>6. (RequestIsPending /\ MarkerIsIdle /\ FrameIsKept)'
  BY <1>0, <1>1 DEF RequestIsPending, MarkerIsIdle, Marking, FrameIsKept
<1> QED BY <1>2, <1>3, <1>4, <1>5, <1>6 DEF GcInv

LEMMA RootsDoneInv == ASSUME GcInv, RootsDone PROVE GcInv'
<1>1. /\ TypeOK /\ root \notin Slots /\ root' = 0 /\ pc' = "overflow"
  BY DEF RootsDone, GcInv
<1>2. root > 0 /\ root' \in 0 .. NROOTS + 1
  BY <1>1, Constants DEF TypeOK, Slots, FRAME
<1>3. gc_stack_overflow' \in BOOLEAN /\ free_tail' \in BOOLEAN
  BY <1>1, Zenon DEF RootsDone, TypeOK, marker, sweeper
<1>4. /\ UNCHANGED <<heap, req, stop>> /\ UNCHANGED <<block, word, gc_block_stack>>
      /\ cursor' \in 0 .. NBlocks /\ last_used_block' \in 0 .. NBlocks
      /\ pc = "roots" /\ ~Marking
  BY <1>1 DEF RootsDone, TypeOK, marker, sweeper
<1> QED BY <1>1, <1>2, <1>3, <1>4, PhaseInv

LEMMA OverflowedInv == ASSUME GcInv, Overflowed PROVE GcInv'
<1>1. /\ TypeOK /\ MarkerIsIdle
  BY DEF GcInv
<1>2. gc_stack_overflow' \in BOOLEAN /\ free_tail' \in BOOLEAN
  BY <1>1, Zenon DEF Overflowed, TypeOK, sweeper
<1>3. /\ UNCHANGED <<heap, req, stop>> /\ UNCHANGED <<block, word, gc_block_stack>>
      /\ cursor' \in 0 .. NBlocks /\ last_used_block' \in 0 .. NBlocks
      /\ root' \in 0 .. NROOTS + 1
      /\ pc = "overflow" /\ pc' = "rescan" /\ ~Marking
  BY <1>1, HeapSize DEF Overflowed, TypeOK, sweeper, MarkerIsIdle
<1> QED BY <1>2, <1>3, PhaseInv

LEMMA RescanDoneInv == ASSUME GcInv, RescanDone PROVE GcInv'
<1>1. TypeOK
  BY DEF GcInv
<1>2. gc_stack_overflow' \in BOOLEAN /\ free_tail' \in BOOLEAN
  BY <1>1, Zenon DEF RescanDone, TypeOK, marker, sweeper
<1>3. /\ UNCHANGED <<heap, req, stop>> /\ UNCHANGED <<block, word, gc_block_stack>>
      /\ cursor' \in 0 .. NBlocks /\ last_used_block' \in 0 .. NBlocks
      /\ root' \in 0 .. NROOTS + 1
      /\ pc = "rescan" /\ pc' = "overflow" /\ ~Marking
  BY <1>1, HeapSize DEF RescanDone, TypeOK, marker, sweeper
<1> QED BY <1>2, <1>3, PhaseInv

LEMMA StartSweepInv == ASSUME GcInv, StartSweep PROVE GcInv'
<1>1. /\ TypeOK /\ MarkerIsIdle
  BY DEF GcInv
<1>2. gc_stack_overflow' \in BOOLEAN /\ free_tail' \in BOOLEAN
  BY <1>1, Zenon DEF StartSweep, TypeOK, marker
<1>3. /\ UNCHANGED <<heap, req, stop>> /\ UNCHANGED <<block, word, gc_block_stack>>
      /\ cursor' = 0 /\ cursor' \in 0 .. NBlocks /\ last_used_block' \in 0 .. NBlocks
      /\ root' \in 0 .. NROOTS + 1
      /\ pc = "overflow" /\ pc' = "sweep" /\ ~Marking
  BY <1>1, HeapSize DEF StartSweep, TypeOK, marker, MarkerIsIdle
<1> QED BY <1>2, <1>3, PhaseInv

-----------------------------------------------------------------------------
(* The sweep *)

LEMMA SweepEnd ==
  ASSUME TypeOK
  PROVE  /\ EndBlock \in 1 .. NBlocks
         /\ \A b \in Block : b <= gc_last_used_block => b < EndBlock
  BY HeapSize DEF TypeOK, EndBlock, Block

LEMMA SweepBlockInv == ASSUME GcInv, SweepBlock PROVE GcInv'
<1> USE HeapSize, Constants
<1>0. /\ TypeOK /\ GapIsFree /\ UsedBlocksBelow /\ NoFreeBlockBeforeIndex
      /\ NoMarks /\ TailsFollow /\ SweptSoFar /\ RequestIsPending /\ MarkerIsIdle
      /\ FrameIsKept
  BY DEF GcInv
<1>1. /\ pc = "sweep" /\ pc' = "sweep" /\ cursor < EndBlock /\ cursor' = cursor + 1
      /\ UNCHANGED <<mem, roots, gc_last_free_atb_index, gc_last_used_block, req>>
      /\ UNCHANGED <<root, block, stop, word, gc_block_stack>>
  BY DEF SweepBlock, marker
<1>2. /\ cursor \in Block /\ cursor' \in 0 .. NBlocks /\ EndBlock' = EndBlock
      /\ cursor' <= EndBlock /\ EndBlock \in 1 .. NBlocks
  BY <1>0, <1>1, SweepEnd DEF TypeOK, Block, EndBlock
<1>3. \/ /\ atb[cursor] \in {"HEAD", "TAIL"}
         /\ atb' = [atb EXCEPT ![cursor] = "FREE"]
         /\ UNCHANGED last_used_block
      \/ /\ atb[cursor] = "TAIL" /\ last_used_block' = cursor /\ UNCHANGED atb
      \/ /\ atb[cursor] = "MARK" /\ atb' = [atb EXCEPT ![cursor] = "HEAD"]
         /\ last_used_block' = cursor
      \/ atb[cursor] = "FREE" /\ UNCHANGED <<atb, last_used_block>>
  BY DEF SweepBlock
<1>4. /\ atb' \in [0 .. NBlocks -> Kind]
      /\ \A x \in 0 .. NBlocks : x # cursor => atb'[x] = atb[x]
      /\ atb'[cursor] # "MARK" /\ (atb[cursor] = "FREE" => atb'[cursor] = "FREE")
      /\ atb[cursor] = "MARK" => atb'[cursor] = "HEAD"
      /\ last_used_block' \in {last_used_block, cursor}
      /\ atb'[cursor] # "FREE" => last_used_block' = cursor
  BY <1>0, <1>2, <1>3 DEF TypeOK, Kind, Block
<1>5. SweptSoFar
  BY <1>0
<1>6. TypeOK'
  <2>1. /\ mem' \in [Block -> [Index -> Word]] /\ roots' \in [Slots -> Word]
        /\ gc_last_free_atb_index' \in 0 .. ATB_LEN
        /\ gc_last_used_block' \in 0 .. NBlocks
        /\ pc' \in {"mutator", "roots", "overflow", "rescan", "sweep", "retry"}
        /\ req' \in Request /\ root' \in 0 .. NROOTS + 1
        /\ block' \in Word /\ stop' \in 0 .. NBlocks /\ word' \in Index
        /\ gc_block_stack' \in Seq(Block)
        /\ Len(gc_block_stack') <= MICROPY_ALLOC_GC_STACK_SIZE
    BY <1>0, <1>1 DEF TypeOK
  <2>2. last_used_block' \in 0 .. NBlocks
    BY <1>0, <1>2, <1>4 DEF TypeOK, Block
  <2>3. gc_stack_overflow' \in BOOLEAN /\ free_tail' \in BOOLEAN
    <3>1. gc_stack_overflow \in BOOLEAN /\ free_tail \in BOOLEAN
      BY <1>0, Zenon DEF TypeOK
    <3> QED BY <3>1, Zenon DEF SweepBlock, marker
  <2> QED BY <1>2, <1>4, <2>1, <2>2, <2>3, Zenon DEF TypeOK
<1>7. (GapIsFree /\ NoFreeBlockBeforeIndex /\ NoMarks /\ RequestIsPending /\ MarkerIsIdle)'
  BY <1>0, <1>1, <1>2, <1>4
  DEF GapIsFree, NoFreeBlockBeforeIndex, NoMarks, RequestIsPending, MarkerIsIdle, Marking, Block
<1>8. UsedBlocksBelow'
  <2> SUFFICES ASSUME NEW x \in Block, atb'[x] # "FREE" PROVE x <= gc_last_used_block
    BY <1>1 DEF UsedBlocksBelow
  <2>1. atb[x] # "FREE"
    BY <1>2, <1>4 DEF Block
  <2> QED BY <1>0, <2>1 DEF UsedBlocksBelow
<1>9. SweptSoFar'
  <2>1. ASSUME NEW x \in Block, x < cursor'
        PROVE  atb'[x] # "MARK" /\ (atb'[x] # "FREE" => x <= last_used_block')
    <3>1. CASE x = cursor
      BY <1>2, <1>4, <3>1 DEF Block
    <3>2. CASE x # cursor
      <4>1. x < cursor /\ atb'[x] = atb[x]
        BY <1>1, <1>2, <1>4, <2>1, <3>2 DEF Block
      <4>2. atb[x] # "MARK" /\ (atb[x] # "FREE" => x <= last_used_block)
        BY <1>1, <1>5, <4>1 DEF SweptSoFar
      <4>3. x \in Nat /\ cursor \in Nat
        BY <1>2 DEF Block
      <4> QED BY <1>4, <4>1, <4>2, <4>3
    <3> QED BY <3>1, <3>2
  <2> QED BY <1>2, <2>1 DEF SweptSoFar
<1>10. TailsFollow'
  <2> SUFFICES ASSUME NEW x \in Block, atb'[x] = "TAIL"
               PROVE  x > 0 /\ (atb'[x - 1] # "FREE" \/ (x = cursor' /\ free_tail'))
    BY <1>1 DEF TailsFollow
  <2>1. atb[x] = "TAIL"
    BY <1>2, <1>3, <1>4 DEF Block, TypeOK
  <2>2. x > 0 /\ (atb[x - 1] # "FREE" \/ (x = cursor /\ free_tail))
    BY <1>0, <2>1 DEF TailsFollow
  <2>3. ~(x = cursor /\ free_tail)
    <3> SUFFICES ASSUME x = cursor, free_tail PROVE FALSE
      OBVIOUS
    <3>1. atb' = [atb EXCEPT ![cursor] = "FREE"]
      BY <2>1 DEF SweepBlock
    <3>2. atb'[cursor] = "FREE"
      BY <1>0, <1>2, <3>1 DEF TypeOK, Block
    <3> QED BY <3>2
  <2>4. CASE x - 1 # cursor
    BY <1>2, <1>4, <2>2, <2>3, <2>4 DEF Block
  <2>5. CASE x - 1 = cursor
    <3>1. x = cursor'
      BY <1>1, <1>2, <2>5 DEF Block
    <3>2. atb[cursor] # "FREE"
      BY <1>2, <2>2, <2>3, <2>5
    <3>3. atb'[cursor] # "FREE" \/ free_tail'
      BY <1>2, <1>4, <3>2 DEF SweepBlock
    <3> QED BY <2>2, <2>5, <3>1, <3>3
  <2> QED BY <2>4, <2>5
<1>11. FrameIsKept'
  <2> SUFFICES ASSUME roots[FRAME] # NoPtr
               PROVE  /\ atb'[roots[FRAME]] \in {"HEAD", "MARK"}
                      /\ atb'[roots[FRAME]] = "MARK" \/ roots[FRAME] < cursor'
    BY <1>1 DEF FrameIsKept
  <2>1. roots[FRAME] \in Block
    BY <1>0, FrameBlock
  <2>2. /\ atb[roots[FRAME]] \in {"HEAD", "MARK"}
        /\ atb[roots[FRAME]] = "MARK" \/ roots[FRAME] < cursor
    BY <1>0, <1>1 DEF FrameIsKept
  <2>3. CASE roots[FRAME] = cursor
    BY <1>1, <1>2, <1>4, <2>2, <2>3 DEF Block
  <2>4. CASE roots[FRAME] # cursor
    BY <1>1, <1>2, <1>4, <2>1, <2>2, <2>4 DEF Block
  <2> QED BY <2>3, <2>4
<1> QED BY <1>6, <1>7, <1>8, <1>9, <1>10, <1>11 DEF GcInv

LEMMA SweepDoneInv == ASSUME GcInv, SweepDone PROVE GcInv'
<1> USE HeapSize, Constants
<1>0. /\ TypeOK /\ GapIsFree /\ UsedBlocksBelow /\ NoFreeBlockBeforeIndex
      /\ NoMarks /\ TailsFollow /\ SweptSoFar /\ RequestIsPending /\ MarkerIsIdle
      /\ FrameIsKept
  BY DEF GcInv
<1>1. /\ pc = "sweep" /\ cursor = EndBlock /\ pc' = "retry"
      /\ gc_last_used_block' = last_used_block /\ gc_last_free_atb_index' = 0
      /\ cursor' = 0 /\ last_used_block' = 0
      /\ UNCHANGED <<atb, mem, roots, req, root, block, stop, word, gc_block_stack>>
  BY DEF SweepDone, marker
<1>2. \A x \in Block :
        atb[x] # "MARK" /\ (atb[x] # "FREE" => x < EndBlock /\ x <= last_used_block)
  <2> TAKE x \in Block
  <2>1. atb[x] # "FREE" => x < EndBlock
    BY <1>0, SweepEnd DEF UsedBlocksBelow
  <2>2. x < cursor => atb[x] # "MARK" /\ (atb[x] # "FREE" => x <= last_used_block)
    BY <1>0, <1>1 DEF SweptSoFar
  <2> QED BY <1>1, <2>1, <2>2
<1>3. TypeOK'
  <2>1. /\ atb' \in [0 .. NBlocks -> Kind]
        /\ mem' \in [Block -> [Index -> Word]] /\ roots' \in [Slots -> Word]
        /\ gc_last_free_atb_index' \in 0 .. ATB_LEN
        /\ gc_last_used_block' \in 0 .. NBlocks
        /\ pc' \in {"mutator", "roots", "overflow", "rescan", "sweep", "retry"}
        /\ req' \in Request /\ root' \in 0 .. NROOTS + 1
        /\ block' \in Word /\ stop' \in 0 .. NBlocks /\ word' \in Index
        /\ gc_block_stack' \in Seq(Block)
        /\ Len(gc_block_stack') <= MICROPY_ALLOC_GC_STACK_SIZE
        /\ cursor' \in 0 .. NBlocks /\ last_used_block' \in 0 .. NBlocks
    BY <1>0, <1>1 DEF TypeOK
  <2>2. gc_stack_overflow' \in BOOLEAN /\ free_tail' \in BOOLEAN
    <3>1. gc_stack_overflow \in BOOLEAN
      BY <1>0, Zenon DEF TypeOK
    <3> QED BY <3>1, Zenon DEF SweepDone, marker
  <2> QED BY <2>1, <2>2, Zenon DEF TypeOK
<1>4. (GapIsFree /\ UsedBlocksBelow /\ NoMarks)'
  BY <1>0, <1>1, <1>2 DEF GapIsFree, UsedBlocksBelow, NoMarks
<1>5. NoFreeBlockBeforeIndex'
  BY <1>1 DEF NoFreeBlockBeforeIndex, Block
<1>6. TailsFollow'
  <2> SUFFICES ASSUME NEW x \in Block, atb[x] = "TAIL" PROVE x > 0 /\ atb[x - 1] # "FREE"
    BY <1>1 DEF TailsFollow
  <2>1. x # cursor
    <3>1. x < EndBlock /\ EndBlock \in 1 .. NBlocks
      BY <1>0, <1>2, SweepEnd
    <3> QED BY <1>1, <3>1 DEF Block
  <2> QED BY <1>0, <2>1 DEF TailsFollow
<1>7. (SweptSoFar /\ RequestIsPending /\ MarkerIsIdle)'
  BY <1>0, <1>1 DEF SweptSoFar, RequestIsPending, MarkerIsIdle, Marking
<1>8. FrameIsKept'
  BY <1>0, <1>1 DEF FrameIsKept
<1> QED BY <1>3, <1>4, <1>5, <1>6, <1>7, <1>8 DEF GcInv

-----------------------------------------------------------------------------
(* The objects of the heap. *)

(* A set of numbers that is not empty has a least and, if bounded, a       *)
(* greatest member.                                                        *)
LEMMA LeastNumber ==
  ASSUME NEW S \in SUBSET Nat, S # {}
  PROVE  \E x \in S : \A y \in S : x <= y
<1>1. PICK x \in S : \A y \in S : <<y, x>> \notin OpToRel(<, Nat)
  BY NatLessThanWellFounded, WFMin
<1>2. \A y \in S : ~(y < x)
  BY <1>1 DEF OpToRel
<1> QED BY <1>2

LEMMA GreatestNumber ==
  ASSUME NEW m \in Nat, NEW S \in SUBSET (0 .. m), S # {}
  PROVE  \E x \in S : \A y \in S : y <= x
<1> DEFINE T == {m - y : y \in S}
<1>1. T \in SUBSET Nat /\ T # {}
  <2>1. PICK y \in S : TRUE
    OBVIOUS
  <2>2. m - y \in T
    OBVIOUS
  <2>3. \A z \in S : m - z \in Nat
    OBVIOUS
  <2> QED BY <2>2, <2>3
<1>2. PICK d \in T : \A z \in T : d <= z
  BY <1>1, LeastNumber
<1>3. PICK x \in S : d = m - x
  BY <1>2
<1>4. ASSUME NEW y \in S PROVE y <= x
  <2>1. m - y \in T
    OBVIOUS
  <2>2. m - x <= m - y
    BY <1>2, <1>3, <2>1
  <2> QED BY <2>2
<1> QED BY <1>3, <1>4

-----------------------------------------------------------------------------
(* The chains of a table *)

WholeTable(t) ==
  /\ t \in [0 .. NBlocks -> Kind]
  /\ t[NBlocks] = "FREE"
  /\ \A b \in Block : t[b] = "TAIL" => b > 0 /\ t[b - 1] # "FREE"

IsChain(t, b, e) ==
  /\ t[b] \in {"HEAD", "MARK"}
  /\ b < e /\ t[e] # "TAIL"
  /\ \A k \in b + 1 .. e - 1 : t[k] = "TAIL"

Chains(t) == {o \in Block \X (1 .. NBlocks) : IsChain(t, o[1], o[2])}

LEMMA ChainPairs ==
  ASSUME NEW t
  PROVE  /\ \A o \in Chains(t) : /\ o[1] \in Block /\ o[2] \in 1 .. NBlocks
                                 /\ o = <<o[1], o[2]>> /\ IsChain(t, o[1], o[2])
         /\ \A b \in Block, e \in 1 .. NBlocks :
              IsChain(t, b, e) => <<b, e>> \in Chains(t)
  BY DEF Chains

(* A chain is known by its head and by its end. *)
LEMMA ChainIsUnique ==
  ASSUME NEW t, NEW b \in Block, NEW e \in 1 .. NBlocks,
         NEW c \in Block, NEW f \in 1 .. NBlocks,
         IsChain(t, b, e), IsChain(t, c, f), b = c \/ e = f
  PROVE  b = c /\ e = f
<1> USE HeapSize DEF IsChain, Block
<1>1. CASE b = c
  <2>1. ~(e < f)
    BY <1>1
  <2>2. ~(f < e)
    BY <1>1
  <2> QED BY <1>1, <2>1, <2>2
<1>2. CASE e = f
  <2>1. ~(b < c)
    BY <1>2
  <2>2. ~(c < b)
    BY <1>2
  <2> QED BY <1>2, <2>1, <2>2
<1> QED BY <1>1, <1>2

(* Every block in use is in a chain, and a chain is made of such blocks. *)
LEMMA CellsAreUsed ==
  ASSUME NEW t, NEW b \in Block, NEW e \in 1 .. NBlocks, IsChain(t, b, e),
         NEW k \in b .. e - 1
  PROVE  t[k] # "FREE"
  BY HeapSize DEF IsChain, Block

LEMMA UsedIsInChain ==
  ASSUME NEW t, WholeTable(t), NEW k \in Block, t[k] # "FREE"
  PROVE  \E b \in Block, e \in 1 .. NBlocks : IsChain(t, b, e) /\ k \in b .. e - 1
<1> USE HeapSize
<1> DEFINE H == {b \in 0 .. k : t[b] # "TAIL"}
           E == {e \in k + 1 .. NBlocks : t[e] # "TAIL"}
<1>1. 0 \in H
  BY DEF WholeTable, Block
<1>2. k \in Nat /\ H \in SUBSET (0 .. k) /\ H # {}
  BY <1>1 DEF Block
<1>3. PICK b \in H : \A y \in H : y <= b
  <2> HIDE DEF H
  <2> QED BY <1>2, GreatestNumber
<1>4. NBlocks \in E
  BY DEF WholeTable, Block
<1>5. E \in SUBSET Nat /\ E # {}
  BY <1>4 DEF Block
<1>6. PICK e \in E : \A y \in E : e <= y
  <2> HIDE DEF E
  <2> QED BY <1>5, LeastNumber
<1>7. b \in Block /\ e \in 1 .. NBlocks /\ b <= k /\ k < e /\ t[e] # "TAIL" /\ t[b] # "TAIL"
  BY <1>3, <1>6 DEF Block
<1>8. \A x \in b + 1 .. e - 1 : t[x] = "TAIL"
  BY <1>3, <1>6, <1>7 DEF Block
<1>9. t[b] # "FREE"
  <2>1. CASE b = k
    BY <2>1
  <2>2. CASE b < k
    <3>1. b + 1 \in Block /\ t[b + 1] = "TAIL"
      BY <1>7, <1>8, <2>2 DEF Block
    <3>2. (b + 1) - 1 = b
      BY <1>7 DEF Block
    <3> QED BY <3>1, <3>2 DEF WholeTable
  <2> QED BY <1>7, <2>1, <2>2 DEF Block
<1>10. t[b] \in {"HEAD", "MARK"}
  BY <1>7, <1>9 DEF WholeTable, Kind, Block
<1>11. IsChain(t, b, e) /\ k \in b .. e - 1
  BY <1>7, <1>8, <1>10 DEF IsChain, Block
<1> QED BY <1>7, <1>11

(* What the operations do to the chains: a run of free blocks becomes one, *)
(* the end of one is freed, or one goes on into free blocks.               *)
LEMMA TakenChains ==
  ASSUME NEW t, WholeTable(t), NEW b \in Block, NEW n \in 1 .. NBlocks,
         b + n <= NBlocks, \A x \in b .. b + n - 1 : t[x] = "FREE",
         NEW u,
         \A x \in 0 .. NBlocks :
           u[x] = IF x = b THEN "HEAD"
                  ELSE IF x \in b .. b + n - 1 THEN "TAIL" ELSE t[x]
  PROVE  \A h \in Block, e \in 1 .. NBlocks :
           IsChain(u, h, e) <=> IsChain(t, h, e) \/ (h = b /\ e = b + n)
<1> USE HeapSize DEF Block
<1>1. t[b + n] # "TAIL"
  <2>1. CASE b + n = NBlocks
    BY <2>1 DEF WholeTable
  <2>2. CASE b + n < NBlocks
    <3>1. (b + n) - 1 \in b .. b + n - 1
      OBVIOUS
    <3> QED BY <2>2, <3>1 DEF WholeTable
  <2> QED BY <2>1, <2>2
<1>2. IsChain(u, b, b + n)
  BY <1>1 DEF IsChain
<1>3. ASSUME NEW h \in Block, NEW e \in 1 .. NBlocks, IsChain(t, h, e)
      PROVE  IsChain(u, h, e)
  <2>1. \A x \in h .. e - 1 : x \notin b .. b + n - 1
    BY <1>3 DEF IsChain
  <2>2. e \notin b + 1 .. b + n - 1
    <3> SUFFICES ASSUME e \in b + 1 .. b + n - 1 PROVE FALSE
      OBVIOUS
    <3>1. e - 1 \in h .. e - 1 /\ e - 1 \in b .. b + n - 1
      BY <1>3 DEF IsChain
    <3> QED BY <2>1, <3>1
  <2> QED BY <1>3, <2>1, <2>2 DEF IsChain
<1>4. ASSUME NEW h \in Block, NEW e \in 1 .. NBlocks, IsChain(u, h, e), h # b
      PROVE  IsChain(t, h, e)
  <2>1. h \notin b .. b + n - 1
    BY <1>4 DEF IsChain
  <2>2. b \notin h + 1 .. e - 1
    BY <1>4 DEF IsChain
  <2>3. \A x \in h .. e - 1 : x \notin b .. b + n - 1
    BY <1>4, <2>1, <2>2 DEF IsChain
  <2>4. e \notin b + 1 .. b + n - 1
    BY <1>4, <2>1, <2>2 DEF IsChain
  <2> QED BY <1>4, <2>3, <2>4 DEF IsChain
<1>5. ASSUME NEW e \in 1 .. NBlocks, IsChain(u, b, e)
      PROVE  e = b + n
  <2>1. b + n \in 1 .. NBlocks
    OBVIOUS
  <2> QED BY <1>2, <1>5, <2>1, ChainIsUnique
<1> QED BY <1>2, <1>3, <1>4, <1>5

(* From k on the chain b to e is freed: all of it, or its end. *)
LEMMA FreedChains ==
  ASSUME NEW t, WholeTable(t), NEW b \in Block, NEW e \in b + 1 .. NBlocks,
         IsChain(t, b, e), NEW k \in b .. e - 1,
         NEW u, u \in [0 .. NBlocks -> Kind],
         \A x \in 0 .. NBlocks : u[x] = IF x \in k .. e - 1 THEN "FREE" ELSE t[x]
  PROVE  /\ WholeTable(u)
         /\ \A h \in Block, f \in 1 .. NBlocks :
              IsChain(u, h, f) <=> \/ IsChain(t, h, f) /\ ~(h = b /\ f = e)
                                   \/ h = b /\ f = k /\ k > b
<1> USE HeapSize DEF Block
<1>1. WholeTable(u)
  BY DEF WholeTable, IsChain
<1>2. ASSUME NEW h \in Block, NEW f \in 1 .. NBlocks, IsChain(t, h, f), h # b
      PROVE  IsChain(u, h, f)
  <2>1. \A x \in h .. f - 1 : x \notin b .. e - 1
    <3>1. CASE h < b
      <4>1. b \notin h + 1 .. f - 1
        BY <1>2 DEF IsChain
      <4> QED BY <3>1, <4>1
    <3>2. CASE h > b
      <4>1. h \notin b + 1 .. e - 1
        BY <1>2 DEF IsChain
      <4> QED BY <3>2, <4>1
    <3>3. h < b \/ h > b
      BY <1>2
    <3> QED BY <3>1, <3>2, <3>3
  <2> QED BY <1>2, <2>1 DEF IsChain
<1>3. ASSUME NEW h \in Block, NEW f \in 1 .. NBlocks, IsChain(u, h, f), h # b
      PROVE  IsChain(t, h, f)
  <2>1. h \notin b .. e - 1
    BY <1>3 DEF IsChain
  <2>2. b \notin h + 1 .. f - 1
    BY <1>3 DEF IsChain
  <2>3. \A x \in h .. f - 1 : x \notin b .. e - 1
    BY <2>1, <2>2
  <2>4. f \notin b + 1 .. e - 1
    BY <1>3, <2>1, <2>2 DEF IsChain
  <2> QED BY <1>3, <2>3, <2>4 DEF IsChain
<1>4. ASSUME NEW f \in 1 .. NBlocks, IsChain(u, b, f)
      PROVE  f = k /\ k > b
  <2>1. k > b
    BY <1>4 DEF IsChain
  <2>2. ~(f > k)
    BY <1>4, <2>1 DEF IsChain
  <2>3. ~(f < k)
    BY <1>4, <2>1 DEF IsChain
  <2> QED BY <2>1, <2>2, <2>3
<1>5. k > b => IsChain(u, b, k)
  BY DEF IsChain
<1>6. \A f \in 1 .. NBlocks : IsChain(t, b, f) => f = e
  BY ChainIsUnique
<1>7. ASSUME NEW h \in Block, NEW f \in 1 .. NBlocks, h = b
      PROVE  IsChain(u, h, f) <=> \/ IsChain(t, h, f) /\ ~(h = b /\ f = e)
                                  \/ h = b /\ f = k /\ k > b
  BY <1>4, <1>5, <1>6, <1>7
<1> QED BY <1>1, <1>2, <1>3, <1>7

(* The chain b to e goes on to g. *)
GoesOn(t, u, b, e, g) ==
  /\ WholeTable(t) /\ IsChain(t, b, e)
  /\ e \in b + 1 .. NBlocks /\ g \in e + 1 .. NBlocks
  /\ \A x \in e .. g - 1 : t[x] = "FREE"
  /\ \A x \in 0 .. NBlocks : u[x] = IF x \in e .. g - 1 THEN "TAIL" ELSE t[x]

LEMMA GrownChains ==
  ASSUME NEW t, NEW u, NEW b \in Block, NEW e, NEW g, GoesOn(t, u, b, e, g)
  PROVE  \A h \in Block, f \in 1 .. NBlocks :
           IsChain(u, h, f) <=> \/ IsChain(t, h, f) /\ ~(h = b /\ f = e)
                                \/ h = b /\ f = g
<1> USE HeapSize DEF Block
<1>0. /\ WholeTable(t) /\ IsChain(t, b, e)
      /\ e \in b + 1 .. NBlocks /\ g \in e + 1 .. NBlocks
      /\ \A x \in e .. g - 1 : t[x] = "FREE"
      /\ \A x \in 0 .. NBlocks : u[x] = IF x \in e .. g - 1 THEN "TAIL" ELSE t[x]
  BY DEF GoesOn
<1> USE <1>0
<1>1. t[g] # "TAIL"
  <2>1. CASE g = NBlocks
    BY <2>1 DEF WholeTable
  <2>2. CASE g < NBlocks
    <3>1. g - 1 \in e .. g - 1
      OBVIOUS
    <3> QED BY <2>2, <3>1 DEF WholeTable
  <2> QED BY <2>1, <2>2
<1>2. IsChain(u, b, g)
  BY <1>1 DEF IsChain
<1>3. ASSUME NEW h \in Block, NEW f \in 1 .. NBlocks, IsChain(t, h, f), h # b
      PROVE  IsChain(u, h, f)
  <2>1. \A x \in h .. f - 1 : x \notin e .. g - 1
    BY <1>3 DEF IsChain
  <2>2. f \notin e .. g - 1
    <3> SUFFICES ASSUME f \in e .. g - 1 PROVE FALSE
      OBVIOUS
    <3>1. f - 1 \in h .. f - 1
      BY <1>3 DEF IsChain
    <3>2. f = e
      BY <2>1, <3>1
    <3> QED BY <1>3, <3>2, ChainIsUnique
  <2> QED BY <1>3, <2>1, <2>2 DEF IsChain
<1>4. ASSUME NEW h \in Block, NEW f \in 1 .. NBlocks, IsChain(u, h, f), h # b
      PROVE  IsChain(t, h, f)
  <2>1. h \notin b .. g - 1
    BY <1>4 DEF IsChain
  <2>2. b \notin h + 1 .. f - 1
    BY <1>4 DEF IsChain
  <2>3. \A x \in h .. f - 1 : x \notin b .. g - 1
    BY <2>1, <2>2
  <2>4. f \notin e .. g - 1
    BY <1>4, <2>1, <2>2 DEF IsChain
  <2> QED BY <1>4, <2>3, <2>4 DEF IsChain
<1>5. ASSUME NEW f \in 1 .. NBlocks, IsChain(u, b, f) PROVE f = g
  BY <1>2, <1>5, ChainIsUnique
<1>6. \A f \in 1 .. NBlocks : IsChain(t, b, f) => f = e
  BY ChainIsUnique
<1>7. ASSUME NEW h \in Block, NEW f \in 1 .. NBlocks, h = b
      PROVE  IsChain(u, h, f) <=> \/ IsChain(t, h, f) /\ ~(h = b /\ f = e)
                                  \/ h = b /\ f = g
  BY <1>2, <1>5, <1>6, <1>7
<1> QED BY <1>3, <1>4, <1>7

-----------------------------------------------------------------------------
(* The objects of the heap are the chains of its table. *)

LEMMA TableWhole ==
  ASSUME GcInv, pc # "sweep"
  PROVE  WholeTable(atb)
  BY DEF GcInv, TypeOK, GapIsFree, TailsFollow, WholeTable

LEMMA ObjectsAreChains ==
  ASSUME pc # "sweep" PROVE Objects = Chains(atb)
<1>1. Heads = {b \in Block : atb[b] \in {"HEAD", "MARK"}}
  BY DEF Heads
<1>2. \A o \in Block \X (1 .. NBlocks) :
        o[1] \in Heads /\ o[1] < o[2] /\ Chain(o[1], o[2]) <=> IsChain(atb, o[1], o[2])
  BY <1>1 DEF Chain, IsChain
<1> QED BY <1>2 DEF Objects, Chains

LEMMA ObjectsAreChainsNext ==
  ASSUME pc' # "sweep" PROVE Objects' = Chains(atb')
<1>1. Heads' = {b \in Block : atb'[b] \in {"HEAD", "MARK"}}
  BY DEF Heads
<1>2. \A o \in Block \X (1 .. NBlocks) :
        o[1] \in Heads' /\ o[1] < o[2] /\ Chain(o[1], o[2])' <=> IsChain(atb', o[1], o[2])
  BY <1>1 DEF Chain, IsChain
<1> QED BY <1>2 DEF Objects, Chains

LEMMA FreeBlocksAreFree ==
  ASSUME GcInv, pc # "sweep"
  PROVE  Heap!FreeBlocks = {b \in Block : atb[b] = "FREE"}
<1>1. WholeTable(atb) /\ Objects = Chains(atb)
  BY TableWhole, ObjectsAreChains
<1>2. ASSUME NEW b \in Block, atb[b] = "FREE", NEW o \in Objects
      PROVE  b \notin o[1] .. o[2] - 1
  BY <1>1, <1>2, ChainPairs, CellsAreUsed
<1>3. ASSUME NEW b \in Block, atb[b] # "FREE"
      PROVE  \E o \in Objects : b \in o[1] .. o[2] - 1
  <2>1. PICK h \in Block, e \in 1 .. NBlocks : IsChain(atb, h, e) /\ b \in h .. e - 1
    BY <1>1, <1>3, UsedIsInChain
  <2>2. <<h, e>> \in Objects
    BY <1>1, <2>1, ChainPairs
  <2> QED BY <2>1, <2>2
<1>4. Heap!FreeBlocks = {b \in Block : \A o \in Objects : b \notin o[1] .. o[2] - 1}
  BY DEF Heap!FreeBlocks, Heap!Cells, Heap!Block, Block
<1> QED BY <1>2, <1>3, <1>4

-----------------------------------------------------------------------------
(* The operations of the virtual machine *)

LEMMA SetRootRefines ==
  ASSUME pc # "sweep", pc' # "sweep", NEW s \in Slots, NEW v \in Word,
         roots' = [roots EXCEPT ![s] = v], UNCHANGED <<atb, mem>>
  PROVE  Heap!SetRoot
<1>1. Objects' = Objects
  BY ObjectsAreChains, ObjectsAreChainsNext
<1> QED BY <1>1 DEF Heap!SetRoot, Heap!Word, Word

LEMMA StoreRefines ==
  ASSUME GcInv, NEW b \in Block, NEW w \in Index, NEW v \in Stored, Store(b, w, v)
  PROVE  Heap!Store
<1>1. pc = "mutator" /\ UNCHANGED <<atb, roots, pc>> /\ atb[b] # "FREE"
  BY DEF Store
<1>2. Objects' = Objects
  BY <1>1, ObjectsAreChains, ObjectsAreChainsNext
<1>3. b \in Heap!Block \ Heap!FreeBlocks /\ v \in Heap!Word
  BY <1>1, FreeBlocksAreFree, Constants DEF Heap!Block, Block, Heap!Word, Word
<1> QED BY <1>1, <1>2, <1>3 DEF Heap!Store, Store

LEMMA TakeRefines ==
  ASSUME GcInv, pc \in {"mutator", "retry"}, pc' = "mutator",
         NEW b \in Block, NEW n \in 1 .. NBlocks, NEW s \in 1 .. NROOTS,
         FirstFit(b, n), Take(b, n, s)
  PROVE  Heap!Alloc
<1> USE HeapSize, Constants
<1>1. /\ \A x \in 0 .. NBlocks :
           atb'[x] = IF x = b THEN "HEAD"
                     ELSE IF x \in b .. b + n - 1 THEN "TAIL" ELSE atb[x]
  BY TakenTable DEF GcInv, Take
<1>2. b + n <= NBlocks /\ \A x \in b .. b + n - 1 : atb[x] = "FREE"
  BY DEF FirstFit, FreeRun
<1>3. \A h \in Block, e \in 1 .. NBlocks :
        IsChain(atb', h, e) <=> IsChain(atb, h, e) \/ (h = b /\ e = b + n)
  BY <1>1, <1>2, TableWhole, TakenChains
<1>4. b + n \in 1 .. NBlocks
  BY <1>2 DEF Block
<1>5. Chains(atb') = Chains(atb) \cup {<<b, b + n>>}
  BY <1>3, <1>4, ChainPairs
<1>6. Objects' = Objects \cup {<<b, b + n>>}
  BY <1>5, ObjectsAreChains, ObjectsAreChainsNext
<1>7. b .. (b + n) - 1 \subseteq Heap!FreeBlocks
  BY <1>2, <1>4, FreeBlocksAreFree DEF Block
<1>8. s \in Slots /\ b \in Heap!Block /\ b < b + n
  BY <1>4 DEF Heap!Block, Block, Slots, FRAME
<1>9. mem' = Heap!Clear(mem, b .. (b + n) - 1) /\ roots' = [roots EXCEPT ![s] = b]
  BY DEF Take, Heap!Clear, Clear, Heap!NoPtr, NoPtr, Heap!Block, Block
<1> QED BY <1>4, <1>6, <1>7, <1>8, <1>9 DEF Heap!Alloc

LEMMA FreeRefines ==
  ASSUME GcInv, NEW b \in Block, gc_free(b)
  PROVE  Heap!Free
<1> USE HeapSize, Constants
<1>1. /\ pc = "mutator" /\ pc' = "mutator" /\ atb[b] = "HEAD"
      /\ UNCHANGED <<mem, roots>>
  BY DEF gc_free
<1>2. PICK e \in b + 1 .. NBlocks : Chain(b, e) /\ atb' = Set(atb, b .. e - 1, "FREE")
  BY DEF gc_free
<1>3. IsChain(atb, b, e) /\ e \in 1 .. NBlocks /\ b \in b .. e - 1
  BY <1>1, <1>2 DEF IsChain, Chain, Block
<1>4. /\ atb' \in [0 .. NBlocks -> Kind]
      /\ \A x \in 0 .. NBlocks : atb'[x] = IF x \in b .. e - 1 THEN "FREE" ELSE atb[x]
  BY <1>2 DEF Set, GcInv, TypeOK, Kind
<1>5. \A h \in Block, f \in 1 .. NBlocks :
        IsChain(atb', h, f) <=> IsChain(atb, h, f) /\ ~(h = b /\ f = e)
  <2>1. \A h \in Block, f \in 1 .. NBlocks :
          IsChain(atb', h, f) <=> (IsChain(atb, h, f) /\ ~(h = b /\ f = e))
                                  \/ (h = b /\ f = b /\ b > b)
    BY <1>1, <1>3, <1>4, TableWhole, FreedChains
  <2>2. ~(b > b)
    BY DEF Block
  <2> QED BY <2>1, <2>2
<1>6. Chains(atb') = Chains(atb) \ {<<b, e>>}
  BY <1>5, ChainPairs
<1>7. Objects' = Objects \ {<<b, e>>} /\ <<b, e>> \in Objects
  BY <1>1, <1>3, <1>6, ChainPairs, ObjectsAreChains, ObjectsAreChainsNext
<1> QED BY <1>1, <1>7 DEF Heap!Free

LEMMA ShrinkRefines ==
  ASSUME GcInv, pc = "mutator", UNCHANGED pc,
         NEW b \in Block, NEW e \in b + 1 .. NBlocks, NEW n \in 1 .. NBlocks,
         atb[b] = "HEAD", Chain(b, e), Shrink(b, e, n)
  PROVE  Heap!Resize
<1> USE HeapSize, Constants
<1>1. IsChain(atb, b, e) /\ e \in 1 .. NBlocks
  BY DEF IsChain, Chain, Block
<1>2. n < e - b /\ UNCHANGED <<mem, roots>> /\ atb' = Set(atb, b + n .. e - 1, "FREE")
  BY DEF Shrink
<1>3. b + n \in b .. e - 1 /\ b + n > b /\ b + n \in 1 .. NBlocks
  BY <1>2 DEF Block
<1>4. /\ atb' \in [0 .. NBlocks -> Kind]
      /\ \A x \in 0 .. NBlocks :
           atb'[x] = IF x \in b + n .. e - 1 THEN "FREE" ELSE atb[x]
  BY <1>2 DEF Set, GcInv, TypeOK, Kind
<1>5. \A h \in Block, f \in 1 .. NBlocks :
        IsChain(atb', h, f) <=> (IsChain(atb, h, f) /\ ~(h = b /\ f = e))
                                \/ (h = b /\ f = b + n)
  BY <1>1, <1>3, <1>4, TableWhole, FreedChains
<1>6. Chains(atb') = (Chains(atb) \ {<<b, e>>}) \cup {<<b, b + n>>}
  BY <1>3, <1>5, ChainPairs
<1>7. Objects' = (Objects \ {<<b, e>>}) \cup {<<b, b + n>>} /\ <<b, e>> \in Objects
  BY <1>1, <1>6, ChainPairs, ObjectsAreChains, ObjectsAreChainsNext
<1>8. e .. (b + n) - 1 = {}
  BY <1>2 DEF Block
<1>9. mem' = Heap!Clear(mem, e .. (b + n) - 1)
  BY <1>2, <1>8 DEF Heap!Clear, Heap!Block, Block, GcInv, TypeOK
<1> DEFINE o == <<b, e>>
<1>10. /\ o \in Objects /\ o[1] < b + n /\ o[2] .. (b + n) - 1 \subseteq Heap!FreeBlocks
       /\ Objects' = (Objects \ {o}) \cup {<<o[1], b + n>>}
       /\ mem' = Heap!Clear(mem, o[2] .. (b + n) - 1)
  BY <1>3, <1>7, <1>8, <1>9
<1> HIDE DEF o
<1> QED BY <1>2, <1>3, <1>10 DEF Heap!Resize

LEMMA GrowRefines ==
  ASSUME GcInv, pc = "mutator", UNCHANGED pc,
         NEW b \in Block, NEW e \in b + 1 .. NBlocks, NEW n \in 1 .. NBlocks,
         atb[b] = "HEAD", Chain(b, e), Grow(b, e, n)
  PROVE  Heap!Resize
<1> USE HeapSize, Constants
<1>1. IsChain(atb, b, e) /\ e \in 1 .. NBlocks
  BY DEF IsChain, Chain, Block
<1>2. /\ n > e - b /\ UNCHANGED roots /\ atb' = Set(atb, e .. b + n - 1, "TAIL")
      /\ mem' = Clear(mem, e .. b + n - 1)
      /\ FreeRun(e, n - (e - b))
  BY DEF Grow, CanGrow
<1>3. e + (n - (e - b)) = b + n
  BY DEF Block
<1>4. b + n \in e + 1 .. NBlocks /\ \A x \in e .. b + n - 1 : atb[x] = "FREE"
  BY <1>2, <1>3 DEF FreeRun, Block
<1>5. /\ atb' \in [0 .. NBlocks -> Kind]
      /\ \A x \in 0 .. NBlocks :
           atb'[x] = IF x \in e .. b + n - 1 THEN "TAIL" ELSE atb[x]
  BY <1>2 DEF Set, GcInv, TypeOK, Kind
<1>6. \A h \in Block, f \in 1 .. NBlocks :
        IsChain(atb', h, f) <=> (IsChain(atb, h, f) /\ ~(h = b /\ f = e))
                                \/ (h = b /\ f = b + n)
  <2>1. WholeTable(atb)
    BY TableWhole
  <2>2. GoesOn(atb, atb', b, e, b + n)
    BY <1>1, <1>4, <1>5, <2>1 DEF GoesOn, Block
  <2> QED BY <2>2, GrownChains
<1>7. b + n \in 1 .. NBlocks /\ b < b + n
  BY <1>4 DEF Block
<1>8. Chains(atb') = (Chains(atb) \ {<<b, e>>}) \cup {<<b, b + n>>}
  BY <1>6, <1>7, ChainPairs
<1>9. Objects' = (Objects \ {<<b, e>>}) \cup {<<b, b + n>>} /\ <<b, e>> \in Objects
  BY <1>1, <1>8, ChainPairs, ObjectsAreChains, ObjectsAreChainsNext
<1>10. e .. (b + n) - 1 \subseteq Heap!FreeBlocks
  BY <1>4, FreeBlocksAreFree DEF Block
<1>11. mem' = Heap!Clear(mem, e .. (b + n) - 1)
  BY <1>2 DEF Clear, Heap!Clear, Heap!Block, Block, Heap!NoPtr, NoPtr
<1> DEFINE o == <<b, e>>
<1>12. /\ o \in Objects /\ o[1] < b + n /\ o[2] .. (b + n) - 1 \subseteq Heap!FreeBlocks
       /\ Objects' = (Objects \ {o}) \cup {<<o[1], b + n>>}
       /\ mem' = Heap!Clear(mem, o[2] .. (b + n) - 1)
  BY <1>7, <1>9, <1>10, <1>11
<1> HIDE DEF o
<1> QED BY <1>2, <1>7, <1>12 DEF Heap!Resize

LEMMA MoveRefines ==
  ASSUME GcInv, pc \in {"mutator", "retry"}, pc' = "mutator",
         NEW b \in Block, NEW e \in b + 1 .. NBlocks, NEW n \in 1 .. NBlocks,
         NEW c \in Block, NEW s \in 1 .. NROOTS,
         atb[b] = "HEAD", Chain(b, e), n > e - b, FirstFit(c, n), MoveTo(b, e, e - b, n, c, s)
  PROVE  Heap!Move
<1> USE HeapSize, Constants
<1> DEFINE t == Set(atb, b .. e - 1, "FREE")
<1>1. IsChain(atb, b, e) /\ e \in 1 .. NBlocks /\ b \in b .. e - 1
  BY DEF IsChain, Chain, Block
<1>2. c + n <= NBlocks /\ \A x \in c .. c + n - 1 : atb[x] = "FREE"
  BY DEF FirstFit, FreeRun
<1>3. c + n \in 1 .. NBlocks /\ c < c + n
  BY <1>2 DEF Block
<1>4. /\ t \in [0 .. NBlocks -> Kind]
      /\ \A x \in 0 .. NBlocks : t[x] = IF x \in b .. e - 1 THEN "FREE" ELSE atb[x]
  BY DEF Set, GcInv, TypeOK, Kind
<1>5. atb' = [Set(t, c .. c + n - 1, "TAIL") EXCEPT ![c] = "HEAD"]
  BY DEF MoveTo
<1> HIDE DEF t
<1>6. \A x \in 0 .. NBlocks :
        atb'[x] = IF x = c THEN "HEAD"
                  ELSE IF x \in c .. c + n - 1 THEN "TAIL" ELSE t[x]
  <2> DEFINE u == Set(t, c .. c + n - 1, "TAIL")
  <2>1. /\ u \in [0 .. NBlocks -> Kind]
        /\ \A x \in 0 .. NBlocks : u[x] = IF x \in c .. c + n - 1 THEN "TAIL" ELSE t[x]
    BY <1>4 DEF Set, Kind
  <2>2. c \in 0 .. NBlocks /\ atb' = [u EXCEPT ![c] = "HEAD"]
    BY <1>5 DEF Block
  <2> HIDE DEF u
  <2> QED BY <2>1, <2>2
<1>7. /\ WholeTable(t)
      /\ \A h \in Block, f \in 1 .. NBlocks :
           IsChain(t, h, f) <=> IsChain(atb, h, f) /\ ~(h = b /\ f = e)
  <2>1. WholeTable(t)
        /\ \A h \in Block, f \in 1 .. NBlocks :
          IsChain(t, h, f) <=> (IsChain(atb, h, f) /\ ~(h = b /\ f = e))
                               \/ (h = b /\ f = b /\ b > b)
    <3>1. WholeTable(atb)
      BY TableWhole
    <3> HIDE DEF t
    <3> QED BY <1>1, <1>4, <3>1, FreedChains
  <2>2. ~(b > b)
    BY DEF Block
  <2> QED BY <2>1, <2>2
<1>8. \A x \in c .. c + n - 1 : t[x] = "FREE"
  BY <1>2, <1>3, <1>4 DEF Block
<1>9. \A h \in Block, f \in 1 .. NBlocks :
        IsChain(atb', h, f) <=> IsChain(t, h, f) \/ (h = c /\ f = c + n)
  BY <1>2, <1>6, <1>7, <1>8, TakenChains
<1>10. ~IsChain(atb, c, c + n)
  <2>1. c \in c .. c + n - 1
    BY <1>3 DEF Block
  <2> QED BY <1>2, <2>1 DEF IsChain
<1>11. Chains(atb') = (Chains(atb) \ {<<b, e>>}) \cup {<<c, c + n>>}
  BY <1>3, <1>7, <1>9, ChainPairs
<1>12. Objects' = (Objects \ {<<b, e>>}) \cup {<<c, c + n>>} /\ <<b, e>> \in Objects
  BY <1>1, <1>11, ChainPairs, ObjectsAreChains, ObjectsAreChainsNext
<1>13. c .. (c + n) - 1 \subseteq Heap!FreeBlocks
  BY <1>2, <1>3, FreeBlocksAreFree DEF Block
<1>14. s \in Slots /\ FRAME \in Slots /\ c \in Heap!Block
  BY DEF Heap!Block, Block, Slots, FRAME
<1>15. e - b < (c + n) - c
  BY DEF Block
<1>16. mem' = [x \in Heap!Block |->
                 IF x \in c .. (c + e - b - 1) THEN mem[x - c + b]
                 ELSE Heap!Clear(mem, c .. (c + n) - 1)[x]]
  <2>1. mem' = [k \in Block |->
               IF k \in c .. c + (e - b) - 1 THEN mem[k - c + b]
               ELSE Clear(mem, c .. c + n - 1)[k]]
    BY DEF MoveTo
  <2>2. c + (e - b) - 1 = c + e - b - 1
    BY DEF Block
  <2>3. Clear(mem, c .. c + n - 1) = Heap!Clear(mem, c .. (c + n) - 1) /\ Heap!Block = Block
    BY DEF Clear, Heap!Clear, Heap!Block, Block, Heap!NoPtr, NoPtr
  <2> QED BY <2>1, <2>2, <2>3
<1>17. roots' = [roots EXCEPT ![FRAME] = Heap!NoPtr, ![s] = c]
  BY DEF MoveTo, Heap!NoPtr, NoPtr
<1> DEFINE o == <<b, e>>
<1>18. /\ o \in Objects
       /\ c < c + n /\ c .. (c + n) - 1 \subseteq Heap!FreeBlocks
       /\ o[2] - o[1] < (c + n) - c
       /\ Objects' = (Objects \ {o}) \cup {<<c, c + n>>}
       /\ mem' = [x \in Heap!Block |->
                    IF x \in c .. (c + o[2] - o[1] - 1) THEN mem[x - c + o[1]]
                    ELSE Heap!Clear(mem, c .. (c + n) - 1)[x]]
  BY <1>3, <1>12, <1>13, <1>15, <1>16
<1> HIDE DEF o
<1> QED BY <1>3, <1>14, <1>17, <1>18 DEF Heap!Move

-----------------------------------------------------------------------------
(* What is reachable *)

LEMMA ReachableObjects == Heap!Reachable \subseteq Objects
  BY DEF Heap!Reachable

LEMMA RootIsReachable ==
  ASSUME NEW o \in Objects, NEW s \in Slots, roots[s] = o[1]
  PROVE  o \in Heap!Reachable
  BY DEF Heap!Reachable, Heap!Closed

LEMMA WordIsReachable ==
  ASSUME NEW p \in Heap!Reachable, NEW o \in Objects,
         NEW b \in Block, b \in p[1] .. p[2] - 1, NEW w \in Index, mem[b][w] = o[1]
  PROVE  o \in Heap!Reachable
<1> SUFFICES ASSUME NEW S \in SUBSET Objects, Heap!Closed(Objects, S)
             PROVE  o \in S
  BY DEF Heap!Reachable
<1>1. p \in S
  BY DEF Heap!Reachable
<1>2. b \in Heap!Block /\ b \in Heap!Cells(p)
  BY DEF Heap!Block, Block, Heap!Cells
<1> QED BY <1>1, <1>2 DEF Heap!Closed

LEMMA ClosedHoldsReachable ==
  ASSUME NEW M \in SUBSET Objects, Heap!Closed(Objects, M)
  PROVE  Heap!Reachable \subseteq M
  BY DEF Heap!Reachable

LEMMA ReachableStays ==
  ASSUME Objects' = Objects, UNCHANGED <<mem, roots>>
  PROVE  Heap!Reachable' = Heap!Reachable
<1>1. \A S : Heap!Closed(Objects, S)' <=> Heap!Closed(Objects, S)
  BY DEF Heap!Closed
<1> QED BY <1>1 DEF Heap!Reachable

-----------------------------------------------------------------------------
(* MarkInv while the virtual machine runs, and when a collection starts *)

LEMMA MarkerOff ==
  ASSUME GcInv, MarkInv, pc \notin {"roots", "rescan"}
  PROVE  ~Marking /\ gc_block_stack = << >>
  BY DEF GcInv, MarkerIsIdle, MarkInv, StackIsIdle

LEMMA InitMark == Init => MarkInv
<1> SUFFICES ASSUME Init PROVE MarkInv
  OBVIOUS
<1> QED
  BY DEF Init, MarkInv, StackIsIdle, StackIsMarked, ReadsMarked, RootsAreMarked,
         FreesTails, FrameKeepsLength, MarksAreTraced, MarksAreReachable, Marking

LEMMA MutatorMark ==
  ASSUME GcInv, MarkInv, pc \in {"mutator", "retry"}, pc' = "mutator", UNCHANGED marker
  PROVE  MarkInv'
<1>1. stop' = 0 /\ gc_block_stack' = << >>
  BY MarkerOff DEF Marking, marker
<1> QED
  BY <1>1 DEF MarkInv, StackIsIdle, StackIsMarked, ReadsMarked, RootsAreMarked,
         FreesTails, FrameKeepsLength, MarksAreTraced, MarksAreReachable, Marking

LEMMA StartCollectMark ==
  ASSUME GcInv, MarkInv, pc = "mutator", NEW n \in 1 .. NBlocks, NEW s,
         NEW old, StartCollect(n, s, old),
         \A o \in Objects : o[1] = roots'[FRAME] => o[2] - o[1] = old /\ old < n
  PROVE  MarkInv'
<1> USE HeapSize, Constants
<1>1. stop' = 0 /\ gc_block_stack' = << >>
  BY MarkerOff DEF Marking, StartCollect
<1>2. pc' = "roots" /\ root' = 0 /\ atb' = atb /\ req' = [n |-> n, slot |-> s, old |-> old]
  BY DEF StartCollect
<1>3. Objects' = Objects
  BY <1>2, ObjectsAreChains, ObjectsAreChainsNext
<1>4. \A o \in Objects : atb'[o[1]] # "MARK"
  <2>1. \A b \in Block : atb[b] # "MARK"
    BY DEF GcInv, NoMarks
  <2> QED BY <1>2, <2>1 DEF Objects
<1>5. (StackIsIdle /\ StackIsMarked /\ ReadsMarked /\ FreesTails)'
  BY <1>1, <1>2 DEF StackIsIdle, StackIsMarked, ReadsMarked, FreesTails, Marking
<1>6. RootsAreMarked'
  BY <1>2 DEF RootsAreMarked, Slots, FRAME
<1>7. FrameKeepsLength'
  BY <1>2, <1>3 DEF FrameKeepsLength
<1>8. (MarksAreTraced /\ MarksAreReachable)'
  BY <1>3, <1>4 DEF MarksAreTraced, MarksAreReachable
<1> QED BY <1>5, <1>6, <1>7, <1>8 DEF MarkInv

-----------------------------------------------------------------------------
(* Marking *)

(* A mark changes no chain. *)
LEMMA MarkKeepsObjects ==
  ASSUME TypeOK, pc # "sweep", pc' # "sweep",
         NEW v \in Block, atb[v] = "HEAD", Mark(v)
  PROVE  /\ Objects' = Objects
         /\ \A x \in 0 .. NBlocks : atb'[x] = IF x = v THEN "MARK" ELSE atb[x]
<1>1. \A x \in 0 .. NBlocks : atb'[x] = IF x = v THEN "MARK" ELSE atb[x]
  BY HeapSize DEF Mark, TypeOK, Block
<1>2. \A b \in Block, e \in 1 .. NBlocks : IsChain(atb', b, e) <=> IsChain(atb, b, e)
  BY <1>1, HeapSize DEF IsChain, Block
<1>3. Chains(atb') = Chains(atb)
  <2>1. ASSUME NEW o \in Block \X (1 .. NBlocks)
        PROVE  IsChain(atb', o[1], o[2]) <=> IsChain(atb, o[1], o[2])
    <3>1. o[1] \in Block /\ o[2] \in 1 .. NBlocks
      OBVIOUS
    <3> QED BY <1>2, <3>1, Zenon
  <2> QED BY <2>1, Zenon DEF Chains
<1> QED BY <1>1, <1>3, ObjectsAreChains, ObjectsAreChainsNext

LEMMA ObjectBlocks ==
  ASSUME NEW o \in Objects
  PROVE  /\ o[1] \in Block /\ o[2] \in 1 .. NBlocks /\ o[1] < o[2]
         /\ o = <<o[1], o[2]>>
  BY DEF Objects

(* Objects are told apart by their heads, and by their ends. *)
LEMMA ObjectIsUnique ==
  ASSUME pc # "sweep", NEW o \in Objects, NEW p \in Objects,
         o[1] = p[1] \/ o[2] = p[2]
  PROVE  o = p
<1>1. o \in Chains(atb) /\ p \in Chains(atb)
  BY ObjectsAreChains
<1>2. o[1] = p[1] /\ o[2] = p[2]
  BY <1>1, ChainPairs, ChainIsUnique
<1> QED BY <1>2, ObjectBlocks

LEMMA EnteredObject ==
  ASSUME pc # "sweep", NEW b \in Block, atb[b] \in {"HEAD", "MARK"}, Enter(b)
  PROVE  /\ <<b, stop'>> \in Objects
         /\ block' = b /\ word' = 1 /\ stop' \in b + 1 .. NBlocks /\ stop' # 0
<1> USE HeapSize
<1>1. PICK e \in b + 1 .. NBlocks : Chain(b, e) /\ block' = b /\ stop' = e /\ word' = 1
  BY DEF Enter
<1>2. e \in 1 .. NBlocks /\ b < e
  BY DEF Block
<1>3. IsChain(atb, b, e)
  BY <1>1, <1>2 DEF IsChain, Chain
<1>4. <<b, e>> \in Objects
  BY <1>2, <1>3, ChainPairs, ObjectsAreChains
<1> QED BY <1>1, <1>2, <1>4

LEMMA ScanRootMark == ASSUME GcInv, MarkInv, ScanRoot PROVE MarkInv'
<1> USE HeapSize, Constants
<1>1. /\ pc = "roots" /\ pc' = "roots" /\ ~Marking /\ root \in Slots /\ root' = root + 1
      /\ UNCHANGED <<mem, roots, req, gc_block_stack, gc_stack_overflow, cursor>>
  BY DEF ScanRoot
<1>2. TypeOK /\ gc_block_stack = << >>
  BY <1>1 DEF GcInv, MarkInv, StackIsIdle
<1>3. MarksAreTraced /\ MarksAreReachable /\ RootsAreMarked /\ FrameKeepsLength
  BY DEF MarkInv
<1>4. (StackIsIdle /\ StackIsMarked /\ FreesTails)'
  BY <1>1, <1>2 DEF StackIsIdle, StackIsMarked, FreesTails
<1>5. CASE roots[root] \in Block /\ atb[roots[root]] = "HEAD"
  <2> DEFINE r == roots[root]
  <2>1. r \in Block /\ atb[r] = "HEAD" /\ Mark(r) /\ Enter(r)
    BY <1>5 DEF ScanRoot
  <2>2. /\ Objects' = Objects
        /\ \A x \in 0 .. NBlocks : atb'[x] = IF x = r THEN "MARK" ELSE atb[x]
    BY <1>1, <1>2, <2>1, MarkKeepsObjects
  <2>3. /\ <<r, stop'>> \in Objects
        /\ block' = r /\ word' = 1 /\ stop' \in r + 1 .. NBlocks /\ stop' # 0
    BY <1>1, <2>1, EnteredObject
  <2>4. Heap!Reachable' = Heap!Reachable
    BY <1>1, <2>2, ReachableStays
  <2>5. ReadsMarked'
    <3> DEFINE o == <<r, stop'>>
    <3>1. o \in Objects' /\ atb'[o[1]] = "MARK" /\ o[2] = stop' /\ o[1] <= block' /\ block' <= stop'
      BY <2>1, <2>2, <2>3 DEF Block
    <3> HIDE DEF o
    <3> QED BY <3>1 DEF ReadsMarked
  <2>6. RootsAreMarked'
    <3> SUFFICES ASSUME NEW q \in Slots, q < root + 1, roots[q] \in Block
                 PROVE  atb'[roots[q]] # "HEAD"
      BY <1>1 DEF RootsAreMarked
    <3>1. CASE q = root
      BY <2>1, <2>2, <3>1 DEF Block
    <3>2. CASE q < root
      BY <1>1, <1>3, <2>2, <3>2 DEF RootsAreMarked, Block
    <3> QED BY <1>1, <3>1, <3>2 DEF Slots, FRAME
  <2>7. FrameKeepsLength'
    BY <1>1, <1>3, <2>2 DEF FrameKeepsLength
  <2>8. MarksAreTraced'
    <3> SUFFICES ASSUME NEW o \in Objects, NEW b \in o[1] .. o[2] - 1, NEW w \in Index,
                        atb'[o[1]] = "MARK",
                        mem[b][w] \in Block, atb'[mem[b][w]] = "HEAD"
                 PROVE  \/ Pending(o[1])'
                        \/ /\ Marking' /\ stop' = o[2]
                           /\ block' < b \/ (block' = b /\ word' <= w)
      BY <1>1, <2>2 DEF MarksAreTraced
    <3>1. CASE o[1] = r
      <4>1. o = <<r, stop'>>
        BY <1>1, <2>3, <3>1, ObjectIsUnique
      <4>2. b \in r .. stop' - 1
        BY <4>1
      <4> QED BY <2>1, <2>3, <4>1, <4>2 DEF Marking, Index, Block
    <3>2. CASE o[1] # r
      <4>1. atb[o[1]] = "MARK" /\ atb[mem[b][w]] = "HEAD"
        BY <2>2, <3>2, ObjectBlocks DEF Block
      <4>2. Pending(o[1])
        BY <1>1, <1>3, <4>1 DEF MarksAreTraced
      <4> QED BY <1>1, <4>2 DEF Pending
    <3> QED BY <3>1, <3>2
  <2>9. MarksAreReachable'
    <3> SUFFICES ASSUME NEW o \in Objects, atb'[o[1]] = "MARK"
                 PROVE  o \in Heap!Reachable
      BY <2>2, <2>4 DEF MarksAreReachable
    <3>1. CASE o[1] = r
      BY <1>1, <3>1, RootIsReachable
    <3>2. CASE o[1] # r
      BY <1>1, <1>3, <2>2, <3>2, ObjectBlocks DEF MarksAreReachable, Block
    <3> QED BY <3>1, <3>2
  <2> QED BY <1>4, <2>5, <2>6, <2>7, <2>8, <2>9 DEF MarkInv
<1>6. CASE ~(roots[root] \in Block /\ atb[roots[root]] = "HEAD")
  <2>1. UNCHANGED <<atb, block, stop, word>>
    BY <1>6 DEF ScanRoot
  <2>2. Objects' = Objects
    BY <1>1, <2>1, ObjectsAreChains, ObjectsAreChainsNext
  <2>3. Heap!Reachable' = Heap!Reachable
    BY <1>1, <2>2, ReachableStays
  <2>4. RootsAreMarked'
    <3> SUFFICES ASSUME NEW q \in Slots, q < root + 1, roots[q] \in Block
                 PROVE  atb[roots[q]] # "HEAD"
      BY <1>1, <2>1 DEF RootsAreMarked
    <3>1. CASE q = root
      BY <1>6, <3>1
    <3>2. CASE q < root
      BY <1>1, <1>3, <3>2 DEF RootsAreMarked
    <3> QED BY <1>1, <3>1, <3>2 DEF Slots, FRAME
  <2>5. (ReadsMarked /\ FrameKeepsLength /\ MarksAreTraced /\ MarksAreReachable)'
    BY <1>1, <1>3, <2>1, <2>2, <2>3
    DEF ReadsMarked, FrameKeepsLength, MarksAreTraced, MarksAreReachable, Marking, Pending
  <2> QED BY <1>4, <2>4, <2>5 DEF MarkInv
<1> QED BY <1>5, <1>6

LEMMA ScanWordMark == ASSUME GcInv, MarkInv, ScanWord PROVE MarkInv'
<1> USE HeapSize, Constants
<1>1. /\ Marking /\ block < stop /\ Marking' /\ stop' = stop
      /\ UNCHANGED <<pc, mem, roots, req, root, cursor>>
  BY DEF ScanWord, Marking
<1>2. pc \in {"roots", "rescan"} /\ TypeOK
  BY <1>1 DEF GcInv, MarkerIsIdle
<1>3. /\ StackIsMarked /\ ReadsMarked /\ RootsAreMarked /\ FrameKeepsLength
      /\ MarksAreTraced /\ MarksAreReachable
  BY DEF MarkInv
<1>4. /\ block \in Word /\ stop \in 0 .. NBlocks /\ word \in Index
      /\ gc_block_stack \in Seq(Block)
  BY <1>2 DEF TypeOK
<1>5. \/ word' = word + 1 /\ block' = block /\ word < WORDS_PER_BLOCK
      \/ word' = 1 /\ block' = block + 1 /\ word = WORDS_PER_BLOCK
  BY <1>4 DEF ScanWord, Index
<1>6. PICK p \in Objects : /\ atb[p[1]] = "MARK" /\ p[2] = stop
                           /\ p[1] <= block /\ block <= stop
  BY <1>1, <1>3 DEF ReadsMarked
<1>7. block \in Block /\ block \in p[1] .. p[2] - 1 /\ block' <= stop /\ p[1] <= block'
  <2>1. PICK h \in Nat, e \in Nat : h = p[1] /\ e = stop /\ e = p[2] /\ e <= NBlocks
    BY <1>4, <1>6, ObjectBlocks DEF Block
  <2>2. block \in Nat /\ block < e /\ h <= block
    BY <1>1, <1>4, <1>6, <2>1 DEF Word
  <2>3. block' = block \/ block' = block + 1
    BY <1>5
  <2> QED BY <2>1, <2>2, <2>3 DEF Block
<1>8. (StackIsIdle /\ FreesTails)'
  BY <1>1, <1>2 DEF StackIsIdle, FreesTails
<1>9. CASE mem[block][word] \in Block /\ atb[mem[block][word]] = "HEAD"
  <2>0. PICK v \in Block : v = mem[block][word] /\ atb[v] = "HEAD"
    BY <1>9
  <2>1. Mark(v) /\ Push(v)
    BY <2>0 DEF ScanWord
  <2>2. /\ Objects' = Objects
        /\ \A x \in 0 .. NBlocks : atb'[x] = IF x = v THEN "MARK" ELSE atb[x]
    BY <1>1, <1>2, <2>0, <2>1, MarkKeepsObjects
  <2>3. Heap!Reachable' = Heap!Reachable
    BY <1>1, <2>2, ReachableStays
  <2>4. /\ \A x \in Block : Pending(x) => Pending(x)'
        /\ Pending(v)'
        /\ \A k \in 1 .. Len(gc_block_stack') :
             \/ gc_block_stack'[k] = v
             \/ k \in 1 .. Len(gc_block_stack) /\ gc_block_stack'[k] = gc_block_stack[k]
    <3>1. CASE gc_block_stack' = Append(gc_block_stack, v) /\ UNCHANGED gc_stack_overflow
      <4>1. /\ Len(gc_block_stack') = Len(gc_block_stack) + 1
            /\ gc_block_stack'[Len(gc_block_stack')] = v
            /\ \A k \in 1 .. Len(gc_block_stack) : gc_block_stack'[k] = gc_block_stack[k]
            /\ Len(gc_block_stack) \in Nat
        BY <1>4, <2>0, <3>1
      <4>2. Pending(v)'
        <5>1. Len(gc_block_stack') \in 1 .. Len(gc_block_stack')
          BY <4>1
        <5> QED BY <4>1, <5>1, Zenon DEF Pending
      <4>3. \A x \in Block : Pending(x) => Pending(x)'
        BY <1>1, <3>1, <4>1 DEF Pending
      <4> QED BY <4>1, <4>2, <4>3
    <3>2. CASE gc_stack_overflow' = TRUE /\ UNCHANGED gc_block_stack
      BY <3>2 DEF Pending
    <3> QED BY <2>1, <3>1, <3>2 DEF Push
  <2>5. StackIsMarked'
    <3> SUFFICES ASSUME NEW k \in 1 .. Len(gc_block_stack')
                 PROVE  atb'[gc_block_stack'[k]] = "MARK"
      BY DEF StackIsMarked
    <3>1. CASE gc_block_stack'[k] = v
      BY <2>0, <2>2, <3>1 DEF Block
    <3>2. CASE k \in 1 .. Len(gc_block_stack) /\ gc_block_stack'[k] = gc_block_stack[k]
      BY <1>3, <1>4, <2>2, <3>2 DEF StackIsMarked, Block
    <3> QED BY <2>4, <3>1, <3>2
  <2>6. ReadsMarked'
    <3>1. atb'[p[1]] = "MARK"
      BY <1>6, <2>2, ObjectBlocks DEF Block
    <3> QED BY <1>1, <1>6, <1>7, <2>2, <3>1 DEF ReadsMarked
  <2>7. RootsAreMarked'
    BY <1>1, <1>3, <2>2 DEF RootsAreMarked, Block
  <2>8. FrameKeepsLength'
    BY <1>1, <1>3, <2>2 DEF FrameKeepsLength
  <2>9. MarksAreTraced'
    <3> SUFFICES ASSUME NEW o \in Objects, NEW b \in o[1] .. o[2] - 1, NEW w \in Index,
                        atb'[o[1]] = "MARK",
                        mem[b][w] \in Block, atb'[mem[b][w]] = "HEAD"
                 PROVE  \/ Pending(o[1])'
                        \/ stop' = o[2] /\ (block' < b \/ (block' = b /\ word' <= w))
      BY <1>1, <2>2 DEF MarksAreTraced
    <3>1. CASE o[1] = v
      <4>1. Pending(o[1])' <=> Pending(v)'
        BY <3>1 DEF Pending
      <4> QED BY <2>4, <4>1
    <3>2. CASE o[1] # v
      <4>1. atb[o[1]] = "MARK" /\ atb[mem[b][w]] = "HEAD" /\ mem[b][w] # v
        BY <2>2, <3>2, ObjectBlocks DEF Block
      <4>2. \/ Pending(o[1])
            \/ stop = o[2] /\ (block < b \/ (block = b /\ word <= w))
        BY <1>2, <1>3, <4>1 DEF MarksAreTraced
      <4>3. ~(block = b /\ word = w)
        BY <2>0, <4>1
      <4>4. b \in Nat /\ w \in Index /\ block \in Nat
        BY <1>7, ObjectBlocks DEF Block
      <4>5. CASE stop = o[2] /\ (block < b \/ (block = b /\ word <= w))
        BY <1>1, <1>4, <1>5, <4>3, <4>4, <4>5 DEF Index
      <4> QED BY <2>4, <4>2, <4>5, ObjectBlocks
    <3> QED BY <3>1, <3>2
  <2>10. MarksAreReachable'
    <3> SUFFICES ASSUME NEW o \in Objects, atb'[o[1]] = "MARK"
                 PROVE  o \in Heap!Reachable
      BY <2>2, <2>3 DEF MarksAreReachable
    <3>1. CASE o[1] = v
      <4>1. p \in Heap!Reachable
        BY <1>2, <1>3, <1>6 DEF MarksAreReachable
      <4> QED BY <1>4, <1>7, <2>0, <3>1, <4>1, WordIsReachable
    <3>2. CASE o[1] # v
      BY <1>2, <1>3, <2>2, <3>2, ObjectBlocks DEF MarksAreReachable, Block
    <3> QED BY <3>1, <3>2
  <2> QED BY <1>8, <2>5, <2>6, <2>7, <2>8, <2>9, <2>10 DEF MarkInv
<1>10. CASE ~(mem[block][word] \in Block /\ atb[mem[block][word]] = "HEAD")
  <2>1. UNCHANGED <<atb, gc_block_stack, gc_stack_overflow>>
    BY <1>10 DEF ScanWord
  <2>2. Objects' = Objects
    BY <1>1, <1>2, <2>1, ObjectsAreChains, ObjectsAreChainsNext
  <2>3. Heap!Reachable' = Heap!Reachable
    BY <1>1, <2>2, ReachableStays
  <2>4. ReadsMarked'
    BY <1>1, <1>6, <1>7, <2>1, <2>2 DEF ReadsMarked
  <2>5. (StackIsMarked /\ RootsAreMarked /\ FrameKeepsLength /\ MarksAreReachable)'
    BY <1>1, <1>3, <2>1, <2>2, <2>3
    DEF StackIsMarked, RootsAreMarked, FrameKeepsLength, MarksAreReachable
  <2>6. MarksAreTraced'
    <3> SUFFICES ASSUME NEW o \in Objects, NEW b \in o[1] .. o[2] - 1, NEW w \in Index,
                        atb[o[1]] = "MARK",
                        mem[b][w] \in Block, atb[mem[b][w]] = "HEAD"
                 PROVE  \/ Pending(o[1])'
                        \/ stop' = o[2] /\ (block' < b \/ (block' = b /\ word' <= w))
      BY <1>1, <2>1, <2>2 DEF MarksAreTraced
    <3>1. \/ Pending(o[1])
          \/ stop = o[2] /\ (block < b \/ (block = b /\ word <= w))
      BY <1>2, <1>3 DEF MarksAreTraced
    <3>2. ~(block = b /\ word = w)
      BY <1>10
    <3>3. b \in Nat /\ w \in Index /\ block \in Nat
      BY <1>7, ObjectBlocks DEF Block
    <3>4. CASE stop = o[2] /\ (block < b \/ (block = b /\ word <= w))
      BY <1>1, <1>4, <1>5, <3>2, <3>3, <3>4 DEF Index
    <3> QED BY <1>1, <2>1, <3>1, <3>4 DEF Pending
  <2> QED BY <1>8, <2>4, <2>5, <2>6 DEF MarkInv
<1> QED BY <1>9, <1>10

(* The marker goes on with another chain, or stops, without a mark. *)
LEMMA MarkerMovesOn ==
  ASSUME GcInv, MarkInv, pc \in {"roots", "overflow", "rescan"},
         pc' \in {"roots", "overflow", "rescan"},
         UNCHANGED <<atb, mem, roots, req>>,
         \/ pc' = pc /\ root' = root
         \/ pc # "roots" /\ pc' # "roots"
         \/ pc = "roots" /\ root \notin Slots /\ pc' = "overflow",
         StackIsIdle', StackIsMarked', ReadsMarked', MarksAreTraced'
  PROVE  MarkInv'
<1>1. Objects' = Objects
  BY ObjectsAreChains, ObjectsAreChainsNext
<1>2. Heap!Reachable' = Heap!Reachable
  BY <1>1, ReachableStays
<1>3. RootsAreMarked /\ FrameKeepsLength /\ MarksAreReachable
  BY DEF MarkInv
<1>4. RootsAreMarked'
  <2>1. CASE pc' = pc /\ root' = root
    BY <1>3, <2>1 DEF RootsAreMarked
  <2>2. CASE pc # "roots" /\ pc' # "roots"
    BY <1>3, <2>2 DEF RootsAreMarked
  <2>3. CASE pc = "roots" /\ root \notin Slots /\ pc' = "overflow"
    <3>1. root \in 0 .. NROOTS + 1
      BY DEF GcInv, TypeOK
    <3>2. \A q \in Slots : q < root
      BY <2>3, <3>1, Constants DEF Slots, FRAME
    <3> QED BY <1>3, <2>3, <3>2 DEF RootsAreMarked
  <2> QED BY <2>1, <2>2, <2>3
<1>5. FrameKeepsLength' /\ FreesTails' /\ MarksAreReachable'
  BY <1>1, <1>2, <1>3 DEF FrameKeepsLength, FreesTails, MarksAreReachable
<1> QED BY <1>4, <1>5 DEF MarkInv

LEMMA PopBlockMark == ASSUME GcInv, MarkInv, PopBlock PROVE MarkInv'
<1> USE HeapSize, Constants
<1>1. /\ Marking /\ block = stop
      /\ UNCHANGED <<atb, mem, roots, pc, req, root, gc_stack_overflow, cursor>>
  BY DEF PopBlock, heap
<1>2. pc \in {"roots", "rescan"} /\ TypeOK
  BY <1>1 DEF GcInv, MarkerIsIdle
<1>3. StackIsMarked /\ MarksAreTraced
  BY DEF MarkInv
<1>4. stop \in Nat /\ gc_block_stack \in Seq(Block)
  BY <1>2 DEF TypeOK
<1>5. Objects' = Objects
  BY <1>1, <1>2, ObjectsAreChains, ObjectsAreChainsNext
<1>6. ASSUME NEW o \in Objects, NEW b \in o[1] .. o[2] - 1, NEW w \in Index,
             atb[o[1]] = "MARK", mem[b][w] \in Block, atb[mem[b][w]] = "HEAD"
      PROVE  Pending(o[1])
  <2>1. \/ Pending(o[1])
        \/ stop = o[2] /\ (block < b \/ (block = b /\ word <= w))
    BY <1>2, <1>3, <1>6 DEF MarksAreTraced
  <2>2. ~(stop = o[2] /\ (block < b \/ (block = b /\ word <= w)))
    <3>1. PICK h \in Nat, f \in Nat : h = o[1] /\ f = o[2]
      BY ObjectBlocks DEF Block
    <3>2. b \in h .. f - 1
      BY <1>6, <3>1
    <3>3. b \in Nat /\ b < f
      BY <3>1, <3>2
    <3> QED BY <1>1, <1>4, <3>1, <3>3
  <2> QED BY <2>1, <2>2
<1>7. CASE gc_block_stack = << >>
  <2>1. stop' = 0 /\ gc_block_stack' = << >>
    BY <1>7 DEF PopBlock
  <2>2. MarksAreTraced'
    BY <1>1, <1>5, <1>6, <1>7, <2>1 DEF MarksAreTraced, Pending
  <2>3. (StackIsIdle /\ StackIsMarked /\ ReadsMarked)'
    BY <2>1 DEF StackIsIdle, StackIsMarked, ReadsMarked, Marking
  <2> QED BY <1>1, <1>2, <2>2, <2>3, MarkerMovesOn
<1>8. CASE gc_block_stack # << >>
  <2> DEFINE l == Len(gc_block_stack)
             top == gc_block_stack[l]
  <2>1. /\ l \in 1 .. l /\ top \in Block /\ atb[top] = "MARK"
        /\ gc_block_stack' = SubSeq(gc_block_stack, 1, l - 1)
        /\ Enter(top)
    <3>1. l \in Nat /\ l # 0
      BY <1>4, <1>8
    <3>2. l \in 1 .. l
      BY <3>1
    <3>3. top \in Block
      BY <1>4, <3>2
    <3>4. atb[top] = "MARK"
      BY <1>3, <3>2 DEF StackIsMarked
    <3>5. gc_block_stack' = SubSeq(gc_block_stack, 1, l - 1) /\ Enter(top)
      BY <1>8 DEF PopBlock
    <3> QED BY <3>2, <3>3, <3>4, <3>5
  <2>2. /\ <<top, stop'>> \in Objects
        /\ block' = top /\ word' = 1 /\ stop' \in top + 1 .. NBlocks /\ stop' # 0
    BY <1>2, <2>1, EnteredObject
  <2>3. /\ Len(gc_block_stack') = l - 1
        /\ \A k \in 1 .. l - 1 : gc_block_stack'[k] = gc_block_stack[k]
    <3> DEFINE m == l - 1
               u == SubSeq(gc_block_stack, 1, m)
    <3>1. m \in Nat /\ \A k \in 1 .. m : gc_block_stack[k] \in Block
      BY <1>4, <2>1
    <3>2. /\ Len(u) = IF 1 <= m THEN m - 1 + 1 ELSE 0
          /\ \A k \in 1 .. m - 1 + 1 : u[k] = gc_block_stack[1 + k - 1]
      <4> HIDE DEF m
      <4> QED BY <3>1, SubSeqProperties
    <3>3. gc_block_stack' = u
      BY <2>1
    <3> HIDE DEF m, u
    <3>4. Len(u) = m /\ \A k \in 1 .. m : u[k] = gc_block_stack[k]
      BY <3>1, <3>2
    <3> QED BY <3>3, <3>4 DEF m
  <2>4. l \in Nat
    BY <1>4
  <2>5. (StackIsIdle /\ StackIsMarked)'
    BY <1>1, <1>3, <2>2, <2>3, <2>4 DEF StackIsIdle, StackIsMarked, Marking
  <2>6. ReadsMarked'
    <3> DEFINE o == <<top, stop'>>
    <3>1. /\ o \in Objects' /\ atb'[o[1]] = "MARK" /\ o[2] = stop'
          /\ o[1] <= block' /\ block' <= stop'
      BY <1>1, <1>5, <2>1, <2>2 DEF Block
    <3> HIDE DEF o
    <3> QED BY <3>1 DEF ReadsMarked
  <2>7. MarksAreTraced'
    <3> SUFFICES ASSUME NEW o \in Objects, NEW b \in o[1] .. o[2] - 1, NEW w \in Index,
                        atb[o[1]] = "MARK",
                        mem[b][w] \in Block, atb[mem[b][w]] = "HEAD"
                 PROVE  \/ Pending(o[1])'
                        \/ /\ Marking' /\ stop' = o[2]
                           /\ block' < b \/ (block' = b /\ word' <= w)
      BY <1>1, <1>5 DEF MarksAreTraced
    <3>1. Pending(o[1])
      BY <1>6
    <3>2. CASE o[1] = top
      <4>1. o = <<top, stop'>>
        BY <1>2, <2>2, <3>2, ObjectIsUnique
      <4>2. o[2] = stop' /\ b \in top .. stop' - 1
        BY <4>1
      <4> QED BY <2>1, <2>2, <4>2 DEF Marking, Index, Block
    <3>3. CASE o[1] # top
      <4>1. ASSUME NEW k \in 1 .. l, gc_block_stack[k] = o[1]
            PROVE  k \in 1 .. l - 1
        BY <2>4, <3>3, <4>1
      <4> QED BY <1>1, <2>3, <3>1, <4>1 DEF Pending
    <3> QED BY <3>2, <3>3
  <2> QED BY <1>1, <1>2, <2>5, <2>6, <2>7, MarkerMovesOn
<1> QED BY <1>7, <1>8

LEMMA RescanMark == ASSUME GcInv, MarkInv, Rescan PROVE MarkInv'
<1> USE HeapSize, Constants
<1>1. /\ pc = "rescan" /\ pc' = "rescan" /\ ~Marking /\ cursor < NBlocks
      /\ cursor' = cursor + 1
      /\ UNCHANGED <<atb, mem, roots, req, root, gc_block_stack, gc_stack_overflow>>
  BY DEF Rescan, heap
<1>2. /\ gc_block_stack = << >> /\ MarksAreTraced
      /\ cursor \in Block
  BY <1>1 DEF MarkInv, StackIsIdle, GcInv, TypeOK, Block
<1>3. Objects' = Objects
  BY <1>1, ObjectsAreChains, ObjectsAreChainsNext
<1>4. (StackIsIdle /\ StackIsMarked)'
  BY <1>1, <1>2 DEF StackIsIdle, StackIsMarked
<1>5. ASSUME NEW o \in Objects, NEW b \in o[1] .. o[2] - 1, NEW w \in Index,
             atb[o[1]] = "MARK", mem[b][w] \in Block, atb[mem[b][w]] = "HEAD"
      PROVE  Pending(o[1])
  BY <1>1, <1>2, <1>5 DEF MarksAreTraced
<1>6. ASSUME NEW o \in Objects, Pending(o[1]), o[1] # cursor PROVE Pending(o[1])'
  BY <1>1, <1>2, <1>6, ObjectBlocks DEF Pending, Block
<1>7. CASE atb[cursor] = "MARK"
  <2>0. PICK c \in Block : c = cursor
    BY <1>2
  <2>1. Enter(c) /\ atb[c] = "MARK"
    BY <1>7, <2>0 DEF Rescan
  <2>2. /\ <<c, stop'>> \in Objects
        /\ block' = c /\ word' = 1 /\ stop' \in c + 1 .. NBlocks /\ stop' # 0
    BY <1>1, <2>1, EnteredObject
  <2>3. ReadsMarked'
    <3> DEFINE o == <<c, stop'>>
    <3>1. /\ o \in Objects' /\ atb'[o[1]] = "MARK" /\ o[2] = stop'
          /\ o[1] <= block' /\ block' <= stop'
      BY <1>1, <1>3, <2>1, <2>2 DEF Block
    <3> HIDE DEF o
    <3> QED BY <3>1 DEF ReadsMarked
  <2>4. MarksAreTraced'
    <3> SUFFICES ASSUME NEW o \in Objects, NEW b \in o[1] .. o[2] - 1, NEW w \in Index,
                        atb[o[1]] = "MARK",
                        mem[b][w] \in Block, atb[mem[b][w]] = "HEAD"
                 PROVE  \/ Pending(o[1])'
                        \/ /\ Marking' /\ stop' = o[2]
                           /\ block' < b \/ (block' = b /\ word' <= w)
      BY <1>1, <1>3 DEF MarksAreTraced
    <3>1. CASE o[1] = c
      <4>1. o = <<c, stop'>>
        BY <1>1, <2>2, <3>1, ObjectIsUnique
      <4>2. o[2] = stop' /\ b \in c .. stop' - 1
        BY <4>1
      <4> QED BY <2>2, <4>2 DEF Marking, Index, Block
    <3>2. CASE o[1] # c
      BY <1>5, <1>6, <2>0, <3>2
    <3> QED BY <3>1, <3>2
  <2> QED BY <1>1, <1>4, <2>3, <2>4, MarkerMovesOn
<1>8. CASE atb[cursor] # "MARK"
  <2>1. UNCHANGED <<block, stop, word>>
    BY <1>8 DEF Rescan
  <2>2. ReadsMarked'
    BY <1>1, <2>1 DEF ReadsMarked, Marking
  <2>3. MarksAreTraced'
    <3> SUFFICES ASSUME NEW o \in Objects, NEW b \in o[1] .. o[2] - 1, NEW w \in Index,
                        atb[o[1]] = "MARK",
                        mem[b][w] \in Block, atb[mem[b][w]] = "HEAD"
                 PROVE  Pending(o[1])'
      BY <1>1, <1>3 DEF MarksAreTraced
    <3> QED BY <1>5, <1>6, <1>8
  <2> QED BY <1>1, <1>4, <2>2, <2>3, MarkerMovesOn
<1> QED BY <1>7, <1>8

LEMMA PassMark ==
  ASSUME GcInv, MarkInv, RootsDone \/ Overflowed \/ RescanDone PROVE MarkInv'
<1> USE HeapSize, Constants
<1>1. /\ pc \in {"roots", "overflow", "rescan"} /\ pc' \in {"overflow", "rescan"}
      /\ ~Marking
      /\ UNCHANGED <<atb, mem, roots, req, block, stop, word, gc_block_stack>>
  BY DEF RootsDone, Overflowed, RescanDone, heap, marker, GcInv, MarkerIsIdle
<1>2. gc_block_stack = << >> /\ MarksAreTraced
  BY <1>1 DEF MarkInv, StackIsIdle
<1>3. \/ pc # "roots" /\ pc' # "roots"
      \/ pc = "roots" /\ root \notin Slots /\ pc' = "overflow"
  BY DEF RootsDone, Overflowed, RescanDone
<1>4. (StackIsIdle /\ StackIsMarked /\ ReadsMarked)'
  BY <1>1, <1>2 DEF StackIsIdle, StackIsMarked, ReadsMarked, Marking
<1>5. Objects' = Objects
  BY <1>1, ObjectsAreChains, ObjectsAreChainsNext
<1>6. ASSUME NEW o \in Objects, Pending(o[1]) PROVE Pending(o[1])'
  <2>1. o[1] \in Block
    BY ObjectBlocks
  <2>2. CASE RootsDone \/ RescanDone
    BY <1>2, <1>6, <2>1, <2>2 DEF Pending, RootsDone, RescanDone, marker, Block
  <2>3. CASE Overflowed
    BY <2>1, <2>3 DEF Pending, Overflowed, Block
  <2> QED BY <2>2, <2>3
<1>7. MarksAreTraced'
  <2> SUFFICES ASSUME NEW o \in Objects, NEW b \in o[1] .. o[2] - 1, NEW w \in Index,
                      atb[o[1]] = "MARK",
                      mem[b][w] \in Block, atb[mem[b][w]] = "HEAD"
               PROVE  Pending(o[1])'
    BY <1>1, <1>5 DEF MarksAreTraced
  <2>1. Pending(o[1])
    BY <1>1, <1>2 DEF MarksAreTraced
  <2> QED BY <1>6, <2>1
<1> QED BY <1>1, <1>3, <1>4, <1>7, MarkerMovesOn

-----------------------------------------------------------------------------
(* The end of marking, and the sweep *)

Marked == {o \in Objects : atb[o[1]] = "MARK"}

(* When the mark stack is empty and has not overflowed, the marked chains  *)
(* are closed under pointers, and so they are exactly the reachable ones.  *)
LEMMA MarkedIsReachable ==
  ASSUME GcInv, MarkInv, pc = "overflow", ~gc_stack_overflow
  PROVE  Marked = Heap!Reachable
<1> USE HeapSize
<1>1. ~Marking /\ gc_block_stack = << >>
  BY MarkerOff
<1>2. MarksAreTraced /\ MarksAreReachable /\ RootsAreMarked
  BY DEF MarkInv
<1>3. \A o \in Objects : atb[o[1]] # "HEAD" => o \in Marked
  BY DEF Objects, Heads, Marked
<1>4. \A b \in Block : ~Pending(b)
  BY <1>1 DEF Pending
<1>5. Heap!Closed(Objects, Marked)
  <2> SUFFICES ASSUME NEW o \in Objects,
                      \/ \E s \in Slots : roots[s] = o[1]
                      \/ \E p \in Marked, b \in Heap!Block, w \in Index :
                           b \in Heap!Cells(p) /\ mem[b][w] = o[1]
               PROVE  atb[o[1]] # "HEAD"
    BY <1>3 DEF Heap!Closed
  <2>1. CASE \E s \in Slots : roots[s] = o[1]
    BY <1>2, <2>1, ObjectBlocks DEF RootsAreMarked
  <2>2. ASSUME NEW p \in Marked, NEW b \in p[1] .. p[2] - 1, NEW w \in Index,
               mem[b][w] = o[1]
        PROVE  atb[o[1]] # "HEAD"
    <3>1. p \in Objects /\ atb[p[1]] = "MARK" /\ p[1] \in Block /\ o[1] \in Block
      BY ObjectBlocks DEF Marked
    <3> QED BY <1>1, <1>2, <1>4, <2>2, <3>1 DEF MarksAreTraced
  <2> QED BY <2>1, <2>2 DEF Heap!Cells
<1>6. Heap!Reachable \subseteq Marked
  BY <1>5, ClosedHoldsReachable DEF Marked
<1> QED BY <1>2, <1>6 DEF MarksAreReachable, Marked

LEMMA StartSweepObjects ==
  ASSUME StartSweep PROVE Objects' = Marked
<1>1. /\ pc = "overflow" /\ pc' = "sweep" /\ cursor' = 0 /\ atb' = atb
  BY DEF StartSweep, heap
<1>2. /\ Heads' = {b \in Block : atb[b] = "MARK"}
      /\ Heads = {b \in Block : atb[b] \in {"HEAD", "MARK"}}
  BY <1>1, HeapSize DEF Heads, Block
<1>3. \A b, e : Chain(b, e)' <=> Chain(b, e)
  BY <1>1 DEF Chain
<1> QED BY <1>1, <1>2, <1>3 DEF Objects, Marked

LEMMA StartSweepRefines ==
  ASSUME GcInv, MarkInv, StartSweep
  PROVE  Heap!Collect \/ UNCHANGED Heap!vars
<1>1. UNCHANGED <<mem, roots>> /\ pc = "overflow" /\ ~gc_stack_overflow
  BY DEF StartSweep, heap
<1>2. Objects' = Heap!Reachable
  BY <1>1, MarkedIsReachable, StartSweepObjects
<1> QED BY <1>1, <1>2 DEF Heap!Collect, Heap!vars

LEMMA SweepMark ==
  ASSUME GcInv, MarkInv, pc \notin {"roots", "rescan"}, pc' \in {"sweep", "retry"},
         UNCHANGED <<marker, req, roots>>, pc # "mutator",
         Objects' \subseteq Objects, FreesTails'
  PROVE  MarkInv'
<1>1. stop' = 0 /\ gc_block_stack' = << >>
  BY MarkerOff DEF Marking, marker
<1>2. FrameKeepsLength'
  BY DEF MarkInv, FrameKeepsLength
<1> QED
  BY <1>1, <1>2 DEF MarkInv, StackIsIdle, StackIsMarked, ReadsMarked, RootsAreMarked,
         MarksAreTraced, MarksAreReachable, Marking

LEMMA StartSweepMark == ASSUME GcInv, MarkInv, StartSweep PROVE MarkInv'
<1>1. /\ pc = "overflow" /\ pc' = "sweep" /\ free_tail' = FALSE
      /\ UNCHANGED <<marker, req, roots>>
  BY DEF StartSweep, heap
<1>2. FreesTails'
  BY <1>1 DEF FreesTails
<1>3. Objects' \subseteq Objects
  BY StartSweepObjects DEF Marked
<1> QED BY <1>1, <1>2, <1>3, SweepMark

(* A step of the sweep frees no block of an object. *)
LEMMA SweepBlockObjects ==
  ASSUME GcInv, MarkInv, SweepBlock PROVE Objects' = Objects
<1> USE HeapSize DEF Block
<1>1. pc = "sweep" /\ pc' = "sweep" /\ cursor' = cursor + 1
  BY DEF SweepBlock
<1>2. cursor \in Block
  BY DEF SweepBlock, GcInv, TypeOK, EndBlock
<1>3. TypeOK /\ TailsFollow /\ FreesTails
  BY DEF GcInv, MarkInv
<1>4. /\ Heads = {b \in Block : atb[b] = "MARK" \/ (b < cursor /\ atb[b] = "HEAD")}
      /\ Heads' = {b \in Block : atb'[b] = "MARK" \/ (b < cursor + 1 /\ atb'[b] = "HEAD")}
  BY <1>1 DEF Heads
<1>5. ASSUME Heads' = Heads,
             \A b \in Heads, e \in 1 .. NBlocks : b < e => (Chain(b, e)' <=> Chain(b, e))
      PROVE  Objects' = Objects
  BY <1>5 DEF Objects
<1>6. CASE /\ atb[cursor] = "HEAD" \/ (atb[cursor] = "TAIL" /\ free_tail)
           /\ atb' = [atb EXCEPT ![cursor] = "FREE"]
  <2>1. \A x \in 0 .. NBlocks : atb'[x] = IF x = cursor THEN "FREE" ELSE atb[x]
    BY <1>2, <1>3, <1>6 DEF TypeOK
  <2>2. Heads' = Heads /\ cursor \notin Heads
    BY <1>2, <1>4, <1>6, <2>1
  <2>3. ASSUME NEW b \in Heads, NEW e \in 1 .. NBlocks, b < e
        PROVE  Chain(b, e)' <=> Chain(b, e)
    <3>1. b \in Block /\ b # cursor /\ atb[b] # "FREE"
      BY <1>4, <2>2
    <3>2. CASE cursor \notin b + 1 .. e
      BY <1>2, <2>1, <2>3, <3>1, <3>2 DEF Chain
    <3>3. CASE cursor \in b + 1 .. e /\ atb[cursor] = "HEAD"
      BY <1>2, <2>1, <2>3, <3>1, <3>3 DEF Chain
    <3>4. CASE cursor \in b + 1 .. e /\ atb[cursor] = "TAIL" /\ free_tail
      <4>1. atb[cursor - 1] = "FREE" /\ cursor - 1 # b
        BY <1>1, <1>3, <3>1, <3>4 DEF FreesTails
      <4>2. cursor - 1 \in b + 1 .. e - 1 /\ cursor - 1 \in 0 .. NBlocks
        BY <1>2, <3>1, <3>4, <4>1
      <4>3. atb'[cursor - 1] = "FREE"
        BY <1>2, <2>1, <4>1, <4>2
      <4> QED BY <4>1, <4>2, <4>3 DEF Chain
    <3> QED BY <1>6, <3>2, <3>3, <3>4
  <2> QED BY <1>5, <2>2, <2>3
<1>7. CASE atb[cursor] \in {"TAIL", "FREE"} /\ atb' = atb
  <2>1. Heads' = Heads
    BY <1>2, <1>4, <1>7
  <2> QED BY <1>5, <1>7, <2>1 DEF Chain
<1>8. CASE atb[cursor] = "MARK" /\ atb' = [atb EXCEPT ![cursor] = "HEAD"]
  <2>1. \A x \in 0 .. NBlocks : atb'[x] = IF x = cursor THEN "HEAD" ELSE atb[x]
    BY <1>2, <1>3, <1>8 DEF TypeOK
  <2>2. Heads' = Heads
    BY <1>2, <1>4, <1>8, <2>1
  <2>3. ASSUME NEW b \in Heads, NEW e \in 1 .. NBlocks, b < e
        PROVE  Chain(b, e)' <=> Chain(b, e)
    BY <1>2, <1>4, <1>8, <2>1, <2>3 DEF Chain
  <2> QED BY <1>5, <2>2, <2>3
<1> QED BY <1>6, <1>7, <1>8 DEF SweepBlock

LEMMA SweepBlockMark == ASSUME GcInv, MarkInv, SweepBlock PROVE MarkInv'
<1>1. /\ pc = "sweep" /\ pc' = "sweep" /\ cursor' = cursor + 1
      /\ UNCHANGED <<marker, req, roots>> /\ cursor \in Block
  BY HeapSize DEF SweepBlock, GcInv, TypeOK, EndBlock, Block
<1>2. atb \in [0 .. NBlocks -> Kind] /\ cursor \in 0 .. NBlocks /\ cursor + 1 - 1 = cursor
  BY <1>1, HeapSize DEF GcInv, TypeOK, Block
<1>3. FreesTails'
  <2> SUFFICES ASSUME free_tail' PROVE atb'[cursor] = "FREE" /\ cursor + 1 > 0
    BY <1>1, <1>2 DEF FreesTails
  <2>1. cursor + 1 > 0
    BY <1>2, HeapSize
  <2>2. CASE atb' = [atb EXCEPT ![cursor] = "FREE"]
    BY <1>2, <2>1, <2>2
  <2>3. CASE atb[cursor] = "FREE" /\ atb' = atb
    BY <2>1, <2>3
  <2> QED BY <2>2, <2>3, Zenon DEF SweepBlock
<1> QED BY <1>1, <1>3, SweepBlockObjects, SweepMark

LEMMA SweepDoneObjects ==
  ASSUME GcInv, SweepDone PROVE Objects' = Objects
<1> USE HeapSize DEF Block
<1>1. /\ pc = "sweep" /\ pc' = "retry" /\ cursor = EndBlock /\ atb' = atb
      /\ UsedBlocksBelow /\ SweptSoFar
      /\ gc_last_used_block \in 0 .. NBlocks
  BY DEF SweepDone, GcInv, TypeOK
<1>2. \A b \in Block : atb[b] # "FREE" => b < cursor
  BY <1>1 DEF UsedBlocksBelow, EndBlock
<1>3. Heads' = Heads
  BY <1>1, <1>2 DEF Heads
<1>4. \A b, e : Chain(b, e)' <=> Chain(b, e)
  BY <1>1 DEF Chain
<1> QED BY <1>3, <1>4 DEF Objects

LEMMA SweepDoneMark == ASSUME GcInv, MarkInv, SweepDone PROVE MarkInv'
<1>1. /\ pc = "sweep" /\ pc' = "retry" /\ UNCHANGED <<marker, req, roots>>
  BY DEF SweepDone
<1>2. FreesTails'
  BY <1>1 DEF FreesTails
<1> QED BY <1>1, <1>2, SweepDoneObjects, SweepMark

-----------------------------------------------------------------------------
(* gc_alloc and gc_realloc, with and without a collection *)

LEMMA GcAllocHeap ==
  ASSUME GcInv, MarkInv, NEW n \in 1 .. NBlocks, NEW s \in 1 .. NROOTS, gc_alloc(n, s)
  PROVE  (Heap!Next \/ UNCHANGED Heap!vars) /\ MarkInv'
<1>1. pc = "mutator"
  BY DEF gc_alloc
<1>2. CASE /\ \E b \in Block : FirstFit(b, n) /\ Take(b, n, s)
           /\ UNCHANGED <<pc, marker>>
  BY <1>1, <1>2, TakeRefines, MutatorMark DEF Heap!Next
<1>3. CASE StartCollect(n, s, 0) /\ UNCHANGED roots
  <2>1. roots'[FRAME] = NoPtr
    BY <1>1, <1>3 DEF GcInv, FrameIsKept
  <2>2. \A o \in Objects : o[1] # roots'[FRAME]
    BY <2>1, HeapSize, ObjectBlocks DEF NoPtr, Block
  <2>3. pc' # "sweep" /\ UNCHANGED <<atb, mem>>
    BY <1>3 DEF StartCollect
  <2>4. Objects' = Objects
    BY <1>1, <2>3, ObjectsAreChains, ObjectsAreChainsNext
  <2> QED BY <1>1, <1>3, <2>2, <2>3, <2>4, StartCollectMark DEF Heap!vars
<1> QED BY <1>2, <1>3 DEF gc_alloc

LEMMA GcReallocHeap ==
  ASSUME GcInv, MarkInv, NEW b \in Block, NEW n \in 1 .. NBlocks, NEW s \in 1 .. NROOTS,
         gc_realloc(b, n, s)
  PROVE  Heap!Next /\ MarkInv'
<1> USE HeapSize, Constants
<1>1. pc = "mutator" /\ atb[b] = "HEAD"
  BY DEF gc_realloc
<1>2. PICK e \in b + 1 .. NBlocks :
       /\ Chain(b, e)
       /\ \/ /\ Shrink(b, e, n) \/ Grow(b, e, n)
             /\ UNCHANGED <<pc, req, root, marker, cursor, sweeper>>
          \/ /\ n > e - b
             /\ \E c \in Block : FirstFit(c, n) /\ MoveTo(b, e, e - b, n, c, s)
             /\ UNCHANGED <<pc, req, root, marker, cursor, sweeper>>
          \/ /\ n > e - b /\ StartCollect(n, s, e - b)
             /\ roots' = [roots EXCEPT ![FRAME] = b]
  BY DEF gc_realloc
<1>3. CASE Shrink(b, e, n) /\ UNCHANGED <<pc, marker>>
  BY <1>1, <1>2, <1>3, ShrinkRefines, MutatorMark DEF Heap!Next
<1>4. CASE Grow(b, e, n) /\ UNCHANGED <<pc, marker>>
  BY <1>1, <1>2, <1>4, GrowRefines, MutatorMark DEF Heap!Next
<1>5. CASE /\ n > e - b
           /\ \E c \in Block : FirstFit(c, n) /\ MoveTo(b, e, e - b, n, c, s)
           /\ UNCHANGED <<pc, marker>>
  <2>1. pc' = "mutator"
    BY <1>1, <1>5
  <2>2. Heap!Move
    BY <1>1, <1>2, <1>5, <2>1, MoveRefines
  <2>3. MarkInv'
    BY <1>1, <1>5, <2>1, MutatorMark
  <2> QED BY <2>2, <2>3 DEF Heap!Next
<1>6. CASE /\ n > e - b /\ StartCollect(n, s, e - b)
           /\ roots' = [roots EXCEPT ![FRAME] = b]
  <2>1. b \in Word /\ FRAME \in Slots /\ e \in 1 .. NBlocks /\ b < e
    BY DEF Block, Word, Slots, FRAME
  <2>2. pc' # "sweep" /\ UNCHANGED <<atb, mem>>
    BY <1>6 DEF StartCollect
  <2>3. Heap!SetRoot
    BY <1>1, <1>6, <2>1, <2>2, SetRootRefines
  <2>4. roots'[FRAME] = b
    BY <1>6, <2>1 DEF GcInv, TypeOK
  <2>5. IsChain(atb, b, e)
    BY <1>1, <1>2, <2>1 DEF IsChain, Chain
  <2>6. \A o \in Objects : o[1] = b => o[2] - o[1] = e - b /\ e - b < n
    <3>1. <<b, e>> \in Objects
      BY <1>1, <2>1, <2>5, ChainPairs, ObjectsAreChains
    <3>2. \A o \in Objects : o[1] = b => o = <<b, e>>
      BY <1>1, <3>1, ObjectIsUnique
    <3> QED BY <1>6, <3>2 DEF Block
  <2>7. MarkInv'
    BY <1>1, <1>6, <2>4, <2>6, StartCollectMark
  <2> QED BY <2>3, <2>7 DEF Heap!Next
<1> QED BY <1>2, <1>3, <1>4, <1>5, <1>6

LEMMA RetryHeap ==
  ASSUME GcInv, MarkInv, Retry
  PROVE  (Heap!Next \/ UNCHANGED Heap!vars) /\ MarkInv'
<1> USE HeapSize, Constants
<1>1. pc = "retry" /\ pc' = "mutator" /\ UNCHANGED marker
  BY DEF Retry
<1>2. MarkInv'
  BY <1>1, MutatorMark
<1>3. req.n \in 1 .. NBlocks /\ req.slot \in 1 .. NROOTS
  BY <1>1 DEF GcInv, RequestIsPending
<1>4. CASE \E b \in Block : FirstFit(b, req.n) /\ Take(b, req.n, req.slot)
  BY <1>1, <1>2, <1>3, <1>4, TakeRefines DEF Heap!Next
<1>5. CASE UNCHANGED heap
  <2>1. Objects' = Objects
    BY <1>1, <1>5, ObjectsAreChains, ObjectsAreChainsNext DEF heap
  <2> QED BY <1>2, <1>5, <2>1 DEF Heap!vars, heap
<1>6. CASE roots[FRAME] # NoPtr /\ \E c \in Block, e \in 1 .. NBlocks :
               /\ FirstFit(c, req.n)
               /\ e > roots[FRAME] /\ Chain(roots[FRAME], e)
               /\ MoveTo(roots[FRAME], e, req.old, req.n, c, req.slot)
  <2>1. roots[FRAME] \in Block /\ atb[roots[FRAME]] = "HEAD"
    BY <1>1, <1>6, FrameBlock DEF GcInv, FrameIsKept, NoMarks
  <2>2. PICK b \in Block : b = roots[FRAME]
    BY <2>1
  <2>3. PICK c \in Block, e \in 1 .. NBlocks :
          /\ FirstFit(c, req.n) /\ e > b /\ Chain(b, e)
          /\ MoveTo(b, e, req.old, req.n, c, req.slot)
    BY <1>6, <2>2
  <2>4. e \in b + 1 .. NBlocks /\ b < e
    BY <2>3 DEF Block
  <2>5. <<b, e>> \in Objects
    <3>1. IsChain(atb, b, e)
      BY <2>1, <2>2, <2>3, <2>4 DEF IsChain, Chain
    <3> QED BY <1>1, <3>1, ChainPairs, ObjectsAreChains
  <2>6. e - b = req.old /\ e - b < req.n
    BY <1>1, <2>2, <2>5 DEF MarkInv, FrameKeepsLength
  <2>7. req.n > e - b
    BY <1>3, <2>6 DEF Block
  <2>8. MoveTo(b, e, e - b, req.n, c, req.slot)
    BY <2>3, <2>6
  <2>9. Heap!Move
    BY <1>1, <1>3, <2>1, <2>2, <2>3, <2>4, <2>7, <2>8, MoveRefines
  <2> QED BY <1>2, <2>9 DEF Heap!Next
<1>7. CASE roots' = [roots EXCEPT ![FRAME] = NoPtr] /\ UNCHANGED <<atb, mem>>
  <2>1. FRAME \in Slots /\ NoPtr \in Word
    BY DEF Slots, FRAME, NoPtr, Word
  <2>2. Heap!SetRoot
    BY <1>1, <1>7, <2>1, SetRootRefines
  <2> QED BY <1>2, <2>2 DEF Heap!Next
<1> QED BY <1>2, <1>4, <1>5, <1>6, <1>7 DEF Retry

(* gc_realloc's length is still the old chain's, so that its memcpy reads  *)
(* and writes inside the pool.                                             *)
LEMMA RetryInv == ASSUME GcInv, MarkInv, Retry PROVE GcInv'
<1> USE HeapSize, Constants
<1>0. /\ TypeOK /\ GapIsFree /\ UsedBlocksBelow /\ NoFreeBlockBeforeIndex
      /\ NoMarks /\ TailsFollow /\ SweptSoFar /\ RequestIsPending /\ MarkerIsIdle
      /\ FrameIsKept
  BY DEF GcInv
<1>1. /\ pc = "retry" /\ pc' = "mutator" /\ req' = NoReq
      /\ UNCHANGED <<root, marker, cursor, sweeper>>
  BY DEF Retry
<1>2. req.n \in 1 .. NBlocks /\ req.slot \in 1 .. NROOTS
  BY <1>0, <1>1 DEF RequestIsPending
<1>3. req' \in Request
  BY <1>1 DEF Request, NoReq, Slots, FRAME
<1>4. CASE /\ roots[FRAME] = NoPtr
           /\ \E b \in Block : FirstFit(b, req.n) /\ Take(b, req.n, req.slot)
  BY <1>1, <1>2, <1>3, <1>4, TakeInv
<1>5. CASE /\ roots[FRAME] # NoPtr
           /\ \E c \in Block, e \in 1 .. NBlocks :
                /\ FirstFit(c, req.n)
                /\ e > roots[FRAME] /\ Chain(roots[FRAME], e)
                /\ MoveTo(roots[FRAME], e, req.old, req.n, c, req.slot)
  <2>1. roots[FRAME] \in Block /\ atb[roots[FRAME]] = "HEAD"
    BY <1>0, <1>1, <1>5, FrameBlock DEF FrameIsKept, NoMarks
  <2>2. PICK c \in Block, e \in 1 .. NBlocks :
          /\ FirstFit(c, req.n)
          /\ e > roots[FRAME] /\ Chain(roots[FRAME], e)
          /\ MoveTo(roots[FRAME], e, req.old, req.n, c, req.slot)
    BY <1>5
  <2>3. e \in roots[FRAME] + 1 .. NBlocks
    BY <2>1, <2>2 DEF Block
  <2>4. <<roots[FRAME], e>> \in Objects
    <3>1. IsChain(atb, roots[FRAME], e)
      BY <2>1, <2>2 DEF IsChain, Chain
    <3> QED BY <1>1, <2>1, <3>1, ChainPairs, ObjectsAreChains
  <2>5. e - roots[FRAME] = req.old
    BY <1>1, <2>4 DEF MarkInv, FrameKeepsLength
  <2>6. MoveTo(roots[FRAME], e, e - roots[FRAME], req.n, c, req.slot)
    BY <2>2, <2>5
  <2> QED BY <1>1, <1>2, <1>3, <2>1, <2>2, <2>3, <2>6, MoveInv
<1>6. CASE /\ roots' \in [Slots -> Word] /\ roots'[FRAME] = NoPtr
           /\ UNCHANGED <<atb, mem, gc_last_free_atb_index, gc_last_used_block>>
  <2>1. TypeOK'
    <3>1. pc' \in {"mutator", "roots", "overflow", "rescan", "sweep", "retry"}
      BY <1>1
    <3> QED BY <1>0, <1>1, <1>3, <1>6, <3>1 DEF TypeOK, marker, sweeper
  <2>2. (GapIsFree /\ UsedBlocksBelow /\ NoFreeBlockBeforeIndex /\ NoMarks /\ TailsFollow)'
    BY <1>0, <1>1, <1>6
    DEF GapIsFree, UsedBlocksBelow, NoFreeBlockBeforeIndex, NoMarks, TailsFollow
  <2>3. (SweptSoFar /\ RequestIsPending /\ MarkerIsIdle /\ FrameIsKept)'
    BY <1>0, <1>1, <1>6
    DEF SweptSoFar, RequestIsPending, MarkerIsIdle, Marking, marker, FrameIsKept
  <2> QED BY <2>1, <2>2, <2>3 DEF GcInv
<1>7. CASE roots[FRAME] = NoPtr /\ UNCHANGED heap
  BY <1>0, <1>6, <1>7 DEF heap, TypeOK
<1>8. CASE /\ roots' = [roots EXCEPT ![FRAME] = NoPtr]
           /\ UNCHANGED <<atb, mem, gc_last_free_atb_index, gc_last_used_block>>
  <2>1. roots \in [Slots -> Word] /\ FRAME \in Slots /\ NoPtr \in Word
    BY <1>0 DEF TypeOK, Slots, FRAME, NoPtr, Word
  <2> QED BY <1>6, <1>8, <2>1
<1> QED BY <1>4, <1>5, <1>7, <1>8 DEF Retry

-----------------------------------------------------------------------------
(* The specification *)

LEMMA InitHeap == Init => Heap!Init
<1> SUFFICES ASSUME Init PROVE Heap!Init
  OBVIOUS
<1>1. \A b \in Block : atb[b] = "FREE"
  BY HeapSize DEF Init, Block
<1>2. Objects = {}
  BY <1>1 DEF Objects, Heads
<1> QED BY <1>2 DEF Init, Heap!Init, Heap!Block, Block, Heap!Word, Word

LEMMA MutatorHeap ==
  ASSUME GcInv, MarkInv, Mutator
  PROVE  (Heap!Next \/ UNCHANGED Heap!vars) /\ MarkInv'
<1>1. ASSUME NEW s \in 1 .. NROOTS, NEW v \in Stored, SetRoot(s, v)
      PROVE  Heap!Next /\ MarkInv'
  <2>1. /\ pc = "mutator" /\ pc' = "mutator" /\ UNCHANGED <<atb, mem, marker>>
        /\ roots' = [roots EXCEPT ![s] = v]
    BY <1>1 DEF SetRoot
  <2>2. s \in Slots /\ v \in Word
    BY Constants DEF Slots, FRAME
  <2> QED BY <2>1, <2>2, SetRootRefines, MutatorMark DEF Heap!Next
<1>2. ASSUME NEW b \in Block, NEW w \in Index, NEW v \in Stored, Store(b, w, v)
      PROVE  Heap!Next /\ MarkInv'
  <2>1. pc = "mutator" /\ pc' = "mutator" /\ UNCHANGED marker
    BY <1>2 DEF Store
  <2> QED BY <1>2, <2>1, StoreRefines, MutatorMark DEF Heap!Next
<1>3. ASSUME NEW b \in Block, gc_free(b)
      PROVE  Heap!Next /\ MarkInv'
  <2>1. pc = "mutator" /\ pc' = "mutator" /\ UNCHANGED marker
    BY <1>3 DEF gc_free
  <2> QED BY <1>3, <2>1, FreeRefines, MutatorMark DEF Heap!Next
<1> QED BY <1>1, <1>2, <1>3, GcAllocHeap, GcReallocHeap DEF Mutator

(* Between gc_collect_start and the retry, the heap changes by Collect only. *)
LEMMA CollectorHeap ==
  ASSUME GcInv, MarkInv, Collector, ~Retry
  PROVE  (Heap!Collect \/ UNCHANGED Heap!vars) /\ MarkInv'
<1>1. CASE ScanRoot \/ ScanWord \/ PopBlock \/ Rescan
  <2>1. pc # "sweep" /\ pc' # "sweep" /\ UNCHANGED <<mem, roots>>
    BY <1>1 DEF ScanRoot, ScanWord, PopBlock, Rescan, heap, GcInv, MarkerIsIdle
  <2>2. \/ UNCHANGED atb
        \/ \E v \in Block : atb[v] = "HEAD" /\ Mark(v)
    BY <1>1 DEF ScanRoot, ScanWord, PopBlock, Rescan, heap
  <2>3. Objects' = Objects
    BY <2>1, <2>2, MarkKeepsObjects, ObjectsAreChains, ObjectsAreChainsNext DEF GcInv
  <2> QED BY <1>1, <2>1, <2>3, ScanRootMark, ScanWordMark, PopBlockMark, RescanMark
          DEF Heap!vars
<1>2. CASE RootsDone \/ Overflowed \/ RescanDone
  <2>1. pc # "sweep" /\ pc' # "sweep" /\ UNCHANGED <<atb, mem, roots>>
    BY <1>2 DEF RootsDone, Overflowed, RescanDone, heap
  <2>2. Objects' = Objects
    BY <2>1, ObjectsAreChains, ObjectsAreChainsNext
  <2> QED BY <1>2, <2>1, <2>2, PassMark DEF Heap!vars
<1>3. CASE StartSweep
  BY <1>3, StartSweepRefines, StartSweepMark
<1>4. CASE SweepBlock
  BY <1>4, SweepBlockObjects, SweepBlockMark DEF SweepBlock, Heap!vars
<1>5. CASE SweepDone
  BY <1>5, SweepDoneObjects, SweepDoneMark DEF SweepDone, Heap!vars
<1> QED BY <1>1, <1>2, <1>3, <1>4, <1>5 DEF Collector

LEMMA StutterHeap ==
  ASSUME MarkInv, UNCHANGED vars
  PROVE  UNCHANGED Heap!vars /\ MarkInv'
<1>1. UNCHANGED <<heap, pc, req, root, marker, cursor, sweeper>>
  BY DEF vars
<1>2. Objects' = Objects
  BY <1>1 DEF heap, Objects, Heads, Chain
<1>3. Heap!Reachable' = Heap!Reachable
  BY <1>1, <1>2, ReachableStays DEF heap
<1> QED
  BY <1>1, <1>2, <1>3 DEF heap, marker, sweeper, Heap!vars, MarkInv, StackIsIdle,
     StackIsMarked, ReadsMarked, RootsAreMarked, FreesTails, FrameKeepsLength,
     MarksAreTraced, MarksAreReachable, Marking, Pending

LEMMA StepHeap ==
  ASSUME GcInv, MarkInv, [Next]_vars
  PROVE  ([Heap!Next]_(Heap!vars)) /\ MarkInv'
  BY MutatorHeap, CollectorHeap, RetryHeap, StutterHeap DEF Next, Heap!Next

LEMMA StepInv == GcInv /\ MarkInv /\ [Next]_vars => GcInv'
<1> SUFFICES ASSUME GcInv, MarkInv, [Next]_vars PROVE GcInv'
  OBVIOUS
<1>1. CASE Mutator
  BY <1>1, SetRootInv, StoreInv, GcAllocInv, GcFreeInv, GcReallocInv DEF Mutator
<1>2. CASE Collector
  BY <1>2, ScanRootInv, RootsDoneInv, ScanWordInv, PopBlockInv, OverflowedInv,
     RescanInv, RescanDoneInv, StartSweepInv, SweepBlockInv, SweepDoneInv, RetryInv
  DEF Collector
<1>3. CASE UNCHANGED vars
  BY <1>3 DEF vars, heap, marker, sweeper, GcInv, TypeOK, GapIsFree, UsedBlocksBelow,
     NoFreeBlockBeforeIndex, NoMarks, TailsFollow, SweptSoFar, EndBlock,
     RequestIsPending, MarkerIsIdle, Marking, FrameIsKept
<1> QED BY <1>1, <1>2, <1>3 DEF Next

(* The two invariants hold together: the length that gc_realloc keeps over *)
(* a collection is part of the second, and the first needs it.             *)
LEMMA BothInvariant == Spec => [](GcInv /\ MarkInv)
<1>1. Init => GcInv /\ MarkInv
  BY InitInv, InitMark
<1>2. GcInv /\ MarkInv /\ [Next]_vars => (GcInv /\ MarkInv)'
  BY StepInv, StepHeap
<1> QED BY <1>1, <1>2, PTL DEF Spec

(* Whatever the virtual machine allocates, frees, resizes and stores, and  *)
(* whatever a collection has done so far, py/gc.c's table, its two         *)
(* remembered positions and its mark stack are consistent.                 *)
THEOREM GcInvariant == Spec => []GcInv
  BY BothInvariant, PTL

(* Whenever the virtual machine runs, the table is a sequence of whole     *)
(* chains without marks, ended by the gap byte gc_init reserves.           *)
THEOREM TableIsWhole == Spec => []ChainsAreWhole
<1>1. GcInv => ChainsAreWhole
  <2> SUFFICES ASSUME GcInv, pc \in {"mutator", "retry"} PROVE ChainsAreWhole
    BY DEF ChainsAreWhole
  <2> USE HeapSize
  <2>1. /\ TypeOK /\ GapIsFree /\ NoMarks /\ TailsFollow
    BY DEF GcInv
  <2>2. \A b \in 0 .. NBlocks : b \in Block \/ (b = NBlocks /\ atb[b] = "FREE")
    BY <2>1 DEF Block, GapIsFree
  <2>3. ASSUME NEW b \in 0 .. NBlocks, atb[b] = "TAIL"
        PROVE  b > 0 /\ atb[b - 1] \in {"HEAD", "TAIL"}
    <3>1. b \in Block /\ b > 0 /\ atb[b - 1] # "FREE"
      BY <2>1, <2>2, <2>3 DEF TailsFollow
    <3>2. b - 1 \in Block /\ b - 1 \in 0 .. NBlocks
      BY <3>1 DEF Block
    <3>3. atb[b - 1] # "MARK" /\ atb[b - 1] \in Kind
      BY <2>1, <3>2 DEF NoMarks, TypeOK
    <3> QED BY <3>1, <3>3 DEF Kind
  <2> QED BY <2>1, <2>2, <2>3 DEF ChainsAreWhole, NoMarks, GapIsFree
<1> QED BY <1>1, GcInvariant, PTL

(* gc_alloc's comment on gc_last_free_atb_index, for every heap: there is  *)
(* no free block before the one the search starts at.                      *)
THEOREM IndexHidesNoFreeBlock == Spec => []NoFreeBlockBeforeIndex
<1>1. GcInv => NoFreeBlockBeforeIndex
  BY DEF GcInv
<1> QED BY <1>1, GcInvariant, PTL

(* gc_last_used_block bounds what is in use, so gc_sweep, which stops      *)
(* there, leaves neither a mark nor an unreachable chain behind.           *)
THEOREM SweepReachesAll == Spec => []SweepCoversHeap
<1>1. GcInv => SweepCoversHeap
  BY DEF GcInv, UsedBlocksBelow, SweepCoversHeap
<1> QED BY <1>1, GcInvariant, PTL

(* The marking invariant: whatever the graph of pointers and however often *)
(* the mark stack overflows, what is marked is reachable, and a marked     *)
(* chain that still points to an unmarked one is yet to be read.           *)
THEOREM MarkInvariant == Spec => []MarkInv
  BY BothInvariant, PTL

(* gc_mark_subtree and gc_deal_with_stack_overflow lose no block: what is  *)
(* marked and not yet traced can be found, in every state of every run.    *)
THEOREM NoMarkIsLost == Spec => []MarksAreTraced
<1>1. MarkInv => MarksAreTraced
  BY DEF MarkInv
<1> QED BY <1>1, MarkInvariant, PTL

(* A collection of py/gc.c, of any heap and with any mark stack, changes   *)
(* the objects once, and then to exactly those that are reachable.         *)
THEOREM CollectionDropsGarbage == Spec => CollectionIsExact
<1>1. GcInv /\ MarkInv /\ [Next]_vars
        => [pc \notin {"mutator", "retry"} => Heap!Collect]_(Heap!vars)
  <2> SUFFICES ASSUME GcInv, MarkInv, [Next]_vars, pc \notin {"mutator", "retry"}
               PROVE  Heap!Collect \/ UNCHANGED Heap!vars
    OBVIOUS
  <2>1. ~Mutator
    BY DEF Mutator, SetRoot, Store, gc_alloc, gc_free, gc_realloc
  <2>2. ~Retry
    BY DEF Retry
  <2> QED BY <2>1, <2>2, CollectorHeap, StutterHeap DEF Next
<1> QED BY <1>1, GcInvariant, MarkInvariant, PTL DEF Spec, CollectionIsExact

(* py/gc.c implements the object heap the virtual machine relies on: its   *)
(* allocation table, its remembered positions and its bounded mark stack   *)
(* are invisible behind ObjectHeap's seven operations.                     *)
THEOREM GcImplementsObjectHeap == Spec => HeapSpec
<1>1. Init => Heap!Init
  BY InitHeap
<1>2. GcInv /\ MarkInv /\ [Next]_vars => [Heap!Next]_(Heap!vars)
  BY StepHeap
<1> QED BY <1>1, <1>2, GcInvariant, MarkInvariant, PTL DEF Spec, HeapSpec, Heap!Spec
=============================================================================
