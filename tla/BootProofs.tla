----------------------------- MODULE BootProofs -----------------------------
(***************************************************************************)
(* What kernel_main sets up in memory for the script.                      *)
(*                                                                         *)
(* The kernel heap hands out aligned, disjoint blocks of its region, for   *)
(* every word size, region and set of requests that cannot wrap.           *)
(*                                                                         *)
(* The RAM disk gives every file back that was packed under a name that    *)
(* fits, for every number of files, names and contents.  What carries it   *)
(* is where the parts of the image lie: the n-th header and the data of    *)
(* the n-th file start where the lengths of all before them end.           *)
(***************************************************************************)
EXTENDS Mem, Initrd, FiniteSetTheorems, SequenceTheorems,
        WellFoundedInduction, TLAPS

-----------------------------------------------------------------------------
(* A sum below WORD is not changed by the machine's arithmetic. *)
LEMMA NoCarry ==
  ASSUME NEW a \in Nat, a < WORD
  PROVE  a % WORD = a
BY MemAssumption

(* AlignUp moves an address that leaves room for the padding to the next   *)
(* multiple of four.                                                       *)
LEMMA AlignUpFacts ==
  ASSUME NEW a \in Nat, a + 4 <= WORD
  PROVE  /\ AlignUp(a) \in Nat
         /\ AlignUp(a) >= a
         /\ AlignUp(a) <= a + 3
         /\ AlignUp(a) % 4 = 0
<1>1. CASE a % 4 = 0
  BY <1>1 DEF AlignUp
<1>2. CASE a % 4 # 0
  <2> DEFINE b == a + (4 - (a % 4))
  <2>1. b \in Nat /\ b > a /\ b <= a + 3 /\ b % 4 = 0
    BY <1>2
  <2>2. b % WORD = b
    BY <2>1, NoCarry, MemAssumption
  <2> QED
    BY <1>2, <2>1, <2>2 DEF AlignUp
<1> QED
  BY <1>1, <1>2

LEMMA MemInvInit == MemInit => MemInv
BY MemAssumption
   DEF MemInit, MemInv, TypeOK, HeapRegion, BlocksBelow, BlocksInHeap,
       BlocksDisjoint, BlocksAligned, Addr

(* mem_initialize sets up an empty region. *)
LEMMA MemInvInitialize ==
  MemInv /\ mem_initialize => MemInv'
<1> SUFFICES ASSUME MemInv, mem_initialize PROVE MemInv'
  OBVIOUS
<1>1. blocks = {}
  BY MemAssumption DEF MemInv, HeapRegion, mem_initialize
<1>2. heap_end' = HEAP_START + HEAP_SIZE
  BY NoCarry, MemAssumption DEF mem_initialize
<1> QED
  BY <1>1, <1>2, MemAssumption
     DEF mem_initialize, MemInv, TypeOK, HeapRegion, BlocksBelow,
         BlocksInHeap, BlocksDisjoint, BlocksAligned, Addr

(* kmalloc extends the used part of the region by one block. *)
LEMMA MemInvKmalloc ==
  ASSUME RequestsDoNotWrap, MemInv, NEW request \in Requests, kmalloc(request)
  PROVE  MemInv'
<1> DEFINE top == current_addr + request
<1>1. CASE UNCHANGED memVars
  BY <1>1 DEF memVars, MemInv, TypeOK, HeapRegion, BlocksBelow, BlocksInHeap,
              BlocksDisjoint, BlocksAligned
<1>2. CASE ~DoesNotFit(request) /\ ~UNCHANGED memVars
  <2>1. /\ current_addr \in Nat /\ heap_end \in Nat /\ request \in Nat
        /\ current_addr <= HEAP_START + HEAP_SIZE + 3
    BY MemAssumption DEF MemInv, TypeOK, HeapRegion, Addr
  <2>2. top \in Nat /\ top % WORD = top
    BY <2>1, NoCarry, MemAssumption DEF RequestsDoNotWrap
  <2>3. top <= heap_end
    BY <1>2, <2>1, <2>2 DEF DoesNotFit
  <2>4. /\ current_addr' = AlignUp(top)
        /\ blocks' = blocks \cup
             {[ptr |-> p, size |-> request] : p \in {current_addr} \ {0}}
        /\ UNCHANGED <<heap_start, heap_end>>
    BY <1>2, <2>2 DEF kmalloc
  <2>5. CASE heap_end = 0
    <3>1. top = 0 /\ current_addr = 0 /\ request = 0
      BY <2>1, <2>3, <2>5
    <3>2. UNCHANGED memVars
      BY <2>4, <3>1 DEF AlignUp, memVars
    <3> QED
      BY <1>2, <3>2
  <2>6. CASE heap_end # 0
    <3>1. /\ heap_start = HEAP_START
          /\ heap_end = HEAP_START + HEAP_SIZE
          /\ current_addr >= heap_start
          /\ current_addr % 4 = 0
      BY <2>6 DEF MemInv, HeapRegion
    <3>2. blocks' = blocks \cup {[ptr |-> current_addr, size |-> request]}
      BY <2>1, <2>4, <3>1, MemAssumption
    <3>3. /\ current_addr' \in Nat
          /\ current_addr' >= top
          /\ current_addr' <= heap_end + 3
          /\ current_addr' % 4 = 0
      BY <2>1, <2>2, <2>3, <2>4, <3>1, AlignUpFacts, MemAssumption
    <3>4. TypeOK'
      BY <2>1, <2>4, <3>1, <3>2, <3>3, MemAssumption
         DEF MemInv, TypeOK, Addr
    <3>5. HeapRegion'
      BY <2>1, <2>2, <2>4, <3>1, <3>3, MemAssumption DEF HeapRegion
    <3>6. BlocksBelow'
      BY <2>1, <2>2, <3>2, <3>3 DEF MemInv, BlocksBelow, TypeOK, Addr
    <3>7. BlocksInHeap'
      BY <2>1, <2>3, <2>4, <3>1, <3>2 DEF MemInv, BlocksInHeap
    <3>8. BlocksDisjoint'
      BY <3>2 DEF MemInv, BlocksDisjoint, BlocksBelow
    <3>9. BlocksAligned'
      BY <3>1, <3>2 DEF MemInv, BlocksAligned
    <3> QED
      BY <3>4, <3>5, <3>6, <3>7, <3>8, <3>9 DEF MemInv
  <2> QED
    BY <2>5, <2>6
<1> QED
  BY <1>1, <1>2 DEF kmalloc

(***************************************************************************)
(* The inductive invariant of mem.c holds in every reachable state, for    *)
(* every heap region and every set of requests that cannot wrap.           *)
(***************************************************************************)
THEOREM MemInvariant ==
  ASSUME RequestsDoNotWrap
  PROVE  MemSpec => []MemInv
<1>1. MemInit => MemInv
  BY MemInvInit
<1>2. MemInv /\ [MemNext]_memVars => MemInv'
  <2> SUFFICES ASSUME MemInv, [MemNext]_memVars PROVE MemInv'
    OBVIOUS
  <2>1. CASE mem_initialize
    BY <2>1, MemInvInitialize
  <2>2. ASSUME NEW request \in Requests, kmalloc(request) PROVE MemInv'
    BY <2>2, MemInvKmalloc
  <2>3. CASE UNCHANGED memVars
    BY <2>3 DEF memVars, MemInv, TypeOK, HeapRegion, BlocksBelow, BlocksInHeap,
                BlocksDisjoint, BlocksAligned
  <2> QED
    BY <2>1, <2>2, <2>3 DEF MemNext, kfree
<1> QED
  BY <1>1, <1>2, PTL DEF MemSpec

(***************************************************************************)
(* What callers of kmalloc rely on: blocks inside the heap, and no byte in *)
(* two blocks.                                                             *)
(***************************************************************************)
THEOREM KmallocBlocksAreSeparate ==
  ASSUME RequestsDoNotWrap
  PROVE  MemSpec => [](BlocksInHeap /\ BlocksDisjoint)
<1>1. MemInv => BlocksInHeap /\ BlocksDisjoint
  BY DEF MemInv
<1> QED
  BY <1>1, MemInvariant, PTL
-----------------------------------------------------------------------------
(* Induction over the numbers, as the least counterexample. *)
LEMMA LeastNumber ==
  ASSUME NEW S \in SUBSET Nat, S # {}
  PROVE  \E x \in S : \A y \in S : x <= y
<1>1. PICK x \in S : \A y \in S : <<y, x>> \notin OpToRel(<, Nat)
  BY NatLessThanWellFounded, WFMin
<1>2. \A y \in S : ~(y < x)
  BY <1>1 DEF OpToRel
<1> QED BY <1>2

(* A function on 1 .. n is a sequence of length n. *)
LEMMA FunctionIsSeq ==
  ASSUME NEW S, NEW n \in Nat, NEW f \in [1 .. n -> S]
  PROVE  f \in Seq(S) /\ Len(f) = n
<1>1. [1 .. n -> S] \in {[1 .. m -> S] : m \in Nat}
  OBVIOUS
<1>2. f \in Seq(S)
  BY <1>1, SeqDef, Zenon
<1>3. DOMAIN f = 1 .. n /\ Len(f) \in Nat /\ DOMAIN f = 1 .. Len(f)
  BY <1>2, LenProperties
<1> QED BY <1>2, <1>3

(* initrd.c reads back the number struct.pack('<I') wrote. *)
LEMMA WordIsPacked ==
  ASSUME NEW n \in Nat
  PROVE  /\ PackWord(n) \in Seq(Nat) /\ Len(PackWord(n)) = 4
         /\ PackWord(n)[1] + 256 * PackWord(n)[2] + 65536 * PackWord(n)[3]
              + 16777216 * PackWord(n)[4] = n
<1>1. PICK a \in Nat, b \in Nat, c \in Nat, d \in Nat :
        /\ a = n % 256 /\ b = (n \div 256) % 256
        /\ c = (n \div 65536) % 256 /\ d = n \div 16777216
  OBVIOUS
<1>2. PackWord(n) = <<a, b, c, d>>
  BY <1>1 DEF PackWord
<1>3. n = a + 256 * (n \div 256)
  BY <1>1
<1>4. n \div 65536 = (n \div 256) \div 256 /\ n \div 16777216 = (n \div 65536) \div 256
  OBVIOUS
<1>5. PICK p \in Nat, q \in Nat : p = n \div 256 /\ q = n \div 65536
  OBVIOUS
<1>6. p = b + 256 * q
  BY <1>1, <1>4, <1>5
<1>7. q = c + 256 * d
  BY <1>1, <1>4, <1>5
<1>8. a + 256 * b + 65536 * c + 16777216 * d = n
  BY <1>3, <1>5, <1>6, <1>7
<1> QED BY <1>2, <1>8

LEMMA WordIsFourBytes ==
  ASSUME NEW n \in Nat
  PROVE  PackWord(n) \in Seq(Nat) /\ Len(PackWord(n)) = 4
BY WordIsPacked

(* The first n of the bytes that replace() keeps. *)
Kept(data) == {k \in 1 .. Len(data) :
                 ~(data[k] = CR /\ k < Len(data) /\ data[k + 1] = LF)}
KeptUpTo(data, k) == {m \in Kept(data) : m <= k}

LEMMA KeptCount ==
  ASSUME NEW data \in Seq(0 .. 255), NEW n \in 1 .. Cardinality(Kept(data))
  PROVE  /\ Cardinality(Kept(data)) \in Nat
         /\ \E k \in Kept(data) : Cardinality(KeptUpTo(data, k)) = n
<1>1. Len(data) \in Nat
  BY LenProperties
<1>2. IsFiniteSet(1 .. Len(data))
  BY <1>1, FS_Interval
<1>3. IsFiniteSet(Kept(data)) /\ \A k : IsFiniteSet(KeptUpTo(data, k))
  BY <1>2, FS_Subset DEF Kept, KeptUpTo
<1>4. Cardinality(Kept(data)) \in Nat /\ \A k : Cardinality(KeptUpTo(data, k)) \in Nat
  BY <1>3, FS_CardinalityType
<1> DEFINE S == {k \in Nat : Cardinality(KeptUpTo(data, k)) >= n}
<1>5. Len(data) \in S
  <2>1. KeptUpTo(data, Len(data)) = Kept(data)
    BY <1>1 DEF Kept, KeptUpTo
  <2> QED BY <1>1, <1>4, <2>1
<1>6. PICK x \in S : \A y \in S : x <= y
  BY <1>5, LeastNumber
<1>7. x # 0
  <2>1. KeptUpTo(data, 0) = {}
    BY <1>1 DEF Kept, KeptUpTo
  <2>2. Cardinality(KeptUpTo(data, 0)) = 0
    BY <2>1, FS_EmptySet
  <2>3. Cardinality(KeptUpTo(data, x)) >= n /\ n >= 1
    BY <1>4, <1>6
  <2> QED BY <2>2, <2>3
<1>8. x - 1 \in Nat /\ x - 1 \notin S
  BY <1>6, <1>7
<1>9. Cardinality(KeptUpTo(data, x - 1)) < n
  BY <1>4, <1>8
<1>10. x \in Kept(data) /\ KeptUpTo(data, x) = KeptUpTo(data, x - 1) \cup {x}
  <2>1. x \notin Kept(data) => KeptUpTo(data, x) = KeptUpTo(data, x - 1)
    BY <1>1, <1>6 DEF Kept, KeptUpTo
  <2>2. x \in Kept(data)
    BY <1>4, <1>6, <1>9, <2>1
  <2>3. \A m \in Kept(data) : m <= x <=> m <= x - 1 \/ m = x
    BY <1>1, <1>6 DEF Kept
  <2> QED BY <2>2, <2>3 DEF KeptUpTo
<1>11. Cardinality(KeptUpTo(data, x)) <= Cardinality(KeptUpTo(data, x - 1)) + 1
  <2>1. IsFiniteSet(KeptUpTo(data, x - 1))
    BY <1>3
  <2>2. Cardinality(KeptUpTo(data, x - 1) \cup {x})
          = IF x \in KeptUpTo(data, x - 1) THEN Cardinality(KeptUpTo(data, x - 1))
            ELSE Cardinality(KeptUpTo(data, x - 1)) + 1
    BY <2>1, FS_AddElement
  <2> QED BY <1>4, <1>10, <2>2
<1>12. Cardinality(KeptUpTo(data, x)) = n
  BY <1>4, <1>6, <1>9, <1>11
<1> QED BY <1>4, <1>10, <1>12

(* What mkinitrd.py stores of a file are bytes. *)
LEMMA FileDataIsBytes ==
  ASSUME NEW data \in Seq(0 .. 255)
  PROVE  FileData(data) \in Seq(0 .. 255)
<1>1. UnixLines(data) \in Seq(0 .. 255)
  <2> DEFINE e(n) == data[CHOOSE k \in Kept(data) : Cardinality(KeptUpTo(data, k)) = n]
  <2>1. UnixLines(data) = [n \in 1 .. Cardinality(Kept(data)) |-> e(n)]
    BY DEF UnixLines, Kept, KeptUpTo
  <2>2. \A n \in 1 .. Cardinality(Kept(data)) : e(n) \in 0 .. 255
    <3> TAKE n \in 1 .. Cardinality(Kept(data))
    <3>1. PICK k \in Kept(data) :
            k = CHOOSE m \in Kept(data) : Cardinality(KeptUpTo(data, m)) = n
      BY KeptCount
    <3>2. k \in 1 .. Len(data)
      BY DEF Kept
    <3> QED BY <3>1, <3>2, ElementOfSeq
  <2>3. Cardinality(Kept(data)) \in Nat
    <3>1. IsFiniteSet(1 .. Len(data))
      BY LenProperties, FS_Interval
    <3>2. IsFiniteSet(Kept(data))
      BY <3>1, FS_Subset DEF Kept
    <3> QED BY <3>2, FS_CardinalityType
  <2> HIDE DEF e
  <2>4. PICK c, B, f : /\ c = Cardinality(Kept(data)) /\ c \in Nat /\ B = 0 .. 255
                       /\ f = [n \in 1 .. c |-> e(n)]
    BY <2>3
  <2>5. \A n \in 1 .. c : f[n] \in B
    BY <2>2, <2>4
  <2>6. f \in [1 .. c -> B]
    BY <2>4, <2>5
  <2>7. f \in Seq(B)
    <3>1. c \in Nat
      BY <2>4
    <3> QED BY <2>6, <3>1, FunctionIsSeq, Zenon
  <2> QED BY <2>1, <2>4, <2>7, Zenon
<1>2. Append(UnixLines(data), LF) \in Seq(0 .. 255)
  BY <1>1 DEF LF
<1> QED BY <1>1, <1>2 DEF FileData

(* The name field holds the name as it was cut, which leaves room for NUL. *)
LEMMA NameField ==
  ASSUME NEW s \in Seq(1 .. 127)
  PROVE  /\ PackedName(s) \in Seq(0 .. 127) /\ Len(PackedName(s)) = NAME_LEN
         /\ PackedName(s)[NAME_LEN] = NUL
         /\ CutName(s) \in Seq(1 .. 127) /\ Fits(CutName(s))
         /\ \A k \in 1 .. NAME_LEN : PackedName(s)[k] = At(CutName(s), k)
<1>1. NAME_LEN \in Nat /\ NAME_LEN > 1 /\ Len(s) \in Nat
  BY InitrdAssumption, LenProperties
<1>2. PICK n \in Nat : /\ n = (IF Len(s) < NAME_LEN THEN Len(s) ELSE NAME_LEN - 1)
                       /\ n <= Len(s) /\ n < NAME_LEN
  BY <1>1
<1>3. PICK cut \in Seq(1 .. 127) : /\ cut = CutName(s) /\ Len(cut) = n
                                   /\ cut \in Seq(0 .. 127)
  <2>1. \A k \in 1 .. n : s[k] \in 1 .. 127
    <3> TAKE k \in 1 .. n
    <3>1. k \in 1 .. Len(s)
      BY <1>1, <1>2
    <3> QED BY <3>1, ElementOfSeq
  <2>2. 1 \in Int /\ n \in Int
    OBVIOUS
  <2>3. /\ SubSeq(s, 1, n) \in Seq(1 .. 127)
        /\ Len(SubSeq(s, 1, n)) = IF 1 <= n THEN n - 1 + 1 ELSE 0
    BY <2>1, <2>2, SubSeqProperties
  <2>4. \A k \in 1 .. n : s[k] \in 0 .. 127
    BY <2>1
  <2>5. SubSeq(s, 1, n) \in Seq(0 .. 127)
    BY <2>2, <2>4, SubSeqProperties
  <2>6. CutName(s) = SubSeq(s, 1, n)
    BY <1>2 DEF CutName, Fits
  <2>7. Len(SubSeq(s, 1, n)) = n
    BY <2>3
  <2> QED BY <2>3, <2>5, <2>6, <2>7
<1>4. PICK pad \in Seq(0 .. 127) : /\ pad = [k \in 1 .. NAME_LEN - n |-> NUL]
                                   /\ Len(pad) = NAME_LEN - n
                                   /\ \A k \in 1 .. NAME_LEN - n : pad[k] = NUL
  <2>1. PICK pad : pad = [k \in 1 .. NAME_LEN - n |-> NUL]
    OBVIOUS
  <2>2. NAME_LEN - n \in Nat
    BY <1>1, <1>2
  <2>3. pad \in [1 .. NAME_LEN - n -> 0 .. 127]
    BY <2>1 DEF NUL
  <2>4. pad \in Seq(0 .. 127)
    BY <2>2, <2>3, FunctionIsSeq
  <2>5. Len(pad) = NAME_LEN - n
    BY <2>2, <2>3, FunctionIsSeq
  <2> QED BY <2>1, <2>4, <2>5
<1>5. PackedName(s) = cut \o pad
  BY <1>2, <1>3, <1>4 DEF PackedName
<1>6. /\ PackedName(s) \in Seq(0 .. 127) /\ Len(PackedName(s)) = NAME_LEN
      /\ \A k \in 1 .. NAME_LEN : PackedName(s)[k] = IF k <= n THEN cut[k] ELSE NUL
  <2>1. /\ cut \o pad \in Seq(0 .. 127)
        /\ Len(cut \o pad) = Len(cut) + Len(pad)
        /\ \A k \in 1 .. Len(cut) + Len(pad) :
             (cut \o pad)[k] = IF k <= Len(cut) THEN cut[k] ELSE pad[k - Len(cut)]
    BY ConcatProperties
  <2>2. Len(cut) + Len(pad) = NAME_LEN
    BY <1>1, <1>2, <1>3, <1>4
  <2>3. ASSUME NEW k \in 1 .. NAME_LEN
        PROVE  PackedName(s)[k] = IF k <= n THEN cut[k] ELSE NUL
    <3>1. (cut \o pad)[k] = IF k <= n THEN cut[k] ELSE pad[k - n]
      BY <1>3, <2>1, <2>2
    <3>2. ~(k <= n) => k - n \in 1 .. NAME_LEN - n
      BY <1>1, <1>2
    <3> QED BY <1>4, <1>5, <3>1, <3>2
  <2> QED BY <1>5, <2>1, <2>2, <2>3
<1>7. PackedName(s)[NAME_LEN] = NUL
  BY <1>1, <1>2, <1>6
<1>8. \A k \in 1 .. NAME_LEN : PackedName(s)[k] = At(CutName(s), k)
  BY <1>3, <1>6 DEF At
<1>9. Fits(CutName(s))
  BY <1>2, <1>3 DEF Fits
<1> QED BY <1>3, <1>6, <1>7, <1>8, <1>9
-----------------------------------------------------------------------------
(* FlattenSeq's recursion has its one solution. *)
FlatTurns(f, s, n) ==
  f = [k \in 1 .. n |-> IF k = 1 THEN s[k] ELSE f[k - 1] \o s[k]]

LEMMA FlatExists ==
  ASSUME NEW s, NEW n \in Nat
  PROVE  \E f : FlatTurns(f, s, n)
<1> DEFINE S == {m \in Nat : ~\E f : FlatTurns(f, s, m)}
<1>1. SUFFICES ASSUME S # {} PROVE FALSE
  OBVIOUS
<1>2. PICK x \in S : \A y \in S : x <= y
  BY <1>1, LeastNumber
<1>3. CASE x = 0
  <2>1. PICK f : f = [k \in 1 .. 0 |-> s[k]]
    OBVIOUS
  <2>2. FlatTurns(f, s, 0)
    BY <2>1 DEF FlatTurns
  <2> QED BY <1>2, <1>3, <2>2
<1>4. CASE x # 0
  <2>1. x - 1 \in Nat /\ x - 1 \notin S
    BY <1>2, <1>4
  <2>2. PICK f : FlatTurns(f, s, x - 1)
    BY <2>1
  <2>3. PICK g : g = [k \in 1 .. x |->
                       IF k = x THEN (IF x = 1 THEN s[x] ELSE f[x - 1] \o s[x]) ELSE f[k]]
    OBVIOUS
  <2>4. ASSUME NEW k \in 1 .. x
        PROVE  g[k] = IF k = 1 THEN s[k] ELSE g[k - 1] \o s[k]
    <3>1. CASE k = x
      <4>1. x # 1 => g[x - 1] = f[x - 1]
        BY <1>2, <1>4, <2>3
      <4> QED BY <2>3, <3>1, <4>1
    <3>2. CASE k # x
      <4>1. k \in 1 .. x - 1 /\ g[k] = f[k]
        BY <1>2, <2>3, <3>2
      <4>2. f[k] = IF k = 1 THEN s[k] ELSE f[k - 1] \o s[k]
        BY <2>2, <4>1 DEF FlatTurns
      <4>3. k # 1 => k - 1 \in 1 .. x /\ k - 1 # x
        BY <1>2, <4>1
      <4>4. k # 1 => g[k - 1] = f[k - 1]
        BY <2>3, <4>3
      <4> QED BY <4>1, <4>2, <4>4
    <3> QED BY <3>1, <3>2
  <2>5. FlatTurns(g, s, x)
    <3>1. g = [k \in 1 .. x |-> g[k]]
      BY <2>3
    <3> QED BY <2>4, <3>1 DEF FlatTurns
  <2> QED BY <1>2, <2>5
<1> QED BY <1>3, <1>4

(* g[k] is the first k sequences of s, one after the other. *)
Joins(g, s) ==
  /\ g \in [0 .. Len(s) -> Seq(Nat)]
  /\ g[0] = << >>
  /\ \A k \in 1 .. Len(s) : g[k] = g[k - 1] \o s[k]

LEMMA Flattened ==
  ASSUME NEW s \in Seq(Seq(Nat))
  PROVE  \E g : Joins(g, s) /\ FlattenSeq(s) = g[Len(s)]
<1>1. Len(s) \in Nat /\ \A k \in 1 .. Len(s) : s[k] \in Seq(Nat)
  BY LenProperties, ElementOfSeq
<1>2. PICK f : /\ FlatTurns(f, s, Len(s))
               /\ Len(s) # 0 => FlattenSeq(s) = f[Len(s)]
  <2>1. \E f : FlatTurns(f, s, Len(s))
    BY <1>1, FlatExists
  <2>2. Len(s) # 0 => FlattenSeq(s) = (CHOOSE f : FlatTurns(f, s, Len(s)))[Len(s)]
    BY DEF FlattenSeq, FlatTurns
  <2> QED BY <2>1, <2>2
<1>3. PICK g : g = [k \in 0 .. Len(s) |-> IF k = 0 THEN << >> ELSE f[k]]
  OBVIOUS
<1>4. g[0] = << >>
  BY <1>1, <1>3
<1>5. ASSUME NEW k \in 1 .. Len(s)
      PROVE  g[k] = g[k - 1] \o s[k]
  <2>1. g[k] = IF k = 1 THEN s[k] ELSE f[k - 1] \o s[k]
    <3>1. g[k] = f[k]
      BY <1>1, <1>3
    <3> QED BY <1>2, <3>1 DEF FlatTurns
  <2>2. CASE k = 1
    <3>1. << >> \o s[k] = s[k]
      BY <1>1, ConcatEmptySeq
    <3>2. k - 1 = 0
      BY <2>2
    <3> QED BY <1>4, <2>1, <2>2, <3>1, <3>2
  <2>3. CASE k # 1
    <3>1. k - 1 \in 0 .. Len(s) /\ k - 1 # 0
      BY <1>1, <2>3
    <3>2. g[k - 1] = f[k - 1]
      BY <1>3, <3>1
    <3> QED BY <2>1, <2>3, <3>2
  <2> QED BY <2>2, <2>3
<1>6. \A k \in 0 .. Len(s) : g[k] \in Seq(Nat)
  <2> DEFINE S == {k \in 0 .. Len(s) : g[k] \notin Seq(Nat)}
  <2>1. SUFFICES ASSUME S # {} PROVE FALSE
    OBVIOUS
  <2>2. S \in SUBSET Nat
    OBVIOUS
  <2>3. PICK x \in S : \A y \in S : x <= y
    BY <2>1, <2>2, LeastNumber
  <2>4. x # 0
    <3>1. << >> \in Seq(Nat)
      BY EmptySeq
    <3> QED BY <1>4, <2>3, <3>1
  <2>5. x \in 1 .. Len(s) /\ x - 1 \in 0 .. Len(s)
    BY <1>1, <2>3, <2>4
  <2>6. x - 1 \notin S
    BY <2>3, <2>5
  <2>7. g[x - 1] \in Seq(Nat)
    BY <2>5, <2>6
  <2>8. g[x - 1] \o s[x] \in Seq(Nat)
    BY <1>1, <2>5, <2>7, ConcatProperties
  <2> QED BY <1>5, <2>3, <2>5, <2>8
<1>7. g \in [0 .. Len(s) -> Seq(Nat)]
  BY <1>3, <1>6
<1>8. FlattenSeq(s) = g[Len(s)]
  <2>1. CASE Len(s) = 0
    <3>1. s = << >>
      BY <2>1, EmptySeq
    <3>2. FlattenSeq(s) = s
      BY <2>1 DEF FlattenSeq
    <3> QED BY <1>4, <2>1, <3>1, <3>2
  <2>2. CASE Len(s) # 0
    <3>1. Len(s) \in 0 .. Len(s)
      BY <1>1
    <3> QED BY <1>2, <1>3, <2>2, <3>1
  <2> QED BY <2>1, <2>2
<1> QED BY <1>4, <1>5, <1>7, <1>8 DEF Joins
(* w is u followed by v; w begins with u. *)
Follows(w, u, v) ==
  /\ Len(w) = Len(u) + Len(v)
  /\ \A b \in 1 .. Len(u) : w[b] = u[b]
  /\ \A b \in 1 .. Len(v) : w[Len(u) + b] = v[b]
Begins(w, u) ==
  Len(u) <= Len(w) /\ \A b \in 1 .. Len(u) : w[b] = u[b]

LEMMA ConcatFollows ==
  ASSUME NEW u \in Seq(Nat), NEW v \in Seq(Nat)
  PROVE  u \o v \in Seq(Nat) /\ Follows(u \o v, u, v)
<1>1. PICK w \in Seq(Nat) : w = u \o v
  BY ConcatProperties
<1>2. PICK m \in Nat, n \in Nat : m = Len(u) /\ n = Len(v)
  BY LenProperties
<1>3. /\ Len(w) = m + n
      /\ \A b \in 1 .. m + n : w[b] = IF b <= m THEN u[b] ELSE v[b - m]
  BY <1>1, <1>2, ConcatProperties
<1>4. \A b \in 1 .. m : w[b] = u[b]
  BY <1>3
<1>5. ASSUME NEW b \in 1 .. n PROVE w[m + b] = v[b]
  <2>1. m + b \in 1 .. m + n /\ ~(m + b <= m) /\ m + b - m = b
    OBVIOUS
  <2>2. w[m + b] = v[m + b - m]
    BY <1>3, <2>1
  <2> QED BY <2>1, <2>2
<1>6. Follows(w, u, v)
  BY <1>2, <1>3, <1>4, <1>5 DEF Follows
<1> QED BY <1>1, <1>6

LEMMA BeginsOnward ==
  ASSUME NEW u \in Seq(Nat), NEW v \in Seq(Nat), NEW w \in Seq(Nat), NEW z \in Seq(Nat),
         Begins(v, u), Follows(w, v, z)
  PROVE  Begins(w, u)
<1>1. PICK m \in Nat, n \in Nat, p \in Nat, q \in Nat :
        m = Len(u) /\ n = Len(v) /\ p = Len(w) /\ q = Len(z)
  BY LenProperties
<1>2. m <= n /\ p = n + q
  BY <1>1 DEF Begins, Follows
<1>3. ASSUME NEW b \in 1 .. m PROVE w[b] = u[b]
  <2>1. b \in 1 .. n
    BY <1>2
  <2> QED BY <1>1, <1>3, <2>1 DEF Begins, Follows
<1>4. m <= p
  BY <1>2
<1> QED BY <1>1, <1>3, <1>4 DEF Begins

LEMMA FollowsBegins ==
  ASSUME NEW u \in Seq(Nat), NEW v \in Seq(Nat), NEW w \in Seq(Nat), NEW z \in Seq(Nat),
         Begins(z, w), Follows(w, u, v), NEW b \in 1 .. Len(v)
  PROVE  /\ Len(u) + b \in 1 .. Len(z)
         /\ z[Len(u) + b] = v[b]
<1>1. PICK m \in Nat, n \in Nat, p \in Nat, q \in Nat :
        m = Len(u) /\ n = Len(v) /\ p = Len(w) /\ q = Len(z)
  BY LenProperties
<1>2. p <= q /\ p = m + n
  BY <1>1 DEF Begins, Follows
<1>3. m + b \in 1 .. p /\ m + b \in 1 .. q
  <2>1. b \in 1 .. n
    BY <1>1
  <2> QED BY <1>2, <2>1
<1>4. z[m + b] = w[m + b]
  BY <1>1, <1>3 DEF Begins
<1>5. w[m + b] = v[b]
  BY <1>1 DEF Follows
<1> QED BY <1>1, <1>3, <1>4, <1>5

LEMMA JoinStep ==
  ASSUME NEW s \in Seq(Seq(Nat)), NEW g, Joins(g, s), NEW k \in 1 .. Len(s)
  PROVE  /\ s[k] \in Seq(Nat) /\ g[k] \in Seq(Nat) /\ g[k - 1] \in Seq(Nat)
         /\ Follows(g[k], g[k - 1], s[k])
<1>1. Len(s) \in Nat /\ k \in 0 .. Len(s) /\ k - 1 \in 0 .. Len(s)
  BY LenProperties
<1>2. s[k] \in Seq(Nat) /\ g[k] \in Seq(Nat) /\ g[k - 1] \in Seq(Nat)
  BY <1>1, ElementOfSeq DEF Joins
<1>3. g[k] = g[k - 1] \o s[k]
  BY DEF Joins
<1> QED BY <1>2, <1>3, ConcatFollows

(* What is appended later disturbs nothing. *)
LEMMA JoinKeeps ==
  ASSUME NEW s \in Seq(Seq(Nat)), NEW g, Joins(g, s),
         NEW m \in 0 .. Len(s), NEW n \in m .. Len(s)
  PROVE  g[m] \in Seq(Nat) /\ g[n] \in Seq(Nat) /\ Begins(g[n], g[m])
<1>1. PICK l \in Nat : l = Len(s)
  BY LenProperties
<1>2. \A k \in 0 .. l : g[k] \in Seq(Nat)
  BY <1>1 DEF Joins
<1> DEFINE S == {k \in m .. l : ~Begins(g[k], g[m])}
<1>3. S = {}
  <2> SUFFICES ASSUME S # {} PROVE FALSE
    OBVIOUS
  <2>1. S \in SUBSET Nat
    BY <1>1
  <2>2. PICK x \in S : \A y \in S : x <= y
    BY <2>1, LeastNumber
  <2>3. x \in m .. l /\ ~Begins(g[x], g[m])
    BY <2>2
  <2>4. x # m
    <3>1. Len(g[m]) \in Nat
      BY <1>1, <1>2, LenProperties
    <3>2. Begins(g[m], g[m])
      BY <3>1 DEF Begins
    <3> QED BY <2>3, <3>2
  <2>5. x \in 1 .. l /\ x - 1 \in m .. l /\ m \in 0 .. l /\ x \in 0 .. l /\ x - 1 \in 0 .. l
    BY <1>1, <2>3, <2>4
  <2>6. x - 1 \notin S
    BY <2>2, <2>5
  <2>7. Begins(g[x - 1], g[m])
    BY <2>5, <2>6
  <2>8. s[x] \in Seq(Nat) /\ Follows(g[x], g[x - 1], s[x])
    BY <1>1, <2>5, JoinStep
  <2>9. g[m] \in Seq(Nat) /\ g[x] \in Seq(Nat) /\ g[x - 1] \in Seq(Nat)
    BY <1>2, <2>5
  <2> QED BY <2>3, <2>7, <2>8, <2>9, BeginsOnward
<1>4. n \in m .. l /\ n \in 0 .. l /\ m \in 0 .. l
  BY <1>1
<1> QED BY <1>2, <1>3, <1>4

(* Where the k-th sequence lies among all of them. *)
LEMMA JoinAt ==
  ASSUME NEW s \in Seq(Seq(Nat)), NEW g, Joins(g, s),
         NEW k \in 1 .. Len(s), NEW b \in 1 .. Len(s[k])
  PROVE  /\ Len(g[k - 1]) + b \in 1 .. Len(g[Len(s)])
         /\ g[Len(s)][Len(g[k - 1]) + b] = s[k][b]
<1>1. Len(s) \in Nat /\ Len(s) \in k .. Len(s) /\ k \in 0 .. Len(s)
  BY LenProperties
<1>2. g[Len(s)] \in Seq(Nat) /\ Begins(g[Len(s)], g[k])
  BY <1>1, JoinKeeps
<1>3. /\ s[k] \in Seq(Nat) /\ g[k] \in Seq(Nat) /\ g[k - 1] \in Seq(Nat)
      /\ Follows(g[k], g[k - 1], s[k])
  BY JoinStep
<1>4. PICK u \in Seq(Nat), v \in Seq(Nat), w \in Seq(Nat), z \in Seq(Nat) :
        u = g[k - 1] /\ v = s[k] /\ w = g[k] /\ z = g[Len(s)]
  BY <1>2, <1>3
<1>5. b \in 1 .. Len(v) /\ Begins(z, w) /\ Follows(w, u, v)
  BY <1>2, <1>3, <1>4
<1>6. Len(u) + b \in 1 .. Len(z) /\ z[Len(u) + b] = v[b]
  BY <1>5, FollowsBegins
<1> QED BY <1>4, <1>6

(* Sequences of one length. *)
LEMMA JoinEqual ==
  ASSUME NEW s \in Seq(Seq(Nat)), NEW g, Joins(g, s),
         NEW h \in Nat, \A k \in 1 .. Len(s) : Len(s[k]) = h,
         NEW n \in 0 .. Len(s)
  PROVE  Len(g[n]) = n * h
<1>1. PICK l \in Nat : l = Len(s)
  BY LenProperties
<1> DEFINE S == {k \in 0 .. l : Len(g[k]) # k * h}
<1>2. S = {}
  <2> SUFFICES ASSUME S # {} PROVE FALSE
    OBVIOUS
  <2>1. S \in SUBSET Nat
    OBVIOUS
  <2>2. PICK x \in S : \A y \in S : x <= y
    BY <2>1, LeastNumber
  <2>3. x \in 0 .. l /\ Len(g[x]) # x * h
    BY <2>2
  <2>4. x # 0
    <3>1. Len(g[0]) = 0
      BY EmptySeq DEF Joins
    <3>2. 0 * h = 0
      OBVIOUS
    <3> QED BY <2>3, <3>1, <3>2
  <2>5. x \in 1 .. l /\ x - 1 \in 0 .. l
    BY <2>3, <2>4
  <2>6. x - 1 \notin S
    BY <2>2, <2>5
  <2>7. Len(g[x - 1]) = (x - 1) * h
    BY <2>5, <2>6
  <2>8. Len(g[x]) = Len(g[x - 1]) + Len(s[x])
    <3>1. x \in 1 .. Len(s)
      BY <1>1, <2>5
    <3>2. Follows(g[x], g[x - 1], s[x])
      BY <3>1, JoinStep
    <3> QED BY <3>2 DEF Follows
  <2>9. Len(s[x]) = h
    BY <1>1, <2>5
  <2>10. (x - 1) * h + h = x * h
    BY <2>5
  <2> QED BY <2>3, <2>7, <2>8, <2>9, <2>10
<1>3. n \in 0 .. l
  BY <1>1
<1> QED BY <1>2, <1>3
LEMMA JoinsAgree ==
  ASSUME NEW s \in Seq(Seq(Nat)), NEW t \in Seq(Seq(Nat)), NEW f, NEW g,
         Joins(f, s), Joins(g, t), Len(s) <= Len(t),
         \A k \in 1 .. Len(s) : s[k] = t[k],
         NEW n \in 0 .. Len(s)
  PROVE  f[n] = g[n]
<1>1. PICK l \in Nat, p \in Nat : l = Len(s) /\ p = Len(t)
  BY LenProperties
<1> DEFINE S == {k \in 0 .. l : f[k] # g[k]}
<1>2. S = {}
  <2> SUFFICES ASSUME S # {} PROVE FALSE
    OBVIOUS
  <2>1. S \in SUBSET Nat
    OBVIOUS
  <2>2. PICK x \in S : \A y \in S : x <= y
    BY <2>1, LeastNumber
  <2>3. x \in 0 .. l /\ f[x] # g[x]
    BY <2>2
  <2>4. x # 0
    BY <2>3 DEF Joins
  <2>5. x \in 1 .. l /\ x - 1 \in 0 .. l /\ x \in 1 .. p
    BY <1>1, <2>3, <2>4
  <2>6. x - 1 \notin S
    BY <2>2, <2>5
  <2>7. f[x - 1] = g[x - 1]
    BY <2>5, <2>6
  <2>8. f[x] = f[x - 1] \o s[x] /\ g[x] = g[x - 1] \o t[x]
    BY <1>1, <2>5 DEF Joins
  <2> QED BY <1>1, <2>3, <2>5, <2>7, <2>8
<1>3. n \in 0 .. l
  BY <1>1
<1> QED BY <1>2, <1>3

-----------------------------------------------------------------------------
(* Where everything lies in the image.  DataStart(fs, k) is the number of  *)
(* data bytes of the first k files.                                        *)
File == [name : Names, data : Contents]
HeaderSeqs(fs) == [k \in 1 .. Len(fs) |-> Header(fs[k])]
DataSeqs(fs, n) == [k \in 1 .. n |-> FileData(fs[k].data)]
DataStart(fs, n) == Len(FlattenSeq(DataSeqs(fs, n)))

StartsAddUp(fs) ==
  /\ DataStart(fs, 0) = 0
  /\ \A k \in 0 .. Len(fs) : /\ DataStart(fs, k) \in Nat
                             /\ DataStart(fs, k) <= DataStart(fs, Len(fs))
  /\ \A k \in 1 .. Len(fs) :
       DataStart(fs, k) = DataStart(fs, k - 1) + Len(FileData(fs[k].data))

Layout(fs) ==
  /\ Image(fs) \in Seq(Nat)
  /\ Len(Image(fs)) = 4 + Len(fs) * HEADER + DataStart(fs, Len(fs))
  /\ \A b \in 1 .. 4 : Image(fs)[b] = PackWord(Len(fs))[b]
  /\ \A k \in 1 .. Len(fs) : \A b \in 1 .. HEADER :
       Image(fs)[4 + (k - 1) * HEADER + b] = Header(fs[k])[b]
  /\ \A k \in 1 .. Len(fs) : \A b \in 1 .. Len(FileData(fs[k].data)) :
       Image(fs)[4 + Len(fs) * HEADER + DataStart(fs, k - 1) + b]
         = FileData(fs[k].data)[b]

LEMMA FileParts ==
  ASSUME NEW f \in File
  PROVE  /\ f.name \in Seq(1 .. 127) /\ f.data \in Seq(0 .. 255)
         /\ FileData(f.data) \in Seq(Nat) /\ Len(FileData(f.data)) \in Nat
         /\ FileData(f.data) \in Seq(0 .. 255)
<1>1. f.name \in Seq(1 .. 127) /\ f.data \in Seq(0 .. 255)
  BY InitrdAssumption DEF File
<1>2. FileData(f.data) \in Seq(0 .. 255)
  BY <1>1, FileDataIsBytes
<1>3. 0 .. 255 \subseteq Nat
  OBVIOUS
<1>4. FileData(f.data) \in Seq(Nat)
  BY <1>2, <1>3, SeqMonotonic
<1>5. Len(FileData(f.data)) \in Nat
  BY <1>2, LenProperties
<1> QED BY <1>1, <1>2, <1>4, <1>5

LEMMA HeaderParts ==
  ASSUME NEW f \in File
  PROVE  /\ Header(f) \in Seq(Nat) /\ Len(Header(f)) = HEADER
         /\ \A b \in 1 .. NAME_LEN : Header(f)[b] = PackedName(f.name)[b]
         /\ \A b \in 1 .. 4 :
              Header(f)[NAME_LEN + b] = PackWord(Len(FileData(f.data)))[b]
<1>1. /\ PackedName(f.name) \in Seq(0 .. 127)
      /\ Len(PackedName(f.name)) = NAME_LEN
  BY FileParts, NameField
<1>2. 0 .. 127 \subseteq Nat
  OBVIOUS
<1>3. PICK u \in Seq(Nat) : u = PackedName(f.name) /\ Len(u) = NAME_LEN
  BY <1>1, <1>2, SeqMonotonic
<1>4. PICK v \in Seq(Nat) : v = PackWord(Len(FileData(f.data))) /\ Len(v) = 4
  BY FileParts, WordIsPacked
<1>5. Header(f) = u \o v
  BY <1>3, <1>4 DEF Header
<1>6. Header(f) \in Seq(Nat) /\ Follows(Header(f), u, v)
  BY <1>5, ConcatFollows
<1> QED BY <1>3, <1>4, <1>6 DEF Follows, HEADER

LEMMA DataSeqsJoin ==
  ASSUME NEW fs \in Seq(File), NEW n \in 0 .. Len(fs)
  PROVE  /\ DataSeqs(fs, n) \in Seq(Seq(Nat)) /\ Len(DataSeqs(fs, n)) = n
         /\ \A k \in 1 .. n : DataSeqs(fs, n)[k] = FileData(fs[k].data)
<1>1. n \in Nat /\ \A k \in 1 .. n : k \in 1 .. Len(fs)
  BY LenProperties
<1>2. \A k \in 1 .. n : fs[k] \in File
  BY <1>1, ElementOfSeq
<1>3. \A k \in 1 .. n : FileData(fs[k].data) \in Seq(Nat)
  BY <1>2, FileParts
<1>4. DataSeqs(fs, n) \in [1 .. n -> Seq(Nat)]
  BY <1>3 DEF DataSeqs
<1>5. DataSeqs(fs, n) \in Seq(Seq(Nat)) /\ Len(DataSeqs(fs, n)) = n
  BY <1>1, <1>4, FunctionIsSeq
<1>6. \A k \in 1 .. n : DataSeqs(fs, n)[k] = FileData(fs[k].data)
  BY DEF DataSeqs
<1> QED BY <1>5, <1>6

(* DataStart counts what the join of all data has put before. *)
LEMMA DataStarts ==
  ASSUME NEW fs \in Seq(File)
  PROVE  /\ StartsAddUp(fs)
         /\ FlattenSeq(DataSeqs(fs, Len(fs))) \in Seq(Nat)
         /\ \A k \in 1 .. Len(fs) : \A b \in 1 .. Len(FileData(fs[k].data)) :
              FlattenSeq(DataSeqs(fs, Len(fs)))[DataStart(fs, k - 1) + b]
                = FileData(fs[k].data)[b]
<1>1. PICK l \in Nat : l = Len(fs)
  BY LenProperties
<1>2. PICK t \in Seq(Seq(Nat)) : /\ t = DataSeqs(fs, l) /\ Len(t) = l
                                 /\ \A k \in 1 .. l : t[k] = FileData(fs[k].data)
  BY <1>1, DataSeqsJoin
<1>3. PICK g : Joins(g, t) /\ FlattenSeq(t) = g[l]
  BY <1>2, Flattened
<1>4. ASSUME NEW n \in 0 .. l
      PROVE  g[n] \in Seq(Nat) /\ DataStart(fs, n) = Len(g[n]) /\ Len(g[n]) \in Nat
  <2>1. PICK s \in Seq(Seq(Nat)) : /\ s = DataSeqs(fs, n) /\ Len(s) = n
                                   /\ \A k \in 1 .. n : s[k] = FileData(fs[k].data)
    BY <1>1, DataSeqsJoin
  <2>2. PICK f : Joins(f, s) /\ FlattenSeq(s) = f[n]
    BY <2>1, Flattened
  <2>3. \A k \in 1 .. n : k \in 1 .. l
    OBVIOUS
  <2>4. \A k \in 1 .. Len(s) : s[k] = t[k]
    BY <1>2, <2>1, <2>3
  <2>5. Len(s) <= Len(t) /\ n \in 0 .. Len(s)
    BY <1>2, <2>1
  <2>6. f[n] = g[n]
    BY <1>3, <2>2, <2>4, <2>5, JoinsAgree
  <2>7. g[n] \in Seq(Nat)
    BY <1>2, <1>3 DEF Joins
  <2>8. Len(g[n]) \in Nat
    BY <2>7, LenProperties
  <2> QED BY <2>1, <2>2, <2>6, <2>7, <2>8 DEF DataStart
<1>5. StartsAddUp(fs)
  <2>1. 0 \in 0 .. l /\ l \in 0 .. l
    OBVIOUS
  <2>2. DataStart(fs, 0) = 0
    BY <1>3, <1>4, <2>1, EmptySeq DEF Joins
  <2>3. ASSUME NEW k \in 0 .. l PROVE DataStart(fs, k) <= DataStart(fs, l)
    <3>1. k \in 0 .. Len(t) /\ l \in k .. Len(t)
      BY <1>2
    <3>2. Begins(g[l], g[k])
      BY <1>3, <3>1, JoinKeeps
    <3> QED BY <1>4, <2>1, <3>2 DEF Begins
  <2>4. ASSUME NEW k \in 1 .. l
        PROVE  DataStart(fs, k) = DataStart(fs, k - 1) + Len(FileData(fs[k].data))
    <3>1. k \in 1 .. Len(t) /\ k \in 0 .. l /\ k - 1 \in 0 .. l
      BY <1>2
    <3>2. Follows(g[k], g[k - 1], t[k])
      BY <1>3, <3>1, JoinStep
    <3>3. Len(g[k]) = Len(g[k - 1]) + Len(t[k])
      BY <3>2 DEF Follows
    <3> QED BY <1>2, <1>4, <3>1, <3>3
  <2>5. \A k \in 0 .. l : DataStart(fs, k) \in Nat
    BY <1>4
  <2> QED BY <1>1, <2>2, <2>3, <2>4, <2>5 DEF StartsAddUp
<1>6. FlattenSeq(t) \in Seq(Nat)
  BY <1>3, <1>4
<1>7. ASSUME NEW k \in 1 .. l, NEW b \in 1 .. Len(FileData(fs[k].data))
      PROVE  FlattenSeq(t)[DataStart(fs, k - 1) + b] = FileData(fs[k].data)[b]
  <2>1. k \in 1 .. Len(t) /\ k - 1 \in 0 .. l
    BY <1>2
  <2>2. t[k] = FileData(fs[k].data)
    BY <1>2
  <2>3. b \in 1 .. Len(t[k])
    BY <2>2
  <2>4. g[Len(t)][Len(g[k - 1]) + b] = t[k][b]
    BY <1>3, <2>1, <2>3, JoinAt
  <2>5. DataStart(fs, k - 1) = Len(g[k - 1])
    BY <1>4, <2>1
  <2> QED BY <1>2, <1>3, <2>2, <2>4, <2>5
<1> QED BY <1>1, <1>2, <1>5, <1>6, <1>7
LEMMA HeaderSize == HEADER \in Nat /\ HEADER = NAME_LEN + 4 /\ NAME_LEN \in Nat /\ NAME_LEN > 1
BY InitrdAssumption DEF HEADER

LEMMA HeaderStarts ==
  ASSUME NEW fs \in Seq(File)
  PROVE  /\ FlattenSeq(HeaderSeqs(fs)) \in Seq(Nat)
         /\ Len(FlattenSeq(HeaderSeqs(fs))) = Len(fs) * HEADER
         /\ \A k \in 1 .. Len(fs) : \A b \in 1 .. HEADER :
              /\ (k - 1) * HEADER + b \in 1 .. Len(fs) * HEADER
              /\ FlattenSeq(HeaderSeqs(fs))[(k - 1) * HEADER + b] = Header(fs[k])[b]
<1>1. PICK l \in Nat : l = Len(fs)
  BY LenProperties
<1>2. \A k \in 1 .. l : fs[k] \in File
  BY <1>1, ElementOfSeq
<1>3. \A k \in 1 .. l : Header(fs[k]) \in Seq(Nat) /\ Len(Header(fs[k])) = HEADER
  BY <1>2, HeaderParts
<1>4. HeaderSeqs(fs) \in [1 .. l -> Seq(Nat)]
  BY <1>1, <1>3 DEF HeaderSeqs
<1>5. PICK t \in Seq(Seq(Nat)) : t = HeaderSeqs(fs) /\ Len(t) = l
  BY <1>4, FunctionIsSeq
<1>6. \A k \in 1 .. l : t[k] = Header(fs[k])
  BY <1>1, <1>5 DEF HeaderSeqs
<1>7. PICK g : Joins(g, t) /\ FlattenSeq(t) = g[l]
  BY <1>5, Flattened
<1>8. ASSUME NEW n \in 0 .. l PROVE g[n] \in Seq(Nat) /\ Len(g[n]) = n * HEADER
  <2>1. \A k \in 1 .. Len(t) : Len(t[k]) = HEADER
    BY <1>3, <1>5, <1>6
  <2>2. n \in 0 .. Len(t)
    BY <1>5
  <2>3. Len(g[n]) = n * HEADER
    <3>1. PICK h \in Nat : h = HEADER
      BY HeaderSize
    <3>2. Joins(g, t) /\ \A k \in 1 .. Len(t) : Len(t[k]) = h
      BY <1>7, <2>1, <3>1, Zenon
    <3>3. Len(g[n]) = n * h
      BY <2>2, <3>2, JoinEqual, ZenonT(60)
    <3> QED BY <3>1, <3>3, Zenon
  <2> QED BY <1>7, <2>2, <2>3 DEF Joins
<1>9. l \in 0 .. l
  OBVIOUS
<1>10. ASSUME NEW k \in 1 .. l, NEW b \in 1 .. HEADER
       PROVE  /\ (k - 1) * HEADER + b \in 1 .. l * HEADER
              /\ FlattenSeq(t)[(k - 1) * HEADER + b] = Header(fs[k])[b]
  <2>1. k \in 1 .. Len(t) /\ k - 1 \in 0 .. l
    BY <1>5
  <2>2. b \in 1 .. Len(t[k])
    BY <1>3, <1>6
  <2>3. /\ Len(g[k - 1]) + b \in 1 .. Len(g[Len(t)])
        /\ g[Len(t)][Len(g[k - 1]) + b] = t[k][b]
    BY <1>7, <2>1, <2>2, JoinAt
  <2>4. Len(g[k - 1]) = (k - 1) * HEADER /\ Len(g[l]) = l * HEADER
    BY <1>8, <1>9, <2>1
  <2> QED BY <1>5, <1>6, <1>7, <2>3, <2>4
<1> QED BY <1>1, <1>5, <1>7, <1>8, <1>9, <1>10

(* mkinitrd.py puts every header and every byte of data where              *)
(* initrd_get_file's sums lead.                                            *)
LEMMA ImageLayout ==
  ASSUME NEW fs \in Seq(File)
  PROVE  Layout(fs) /\ StartsAddUp(fs)
<1>1. PICK l \in Nat : l = Len(fs)
  BY LenProperties
<1>2. PICK u \in Seq(Nat) : u = PackWord(l) /\ Len(u) = 4
  BY WordIsFourBytes
<1>3. PICK v \in Seq(Nat) : /\ v = FlattenSeq(HeaderSeqs(fs)) /\ Len(v) = l * HEADER
                            /\ \A k \in 1 .. l : \A b \in 1 .. HEADER :
                                 /\ (k - 1) * HEADER + b \in 1 .. Len(v)
                                 /\ v[(k - 1) * HEADER + b] = Header(fs[k])[b]
  <2>1. /\ FlattenSeq(HeaderSeqs(fs)) \in Seq(Nat)
        /\ Len(FlattenSeq(HeaderSeqs(fs))) = Len(fs) * HEADER
        /\ \A k \in 1 .. Len(fs) : \A b \in 1 .. HEADER :
             /\ (k - 1) * HEADER + b \in 1 .. Len(fs) * HEADER
             /\ FlattenSeq(HeaderSeqs(fs))[(k - 1) * HEADER + b] = Header(fs[k])[b]
    BY HeaderStarts, Zenon
  <2>2. PICK v : v = FlattenSeq(HeaderSeqs(fs))
    OBVIOUS
  <2>3. v \in Seq(Nat) /\ Len(v) = l * HEADER
    BY <1>1, <2>1, <2>2, Zenon
  <2>4. \A k \in 1 .. l : \A b \in 1 .. HEADER :
          /\ (k - 1) * HEADER + b \in 1 .. Len(v)
          /\ v[(k - 1) * HEADER + b] = Header(fs[k])[b]
    BY <1>1, <2>1, <2>2, <2>3, Zenon
  <2> QED BY <2>2, <2>3, <2>4, Zenon
<1>4. PICK w \in Seq(Nat) : /\ w = FlattenSeq(DataSeqs(fs, l))
                            /\ \A k \in 1 .. l : \A b \in 1 .. Len(FileData(fs[k].data)) :
                                 w[DataStart(fs, k - 1) + b] = FileData(fs[k].data)[b]
  BY <1>1, DataStarts
<1>5. StartsAddUp(fs)
  BY DataStarts
<1>6. Len(w) = DataStart(fs, l)
  BY <1>4 DEF DataStart
<1>7. PICK y \in Seq(Nat) : y = u \o v /\ Follows(y, u, v)
  BY ConcatFollows
<1>8. PICK z \in Seq(Nat) : z = y \o w /\ Follows(z, y, w)
  BY ConcatFollows
<1>9. Image(fs) = z
  BY <1>1, <1>2, <1>3, <1>4, <1>7, <1>8 DEF Image, HeaderSeqs, DataSeqs
<1>10. PICK p \in Nat : p = l * HEADER /\ Len(v) = p
  BY <1>3, LenProperties
<1>11. Len(y) = 4 + p /\ Len(z) = 4 + p + Len(w) /\ Len(w) \in Nat
  BY <1>2, <1>7, <1>8, <1>10, LenProperties DEF Follows
<1>12. \A b \in 1 .. 4 : z[b] = u[b]
  <2> TAKE b \in 1 .. 4
  <2>1. b \in 1 .. Len(u) /\ b \in 1 .. Len(y)
    BY <1>2, <1>11
  <2>2. y[b] = u[b] /\ z[b] = y[b]
    BY <1>7, <1>8, <2>1 DEF Follows
  <2> QED BY <2>2
<1>13. ASSUME NEW k \in 1 .. l, NEW b \in 1 .. HEADER
       PROVE  z[4 + (k - 1) * HEADER + b] = Header(fs[k])[b]
  <2>1. PICK c \in 1 .. p : c = (k - 1) * HEADER + b /\ v[c] = Header(fs[k])[b]
    BY <1>3, <1>10
  <2>2. 4 + (k - 1) * HEADER + b = 4 + c
    BY <2>1, HeaderSize
  <2>3. y[4 + c] = v[c]
    BY <1>2, <1>7, <1>10 DEF Follows
  <2>4. 4 + c \in 1 .. Len(y)
    BY <1>11
  <2>5. z[4 + c] = y[4 + c]
    BY <1>8, <2>4 DEF Follows
  <2> QED BY <2>1, <2>2, <2>3, <2>5
<1>14. ASSUME NEW k \in 1 .. l, NEW b \in 1 .. Len(FileData(fs[k].data))
       PROVE  z[4 + l * HEADER + DataStart(fs, k - 1) + b] = FileData(fs[k].data)[b]
  <2>1. k \in 0 .. l /\ k - 1 \in 0 .. l /\ l \in 0 .. l
    OBVIOUS
  <2>2. PICK d \in Nat, e \in Nat, n \in Nat :
          /\ d = DataStart(fs, k - 1) /\ e = DataStart(fs, k)
          /\ n = Len(FileData(fs[k].data))
          /\ e = d + n /\ e <= Len(w)
    <3>1. fs[k] \in File
      BY <1>1, ElementOfSeq
    <3>2. Len(FileData(fs[k].data)) \in Nat
      BY <3>1, FileParts
    <3>3. DataStart(fs, k - 1) \in Nat /\ DataStart(fs, k) \in Nat
      BY <1>1, <1>5, <2>1 DEF StartsAddUp
    <3>4. DataStart(fs, k) <= DataStart(fs, l)
      BY <1>1, <1>5, <2>1 DEF StartsAddUp
    <3>5. DataStart(fs, k) = DataStart(fs, k - 1) + Len(FileData(fs[k].data))
      BY <1>1, <1>5 DEF StartsAddUp
    <3> QED BY <1>6, <3>2, <3>3, <3>4, <3>5
  <2>3. b \in 1 .. n /\ d + b \in 1 .. Len(w)
    <3>1. b \in 1 .. n
      BY <2>2
    <3>2. d + n <= Len(w) /\ Len(w) \in Nat
      BY <1>11, <2>2
    <3> QED BY <3>1, <3>2
  <2>4. z[Len(y) + (d + b)] = w[d + b]
    BY <1>8, <2>3 DEF Follows
  <2>5. w[d + b] = FileData(fs[k].data)[b]
    BY <1>4, <2>2
  <2>6. Len(y) + (d + b) = 4 + p + d + b
    BY <1>11, <2>3
  <2> QED BY <1>10, <2>2, <2>4, <2>5, <2>6
<1> QED BY <1>1, <1>2, <1>5, <1>6, <1>9, <1>10, <1>11, <1>12, <1>13, <1>14 DEF Layout
-----------------------------------------------------------------------------
(* The inductive invariant of the lookup: the two pointers are where the   *)
(* first i files put them, none of these has the name, and what was        *)
(* returned is the first file that matches.                                *)
Matches(f, s) == strncmp_Equal(PackedName(f.name), s, NAME_LEN)
DataPtr(k) == BASE + 4 + Len(files) * HEADER + DataStart(files, k)

Loaded ==
  \/ initrd_base = NULL /\ n_files = 0
  \/ initrd_base = BASE /\ n_files = Len(files) /\ pc \notin {"build", "boot"}
Packed == pc # "build" =>
  files \in Seq(File) /\ files # << >> /\ image = Image(files)
Walked == pc = "loop" =>
  /\ initrd_base = BASE /\ name \in Names /\ i \in 0 .. Len(files)
  /\ header_ptr = BASE + 4 + i * HEADER /\ data_ptr = DataPtr(i)
  /\ \A k \in 1 .. i : ~Matches(files[k], name)
Answer(k) ==
  /\ Matches(files[k], name) /\ \A m \in 1 .. k - 1 : ~Matches(files[m], name)
  /\ ret = DataPtr(k - 1) /\ size = Len(FileData(files[k].data))
Answered == pc = "done" =>
  /\ name \in Names
  /\ \/ initrd_base = NULL /\ ret = NULL
     \/ /\ initrd_base = BASE /\ ret = NULL
        /\ \A k \in 1 .. Len(files) : ~Matches(files[k], name)
     \/ initrd_base = BASE /\ \E k \in 1 .. Len(files) : Answer(k)

LookupInv == Loaded /\ Packed /\ Walked /\ Answered

LEMMA LookupInvInit == Init => LookupInv
BY DEF Init, LookupInv, Loaded, Packed, Walked, Answered

(* A word of the image is read as it was packed. *)
LEMMA WordIsRead ==
  ASSUME NEW a \in Nat, NEW n \in Nat,
         \A b \in 1 .. 4 : image[a - BASE + b] = PackWord(n)[b]
  PROVE  Word(a) = n
<1>1. BASE \in Nat
  BY InitrdAssumption
<1>2. /\ Byte(a) = PackWord(n)[1] /\ Byte(a + 1) = PackWord(n)[2]
      /\ Byte(a + 2) = PackWord(n)[3] /\ Byte(a + 3) = PackWord(n)[4]
  <2>1. ASSUME NEW b \in 1 .. 4, NEW m \in Nat, m = a + b - 1
        PROVE  Byte(m) = PackWord(n)[b]
    <3>1. PICK c \in Int : c = m - BASE + 1 /\ c = a - BASE + b
      BY <1>1, <2>1
    <3>2. image[c] = PackWord(n)[b] /\ Byte(m) = image[c]
      BY <3>1 DEF Byte
    <3> QED BY <3>2
  <2> QED BY <2>1
<1>3. PICK w : w = PackWord(n)
  OBVIOUS
<1>4. w[1] + 256 * w[2] + 65536 * w[3] + 16777216 * w[4] = n
  BY <1>3, WordIsPacked
<1>5. Word(a) = w[1] + 256 * w[2] + 65536 * w[3] + 16777216 * w[4]
  BY <1>2, <1>3 DEF Word
<1> QED BY <1>4, <1>5

(* At a header the walk sees the name field and the size of its file. *)
LEMMA AtHeader ==
  ASSUME LookupInv, pc = "loop", i < n_files
  PROVE  /\ n_files = Len(files) /\ i \in Nat
         /\ i + 1 \in 1 .. Len(files) /\ files[i + 1] \in File
         /\ HeaderName = PackedName(files[i + 1].name)
         /\ Word(header_ptr + NAME_LEN) = Len(FileData(files[i + 1].data))
<1>1. BASE \in Nat /\ BASE # 0
  BY InitrdAssumption
<1>2. /\ files \in Seq(File) /\ image = Image(files) /\ n_files = Len(files)
      /\ i \in 0 .. Len(files) /\ header_ptr = BASE + 4 + i * HEADER
  BY <1>1 DEF LookupInv, Loaded, Packed, Walked, NULL
<1>3. PICK l \in Nat : l = Len(files)
  BY <1>2, LenProperties
<1>4. PICK k \in 1 .. l : k = i + 1 /\ i = k - 1
  BY <1>2, <1>3
<1>5. files[k] \in File
  BY <1>2, <1>3, ElementOfSeq
<1>6. PICK p \in Nat : p = (k - 1) * HEADER
  BY HeaderSize
<1>7. header_ptr = BASE + 4 + p
  BY <1>2, <1>4, <1>6
<1>8. \A b \in 1 .. HEADER : image[4 + p + b] = Header(files[k])[b]
  BY <1>2, <1>3, <1>6, ImageLayout DEF Layout
<1>9. HeaderName = PackedName(files[k].name)
  <2>1. /\ PackedName(files[k].name) \in Seq(0 .. 127)
        /\ Len(PackedName(files[k].name)) = NAME_LEN
    <3>1. files[k].name \in Seq(1 .. 127)
      BY <1>5, FileParts
    <3> QED BY <3>1, NameField, Zenon
  <2>2. PackedName(files[k].name) = [b \in 1 .. NAME_LEN |-> PackedName(files[k].name)[b]]
    BY <2>1, LenProperties
  <2>3. ASSUME NEW b \in 1 .. NAME_LEN
        PROVE  Byte(header_ptr + b - 1) = PackedName(files[k].name)[b]
    <3>1. b \in 1 .. HEADER
      BY HeaderSize
    <3>2. PICK c \in Int : c = (header_ptr + b - 1) - BASE + 1 /\ c = 4 + p + b
      BY <1>1, <1>7
    <3>4. image[c] = Header(files[k])[b] /\ Byte(header_ptr + b - 1) = image[c]
      BY <1>8, <3>1, <3>2 DEF Byte
    <3>3. Header(files[k])[b] = PackedName(files[k].name)[b]
      BY <1>5, HeaderParts
    <3> QED BY <3>3, <3>4
  <2> QED BY <2>2, <2>3 DEF HeaderName
<1>10. Word(header_ptr + NAME_LEN) = Len(FileData(files[k].data))
  <2>1. header_ptr + NAME_LEN \in Nat
    BY <1>1, <1>7, HeaderSize
  <2>2. Len(FileData(files[k].data)) \in Nat
    BY <1>5, FileParts
  <2>3. PICK a \in Nat, n \in Nat :
          a = header_ptr + NAME_LEN /\ n = Len(FileData(files[k].data))
    BY <2>1, <2>2
  <2>4. ASSUME NEW b \in 1 .. 4
        PROVE  image[a - BASE + b] = PackWord(n)[b]
    <3>1. NAME_LEN + b \in 1 .. HEADER
      BY HeaderSize
    <3>2. PICK c \in Int : c = a - BASE + b /\ c = 4 + p + (NAME_LEN + b)
      BY <1>1, <1>7, <2>3, HeaderSize
    <3>3. Header(files[k])[NAME_LEN + b] = PackWord(n)[b]
      BY <1>5, <2>3, HeaderParts
    <3>4. image[c] = Header(files[k])[NAME_LEN + b]
      BY <1>8, <3>1, <3>2
    <3> QED BY <3>2, <3>3, <3>4
  <2>5. Word(a) = n
    BY <2>4, WordIsRead
  <2> QED BY <2>3, <2>5
<1> QED BY <1>2, <1>3, <1>4, <1>5, <1>9, <1>10

LEMMA PackStep == LookupInv /\ make_initrd => LookupInv'
<1> SUFFICES ASSUME LookupInv, make_initrd PROVE LookupInv'
  OBVIOUS
<1>1. PICK fs \in SeqOf(File, MaxFiles) \ {<< >>} : files' = fs /\ image' = Image(fs)
  BY DEF make_initrd, File
<1>2. fs \in Seq(File)
  <2>1. PICK n \in 0 .. MaxFiles : fs \in [1 .. n -> File]
    BY <1>1 DEF SeqOf
  <2>2. n \in Nat
    BY <2>1
  <2> QED BY <2>1, <2>2, FunctionIsSeq
<1>3. pc' = "boot" /\ initrd_base' = NULL /\ n_files' = 0
  BY DEF make_initrd, LookupInv, Loaded
<1> QED BY <1>1, <1>2, <1>3 DEF LookupInv, Loaded, Packed, Walked, Answered

LEMMA LoadStep == LookupInv /\ initrd_init => LookupInv'
<1> SUFFICES ASSUME LookupInv, initrd_init PROVE LookupInv'
  OBVIOUS
<1>1. /\ pc = "boot" /\ pc' = "idle" /\ UNCHANGED <<files, image>>
      /\ \/ initrd_base' = BASE /\ n_files' = Word(BASE)
         \/ UNCHANGED <<initrd_base, n_files>>
  BY DEF initrd_init
<1>2. files \in Seq(File) /\ files # << >> /\ image = Image(files)
  BY <1>1 DEF LookupInv, Packed
<1>3. Word(BASE) = Len(files)
  <2>1. BASE \in Nat /\ Len(files) \in Nat
    BY <1>2, InitrdAssumption, LenProperties
  <2>2. \A b \in 1 .. 4 : image[BASE - BASE + b] = PackWord(Len(files))[b]
    BY <1>2, <2>1, ImageLayout DEF Layout
  <2> QED BY <2>1, <2>2, WordIsRead
<1>4. Loaded'
  BY <1>1, <1>3 DEF LookupInv, Loaded
<1> QED BY <1>1, <1>2, <1>4 DEF LookupInv, Packed, Walked, Answered

LEMMA GetFileStep ==
  ASSUME LookupInv, NEW s \in Names, GetFile(s)
  PROVE  LookupInv'
<1>1. /\ pc = "idle" /\ name' = s /\ i' = 0
      /\ UNCHANGED <<files, image, initrd_base, n_files>>
  BY DEF GetFile
<1>2. files \in Seq(File) /\ files # << >> /\ image = Image(files)
  BY <1>1 DEF LookupInv, Packed
<1>3. Len(files) \in Nat /\ Len(files) # 0
  BY <1>2, EmptySeq
<1>4. CASE (initrd_base = NULL \/ n_files = 0) /\ ret' = NULL /\ pc' = "done"
  <2>1. initrd_base = NULL
    BY <1>3, <1>4 DEF LookupInv, Loaded
  <2> QED BY <1>1, <1>2, <1>4, <2>1 DEF LookupInv, Loaded, Packed, Walked, Answered
<1>5. CASE /\ initrd_base # NULL
           /\ header_ptr' = initrd_base + 4
           /\ data_ptr' = initrd_base + 4 + n_files * HEADER
           /\ pc' = "loop"
  <2>1. initrd_base = BASE /\ n_files = Len(files)
    BY <1>5 DEF LookupInv, Loaded
  <2>2. DataStart(files, 0) = 0
    BY <1>2, ImageLayout DEF StartsAddUp
  <2>3. BASE \in Nat /\ 0 * HEADER = 0 /\ Len(files) * HEADER \in Nat
    BY <1>3, HeaderSize, InitrdAssumption
  <2>4. BASE + 4 = BASE + 4 + 0 * HEADER
        /\ BASE + 4 + Len(files) * HEADER = BASE + 4 + Len(files) * HEADER + 0
    BY <2>3
  <2>5. Walked'
    BY <1>1, <1>3, <1>5, <2>1, <2>2, <2>4 DEF Walked, DataPtr
  <2> QED BY <1>1, <1>2, <1>5, <2>1, <2>5 DEF LookupInv, Loaded, Packed, Answered
<1> QED BY <1>4, <1>5 DEF GetFile

LEMMA FoundStep == LookupInv /\ Found => LookupInv'
<1> SUFFICES ASSUME LookupInv, Found PROVE LookupInv'
  OBVIOUS
<1>1. /\ pc = "loop" /\ i < n_files /\ pc' = "done" /\ ret' = data_ptr
      /\ strncmp_Equal(HeaderName, name, NAME_LEN)
      /\ size' = Word(header_ptr + NAME_LEN)
      /\ UNCHANGED <<files, image, initrd_base, n_files, name>>
  BY DEF Found
<1>2. /\ i \in Nat /\ i + 1 \in 1 .. Len(files)
      /\ HeaderName = PackedName(files[i + 1].name)
      /\ Word(header_ptr + NAME_LEN) = Len(FileData(files[i + 1].data))
  BY <1>1, AtHeader
<1>3. /\ initrd_base = BASE /\ name \in Names /\ data_ptr = DataPtr(i)
      /\ \A k \in 1 .. i : ~Matches(files[k], name)
  BY <1>1 DEF LookupInv, Walked
<1>4. Matches(files[i + 1], name)
  BY <1>1, <1>2 DEF Matches
<1>5. PICK k \in 1 .. Len(files) : k = i + 1 /\ i = k - 1
  BY <1>2
<1>6. Answer(k)'
  BY <1>1, <1>2, <1>3, <1>4, <1>5 DEF Answer, DataPtr
<1>7. Answered'
  BY <1>1, <1>3, <1>5, <1>6 DEF Answered
<1> QED BY <1>1, <1>7 DEF LookupInv, Loaded, Packed, Walked

LEMMA NextHeaderStep == LookupInv /\ NextHeader => LookupInv'
<1> SUFFICES ASSUME LookupInv, NextHeader PROVE LookupInv'
  OBVIOUS
<1>1. /\ pc = "loop" /\ i < n_files /\ pc' = "loop" /\ i' = i + 1
      /\ ~strncmp_Equal(HeaderName, name, NAME_LEN)
      /\ header_ptr' = header_ptr + HEADER
      /\ data_ptr' = data_ptr + Word(header_ptr + NAME_LEN)
      /\ UNCHANGED <<files, image, initrd_base, n_files, name>>
  BY DEF NextHeader
<1>2. /\ i \in Nat /\ i + 1 \in 1 .. Len(files) /\ files[i + 1] \in File
      /\ HeaderName = PackedName(files[i + 1].name)
      /\ Word(header_ptr + NAME_LEN) = Len(FileData(files[i + 1].data))
  BY <1>1, AtHeader
<1>3. /\ initrd_base = BASE /\ name \in Names /\ data_ptr = DataPtr(i)
      /\ header_ptr = BASE + 4 + i * HEADER
      /\ \A k \in 1 .. i : ~Matches(files[k], name)
  BY <1>1 DEF LookupInv, Walked
<1>4. files \in Seq(File)
  BY <1>1 DEF LookupInv, Packed
<1>5. PICK k \in 1 .. Len(files) : k = i + 1 /\ i = k - 1
  BY <1>2
<1>6. ~Matches(files[k], name)
  BY <1>1, <1>2, <1>5 DEF Matches
<1>7. \A m \in 1 .. k : ~Matches(files[m], name)
  <2>1. \A m \in 1 .. k : m = k \/ m \in 1 .. i
    BY <1>5
  <2> QED BY <1>3, <1>6, <2>1
<1>8. PICK p \in Nat, h \in Nat : p = i * HEADER /\ h = HEADER /\ (i + 1) * HEADER = p + h
  BY <1>2, HeaderSize
<1>9. header_ptr' = BASE + 4 + k * HEADER
  <2>1. BASE \in Nat
    BY InitrdAssumption
  <2>2. header_ptr' = BASE + 4 + p + h
    BY <1>1, <1>3, <1>8
  <2> QED BY <1>5, <1>8, <2>1, <2>2
<1>10. data_ptr' = DataPtr(k)
  <2>1. StartsAddUp(files)
    BY <1>4, ImageLayout
  <2>2. PICK l \in Nat : l = Len(files)
    BY <1>4, LenProperties
  <2>3. PICK d \in Nat, e \in Nat, n \in Nat, a \in Nat :
          /\ d = DataStart(files, i) /\ e = DataStart(files, k)
          /\ n = Word(header_ptr + NAME_LEN) /\ a = BASE + 4 + Len(files) * HEADER
          /\ e = d + n
    <3>1. k \in 0 .. l /\ k - 1 \in 0 .. l
      BY <2>2
    <3>2. DataStart(files, k) \in Nat /\ DataStart(files, k - 1) \in Nat
      BY <2>1, <2>2, <3>1 DEF StartsAddUp
    <3>3. DataStart(files, k) = DataStart(files, k - 1) + Len(FileData(files[k].data))
      BY <2>1 DEF StartsAddUp
    <3>4. Len(FileData(files[k].data)) \in Nat
      BY <1>2, <1>5, FileParts
    <3>5. BASE + 4 + Len(files) * HEADER \in Nat
      BY <2>2, HeaderSize, InitrdAssumption
    <3> QED BY <1>2, <1>5, <3>2, <3>3, <3>4, <3>5
  <2>4. data_ptr = a + d /\ data_ptr' = data_ptr + n /\ DataPtr(k) = a + e
    BY <1>1, <1>3, <2>3 DEF DataPtr
  <2> QED BY <2>3, <2>4
<1>11. Walked'
  <2>1. k \in 0 .. Len(files)
    BY <1>2, <1>5
  <2>2. DataPtr(k)' = DataPtr(k)
    BY <1>1 DEF DataPtr
  <2> QED BY <1>1, <1>3, <1>5, <1>7, <1>9, <1>10, <2>1, <2>2 DEF Walked
<1> QED BY <1>1, <1>11 DEF LookupInv, Loaded, Packed, Answered

LEMMA NotFoundStep == LookupInv /\ NotFound => LookupInv'
<1> SUFFICES ASSUME LookupInv, NotFound PROVE LookupInv'
  OBVIOUS
<1>1. /\ pc = "loop" /\ i >= n_files /\ pc' = "done" /\ ret' = NULL
      /\ UNCHANGED <<files, image, initrd_base, n_files, name>>
  BY DEF NotFound
<1>2. /\ initrd_base = BASE /\ name \in Names /\ i \in 0 .. Len(files)
      /\ \A k \in 1 .. i : ~Matches(files[k], name)
  BY <1>1 DEF LookupInv, Walked
<1>3. n_files = Len(files)
  BY <1>2, InitrdAssumption DEF LookupInv, Loaded, NULL
<1>4. Len(files) \in Nat
  BY <1>1, LenProperties DEF LookupInv, Packed
<1>5. i = Len(files)
  BY <1>1, <1>2, <1>3, <1>4
<1>6. Answered'
  BY <1>1, <1>2, <1>5 DEF Answered
<1> QED BY <1>1, <1>6 DEF LookupInv, Loaded, Packed, Walked

(***************************************************************************)
(* For every number of files, every names and contents, and every name     *)
(* asked for: initrd_get_file's header and data pointers stay where        *)
(* mkinitrd.py put the header and the data of the file they are at, and    *)
(* what it returns is the first file whose name field matches, or NULL.    *)
(***************************************************************************)
THEOREM LookupInvariant == Spec => []LookupInv
<1>1. LookupInv /\ [Next]_vars => LookupInv'
  <2> SUFFICES ASSUME LookupInv, [Next]_vars PROVE LookupInv'
    OBVIOUS
  <2>1. CASE make_initrd
    BY <2>1, PackStep
  <2>2. CASE initrd_init
    BY <2>2, LoadStep
  <2>3. ASSUME NEW s \in Names, GetFile(s) PROVE LookupInv'
    BY <2>3, GetFileStep
  <2>4. CASE Found
    BY <2>4, FoundStep
  <2>5. CASE NextHeader
    BY <2>5, NextHeaderStep
  <2>6. CASE NotFound
    BY <2>6, NotFoundStep
  <2>7. CASE UNCHANGED vars
    BY <2>7 DEF vars, lookupVars, LookupInv, Loaded, Packed, Walked, Answered,
                Answer, DataPtr
  <2> QED BY <2>1, <2>2, <2>3, <2>4, <2>5, <2>6, <2>7 DEF Next, initrd_get_file
<1> QED BY <1>1, LookupInvInit, PTL DEF Spec
-----------------------------------------------------------------------------
(* What strncmp says of a name field, whose last byte is NUL.              *)
LEMMA FieldBytes ==
  ASSUME NEW x \in Seq(1 .. 127), NEW k \in 1 .. NAME_LEN
  PROVE  At(PackedName(x), k) = PackedName(x)[k]
<1>1. Len(PackedName(x)) = NAME_LEN
  BY NameField
<1>2. k <= NAME_LEN
  BY HeaderSize
<1> QED BY <1>1, <1>2 DEF At

LEMMA NameBytes ==
  ASSUME NEW s \in Seq(1 .. 127), NEW k \in Nat \ {0}
  PROVE  /\ k <= Len(s) => At(s, k) = s[k] /\ At(s, k) # NUL
         /\ k > Len(s) => At(s, k) = NUL
<1>1. Len(s) \in Nat
  BY LenProperties
<1>2. k <= Len(s) => s[k] \in 1 .. 127
  BY <1>1, ElementOfSeq
<1>3. CASE k <= Len(s)
  <2>1. At(s, k) = s[k] /\ ~(k > Len(s))
    BY <1>1, <1>3 DEF At
  <2>2. s[k] # NUL
    <3>1. \A v \in 1 .. 127 : v # NUL
      BY DEF NUL
    <3> QED BY <1>2, <1>3, <3>1
  <2> QED BY <2>1, <2>2
<1>4. CASE k > Len(s)
  BY <1>1, <1>4 DEF At, NUL
<1> QED BY <1>1, <1>3, <1>4

(* A name that does not fit differs from every field, at the last byte if  *)
(* not before.                                                             *)
LEMMA LongNameDiffers ==
  ASSUME NEW x \in Seq(1 .. 127), NEW s \in Seq(1 .. 127), ~Fits(s)
  PROVE  ~strncmp_Equal(PackedName(x), s, NAME_LEN)
<1>1. NAME_LEN \in Nat \ {0} /\ Len(s) \in Nat /\ NAME_LEN <= Len(s)
  BY HeaderSize, LenProperties DEF Fits
<1> DEFINE stops == {k \in 1 .. NAME_LEN : \/ At(PackedName(x), k) = NUL
                                           \/ At(PackedName(x), k) # At(s, k)}
<1>2. NAME_LEN \in stops
  <2>1. NAME_LEN \in 1 .. NAME_LEN
    BY <1>1
  <2>2. At(PackedName(x), NAME_LEN) = NUL
    BY <2>1, FieldBytes, NameField
  <2> QED BY <2>1, <2>2
<1>3. ASSUME NEW k \in stops PROVE At(PackedName(x), k) # At(s, k)
  <2>1. k \in 1 .. NAME_LEN /\ k <= Len(s) /\ k \in Nat \ {0}
    BY <1>1
  <2>2. At(s, k) # NUL
    BY <2>1, NameBytes
  <2> QED BY <2>2
<1> QED BY <1>2, <1>3 DEF strncmp_Equal

(* A name that fits is found under the names that were cut to it.          *)
LEMMA FittingNameMatches ==
  ASSUME NEW f \in Seq(1 .. 127), NEW s \in Seq(1 .. 127), Fits(s)
  PROVE  strncmp_Equal(PackedName(f), s, NAME_LEN) <=> CutName(f) = s
<1>1. PICK x \in Seq(1 .. 127) :
        /\ x = CutName(f) /\ Fits(x)
        /\ \A k \in 1 .. NAME_LEN : PackedName(f)[k] = At(x, k)
  BY NameField
<1>2. PICK m \in Nat, n \in Nat, h \in Nat :
        m = Len(x) /\ n = Len(s) /\ h = NAME_LEN /\ m < h /\ n < h
  BY <1>1, HeaderSize, LenProperties DEF Fits
<1> DEFINE stops == {k \in 1 .. NAME_LEN : \/ At(PackedName(f), k) = NUL
                                           \/ At(PackedName(f), k) # At(s, k)}
<1>3. \A k \in 1 .. h : At(PackedName(f), k) = At(x, k)
  BY <1>1, <1>2, FieldBytes
<1>4. stops = {k \in 1 .. h : At(x, k) = NUL \/ At(x, k) # At(s, k)}
  BY <1>2, <1>3
<1>5. \A k \in 1 .. h : /\ k <= m => At(x, k) = x[k] /\ At(x, k) # NUL
                        /\ k > m => At(x, k) = NUL
                        /\ k <= n => At(s, k) = s[k] /\ At(s, k) # NUL
                        /\ k > n => At(s, k) = NUL
  <2> TAKE k \in 1 .. h
  <2>1. k \in Nat \ {0}
    OBVIOUS
  <2> QED BY <1>2, <2>1, NameBytes
<1>6. m + 1 \in stops
  <2>1. m + 1 \in 1 .. h /\ m + 1 > m
    BY <1>2
  <2> QED BY <1>4, <1>5, <2>1
<1>7. strncmp_Equal(PackedName(f), s, NAME_LEN)
        <=> \E k \in stops : (\A b \in stops : k <= b) /\ At(x, k) = At(s, k)
  <2>1. \A k \in stops : k \in 1 .. h
    BY <1>4
  <2>2. \A k \in stops : At(PackedName(f), k) = At(s, k) <=> At(x, k) = At(s, k)
    BY <1>3, <2>1
  <2>3. stops # {}
    BY <1>6
  <2>4. strncmp_Equal(PackedName(f), s, NAME_LEN)
          <=> \/ stops = {}
              \/ \E k \in stops : /\ \A b \in stops : k <= b
                                  /\ At(PackedName(f), k) = At(s, k)
    BY Zenon DEF strncmp_Equal
  <2> HIDE DEF stops
  <2> QED BY <2>2, <2>3, <2>4
<1>8. ASSUME x = s
      PROVE  \E k \in stops : (\A b \in stops : k <= b) /\ At(x, k) = At(s, k)
  <2>1. \A b \in stops : b \in 1 .. h /\ At(x, b) = NUL
    BY <1>4, <1>8
  <2>2. \A b \in stops : ~(b <= m)
    BY <1>5, <2>1
  <2>3. \A b \in stops : m + 1 <= b
    BY <2>1, <2>2
  <2> QED BY <1>6, <1>8, <2>3
<1>9. ASSUME NEW k \in stops, \A b \in stops : k <= b, At(x, k) = At(s, k)
      PROVE  x = s
  <2>1. k \in 1 .. h /\ k <= m + 1 /\ At(x, k) = NUL /\ At(s, k) = NUL
    BY <1>4, <1>6, <1>9
  <2>2. k = m + 1 /\ k > n
    BY <1>5, <2>1
  <2>3. ASSUME NEW b \in 1 .. m PROVE b <= n /\ x[b] = s[b]
    <3>1. b \in 1 .. h /\ ~(k <= b) /\ b <= m
      BY <1>2, <2>2
    <3>2. b \notin stops
      BY <1>9, <3>1
    <3>3. At(x, b) # NUL /\ At(x, b) = At(s, b) /\ At(x, b) = x[b]
      BY <1>4, <1>5, <3>1, <3>2
    <3>4. b > n => At(s, b) = NUL
      BY <1>5, <3>1
    <3>5. b \in Nat /\ ~(b > n)
      BY <3>3, <3>4
    <3>6. b <= n
      BY <3>5
    <3>7. At(s, b) = s[b]
      BY <1>5, <3>1, <3>6
    <3> QED BY <3>3, <3>6, <3>7
  <2>4. m = n
    <3>1. m # 0 => m <= n
      <4>1. m # 0 => m \in 1 .. m
        OBVIOUS
      <4> QED BY <2>3, <4>1
    <3> QED BY <2>2, <3>1
  <2> QED BY <1>2, <2>3, <2>4, SeqEqual
<1> QED BY <1>1, <1>7, <1>8, <1>9

(***************************************************************************)
(* The walk of initrd_get_file reads whole headers only and its data       *)
(* pointer stays inside the module, for every image mkinitrd.py can write. *)
(***************************************************************************)
THEOREM WalkIsInside == Spec => []WalkStaysInImage
<1>1. LookupInv => WalkStaysInImage
  <2> SUFFICES ASSUME LookupInv, pc = "loop"
               PROVE  /\ i < n_files => header_ptr + HEADER <= BASE + 4 + n_files * HEADER
                      /\ data_ptr <= BASE + Len(image)
                      /\ i = n_files => data_ptr = BASE + Len(image)
    BY DEF WalkStaysInImage
  <2>1. /\ files \in Seq(File) /\ image = Image(files) /\ n_files = Len(files)
        /\ i \in 0 .. Len(files)
        /\ header_ptr = BASE + 4 + i * HEADER /\ data_ptr = DataPtr(i)
    BY InitrdAssumption DEF LookupInv, Loaded, Packed, Walked, NULL
  <2>2. PICK l \in Nat, b \in Nat : l = Len(files) /\ b = BASE
    BY <2>1, LenProperties, InitrdAssumption
  <2>3. PICK k \in 0 .. l : k = i
    BY <2>1, <2>2
  <2>4. PICK p \in Nat, q \in Nat, h \in Nat : p = k * HEADER /\ q = l * HEADER /\ h = HEADER
    BY HeaderSize
  <2>5. k < l => p + h <= q
    <3>1. ASSUME k < l PROVE p + h <= q
      <4>1. PICK d \in Nat : l = k + 1 + d
        BY <3>1
      <4>2. (k + 1 + d) * HEADER = k * HEADER + HEADER + d * HEADER /\ d * HEADER \in Nat
        BY HeaderSize
      <4> QED BY <2>4, <4>1, <4>2
    <3> QED BY <3>1
  <2>6. PICK d \in Nat, e \in Nat : /\ d = DataStart(files, k) /\ e = DataStart(files, l)
                                    /\ d <= e
    <3>1. l \in 0 .. l
      OBVIOUS
    <3> QED BY <2>1, <2>2, <3>1, ImageLayout DEF StartsAddUp
  <2>7. Len(image) = 4 + q + e
    BY <2>1, <2>2, <2>4, <2>6, ImageLayout DEF Layout
  <2>8. data_ptr = b + 4 + q + d
    BY <2>1, <2>2, <2>3, <2>4, <2>6 DEF DataPtr
  <2>9. header_ptr = b + 4 + p
    BY <2>1, <2>2, <2>3, <2>4
  <2>10. i < n_files => header_ptr + HEADER <= BASE + 4 + n_files * HEADER
    BY <2>1, <2>2, <2>3, <2>4, <2>5, <2>9
  <2>11. data_ptr <= BASE + Len(image)
    BY <2>2, <2>6, <2>7, <2>8
  <2>12. i = n_files => data_ptr = BASE + Len(image)
    BY <2>1, <2>2, <2>3, <2>6, <2>7, <2>8
  <2> QED BY <2>10, <2>11, <2>12
<1> QED BY <1>1, LookupInvariant, PTL

(***************************************************************************)
(* A name that does not fit the field is never found, whatever was packed. *)
(***************************************************************************)
THEOREM LongNamesStayHidden == Spec => []LongNamesAreNotFound
<1>1. LookupInv => LongNamesAreNotFound
  <2> SUFFICES ASSUME LookupInv, pc = "done", ~Fits(name) PROVE ret = NULL
    BY DEF LongNamesAreNotFound
  <2>1. files \in Seq(File) /\ name \in Seq(1 .. 127)
    BY InitrdAssumption DEF LookupInv, Packed, Answered
  <2>2. ASSUME NEW k \in 1 .. Len(files) PROVE ~Matches(files[k], name)
    <3>1. files[k] \in File
      BY <2>1, ElementOfSeq
    <3> QED BY <2>1, <3>1, FileParts, LongNameDiffers DEF Matches
  <2> QED BY <2>2 DEF LookupInv, Answered, Answer
<1> QED BY <1>1, LookupInvariant, PTL

(***************************************************************************)
(* initrd_get_file gives back what mkinitrd.py packed: the pointer and the *)
(* size delimit exactly the contents of the first file whose name was cut  *)
(* to the one asked for, whatever names and files the image was made of.   *)
(***************************************************************************)
THEOREM PackedFilesAreFound == Spec => []GetsThePackedFile
<1>1. LookupInv => GetsThePackedFile
  <2> SUFFICES ASSUME LookupInv, pc = "done", Fits(name)
               PROVE  IF initrd_base = NULL \/ FirstNamed(name) = {}
                        THEN ret = NULL
                        ELSE \A k \in FirstNamed(name) :
                               /\ ret # NULL
                               /\ [b \in 1 .. size |-> Byte(ret + b - 1)]
                                    = FileData(files[k].data)
    BY DEF GetsThePackedFile
  <2>1. /\ files \in Seq(File) /\ image = Image(files) /\ name \in Seq(1 .. 127)
        /\ DOMAIN files = 1 .. Len(files) /\ Len(files) \in Nat
    <3>1. files \in Seq(File) /\ image = Image(files) /\ name \in Seq(1 .. 127)
      BY InitrdAssumption DEF LookupInv, Packed, Answered
    <3> QED BY <3>1, LenProperties
  <2>2. \A k \in 1 .. Len(files) : files[k] \in File
    BY <2>1, ElementOfSeq
  <2>3. ASSUME NEW k \in 1 .. Len(files)
        PROVE  Matches(files[k], name) <=> CutName(files[k].name) = name
    <3>1. files[k].name \in Seq(1 .. 127)
      BY <2>1, <2>2, FileParts
    <3> QED BY <2>1, <3>1, FittingNameMatches DEF Matches
  <2>4. CASE initrd_base = NULL
    <3>1. ret = NULL
      BY <2>4, InitrdAssumption DEF LookupInv, Answered, NULL
    <3> QED BY <2>4, <3>1
  <2>5. CASE ret = NULL /\ \A k \in 1 .. Len(files) : ~Matches(files[k], name)
    <3>1. FirstNamed(name) = {}
      BY <2>1, <2>3, <2>5 DEF FirstNamed
    <3> QED BY <2>5, <3>1
  <2>6. CASE initrd_base = BASE /\ \E k \in 1 .. Len(files) : Answer(k)
    <3>1. PICK k \in 1 .. Len(files) : Answer(k)
      BY <2>6
    <3>2. k \in FirstNamed(name) /\ \A m \in FirstNamed(name) : m = k
      <4>1. \A m \in 1 .. k - 1 : m \in 1 .. Len(files)
        BY <2>1
      <4>2. /\ CutName(files[k].name) = name
            /\ \A m \in 1 .. k - 1 : CutName(files[m].name) # name
        BY <2>3, <3>1, <4>1 DEF Answer
      <4>3. ASSUME NEW m \in FirstNamed(name) PROVE m = k
        <5>1. m \in 1 .. Len(files) /\ CutName(files[m].name) = name
              /\ \A b \in 1 .. m - 1 : CutName(files[b].name) # name
          BY <2>1 DEF FirstNamed
        <5>2. ~(m < k)
          <6>1. m < k => m \in 1 .. k - 1
            BY <5>1
          <6> QED BY <4>2, <5>1, <6>1
        <5>3. ~(k < m)
          <6>1. k < m => k \in 1 .. m - 1
            BY <5>1
          <6> QED BY <4>2, <5>1, <6>1
        <5> QED BY <5>1, <5>2, <5>3
      <4>4. k \in FirstNamed(name)
        BY <2>1, <4>2 DEF FirstNamed
      <4> QED BY <4>3, <4>4
    <3>3. PICK b0 \in Nat \ {0}, q \in Nat, d \in Nat :
            /\ b0 = BASE /\ q = Len(files) * HEADER /\ d = DataStart(files, k - 1)
            /\ ret = b0 + 4 + q + d
      <4>1. k - 1 \in 0 .. Len(files)
        BY <2>1
      <4>2. DataStart(files, k - 1) \in Nat
        BY <2>1, <4>1, ImageLayout DEF StartsAddUp
      <4>3. BASE \in Nat \ {0} /\ Len(files) * HEADER \in Nat
        BY <2>1, HeaderSize, InitrdAssumption
      <4> QED BY <3>1, <4>2, <4>3 DEF Answer, DataPtr
    <3>4. ret # NULL
      BY <3>3 DEF NULL
    <3>5. [b \in 1 .. size |-> Byte(ret + b - 1)] = FileData(files[k].data)
      <4>1. /\ size = Len(FileData(files[k].data))
            /\ FileData(files[k].data) \in Seq(0 .. 255) /\ size \in Nat
        BY <2>2, <3>1, FileParts DEF Answer
      <4>2. FileData(files[k].data) = [b \in 1 .. size |-> FileData(files[k].data)[b]]
        BY <4>1, LenProperties
      <4>3. ASSUME NEW b \in 1 .. size
            PROVE  Byte(ret + b - 1) = FileData(files[k].data)[b]
        <5>1. PICK c \in Nat, a \in Nat :
                /\ a = b0 + 4 + q + d + b - 1
                /\ c = a - b0 + 1 /\ c = 4 + q + d + b
          BY <4>1
        <5>2. image[c] = FileData(files[k].data)[b]
          <6>1. image[4 + q + d + b] = FileData(files[k].data)[b]
            BY <2>1, <3>3, <4>1, ImageLayout DEF Layout
          <6> QED BY <5>1, <6>1
        <5>3. Byte(ret + b - 1) = Byte(a)
          BY <3>3, <5>1
        <5> QED BY <3>3, <5>1, <5>2, <5>3 DEF Byte
      <4> QED BY <4>2, <4>3
    <3>6. initrd_base # NULL
      BY <2>6, InitrdAssumption DEF NULL
    <3> QED BY <3>2, <3>4, <3>5, <3>6
  <2> QED BY <2>4, <2>5, <2>6 DEF LookupInv, Answered
<1> QED BY <1>1, LookupInvariant, PTL
=============================================================================
