----------------------------- MODULE ObjectHeap -----------------------------
(***************************************************************************)
(* What the Python virtual machine may expect of its heap, whatever        *)
(* py/gc.c does to provide it: objects are disjoint intervals of blocks,   *)
(* only the machine writes into them, a new object is made of blocks that  *)
(* belong to no object and holds no pointer, a moved one keeps its         *)
(* contents, and a collection removes exactly the objects that no chain of *)
(* pointers leads to.                                                      *)
(***************************************************************************)
EXTENDS Integers

CONSTANTS
  NBlocks,   \* blocks of the pool
  Index,     \* the words of a block
  Slots      \* the root words: globals, registers, the C stack

VARIABLES
  objs,      \* the objects, as pairs <<first block, block after the last>>
  mem,       \* the words of the pool
  roots      \* the root words

Block == 0 .. NBlocks - 1
NoPtr == NBlocks             \* a word that is no pointer into the pool
Word == 0 .. NBlocks
Cells(o) == o[1] .. o[2] - 1
FreeBlocks == {b \in Block : \A o \in objs : b \notin Cells(o)}

(* S holds those of the objects that the roots and its members point to. *)
Closed(objects, S) ==
  \A o \in objects :
    (\/ \E s \in Slots : roots[s] = o[1]
     \/ \E p \in S, b \in Block, w \in Index : b \in Cells(p) /\ mem[b][w] = o[1])
      => o \in S

Reachable ==
  LET objects == objs
      closed == {S \in SUBSET objects : Closed(objects, S)}
  IN {o \in objects : \A S \in closed : o \in S}

Init ==
  /\ objs = {}
  /\ mem \in [Block -> [Index -> Word]]
  /\ roots \in [Slots -> Word]

SetRoot == \E s \in Slots, v \in Word :
  roots' = [roots EXCEPT ![s] = v] /\ UNCHANGED <<objs, mem>>

Store == \E b \in Block \ FreeBlocks, w \in Index, v \in Word :
  mem' = [mem EXCEPT ![b][w] = v] /\ UNCHANGED <<objs, roots>>

Clear(m, S) == [b \in Block |-> IF b \in S THEN [w \in Index |-> NoPtr] ELSE m[b]]

Alloc == \E b \in Block, e \in 1 .. NBlocks, s \in Slots :
  /\ b < e /\ b .. e - 1 \subseteq FreeBlocks
  /\ objs' = objs \cup {<<b, e>>}
  /\ mem' = Clear(mem, b .. e - 1)
  /\ roots' = [roots EXCEPT ![s] = b]

Free == \E o \in objs : objs' = objs \ {o} /\ UNCHANGED <<mem, roots>>

Resize == \E o \in objs, e \in 1 .. NBlocks :
  /\ o[1] < e /\ o[2] .. e - 1 \subseteq FreeBlocks
  /\ objs' = (objs \ {o}) \cup {<<o[1], e>>}
  /\ mem' = Clear(mem, o[2] .. e - 1)
  /\ UNCHANGED roots

(* The object moves to free blocks: its words go with it, the rest of its  *)
(* new place is clear; slot f, which held the old address, is let go.      *)
Move == \E o \in objs, b \in Block, e \in 1 .. NBlocks, s \in Slots, f \in Slots :
  /\ b < e /\ b .. e - 1 \subseteq FreeBlocks
  /\ o[2] - o[1] < e - b
  /\ objs' = (objs \ {o}) \cup {<<b, e>>}
  /\ mem' = [c \in Block |->
               IF c \in b .. (b + o[2] - o[1] - 1) THEN mem[c - b + o[1]]
               ELSE Clear(mem, b .. e - 1)[c]]
  /\ roots' = [roots EXCEPT ![f] = NoPtr, ![s] = b]

Collect == objs' # objs /\ objs' = Reachable /\ UNCHANGED <<mem, roots>>

Next == SetRoot \/ Store \/ Alloc \/ Free \/ Resize \/ Move \/ Collect

vars == <<objs, mem, roots>>
Spec == Init /\ [][Next]_vars
=============================================================================
