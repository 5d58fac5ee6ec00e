------------------------------- MODULE MCGc -------------------------------
(* TLC instances of the collector. *)
EXTENDS Gc, TLC

(* Allocation: the pool and the roots start clear. *)
ClearInit ==
  /\ Init
  /\ mem = Clear(mem, Block)
  /\ roots = [s \in Slots |-> NoPtr]

MCSpec == ClearInit /\ [][Next]_vars

(* The collector alone, from a heap in use whose gc_alloc finds no room. *)
Full(t, m, r) ==
  /\ atb = t /\ mem = m /\ roots = r
  /\ gc_last_free_atb_index = 0 /\ gc_last_used_block = NBlocks - 1
  /\ pc = "mutator" /\ req = NoReq
  /\ root = 0 /\ block = 0 /\ stop = 0 /\ word = 1
  /\ gc_block_stack = << >> /\ gc_stack_overflow = FALSE
  /\ cursor = 0 /\ free_tail = FALSE /\ last_used_block = 0

CollectNext == gc_alloc(NBlocks, 1) \/ Collector

(* Every heap on the first SmallHeap blocks: any chains and free blocks,   *)
(* and a pointer to any head in the first word of each.                    *)
SmallHeap == 4

AnyHeap ==
  \E t \in [0 .. SmallHeap -> {"FREE", "HEAD", "TAIL"}], r \in 0 .. SmallHeap :
    /\ t[SmallHeap] = "FREE" /\ \E b \in 0 .. SmallHeap : t[b] # "FREE"
    /\ \A b \in 0 .. SmallHeap : t[b] = "TAIL" => b > 0 /\ t[b - 1] # "FREE"
    /\ \E m \in [0 .. SmallHeap -> {NoPtr} \cup {b \in 0 .. SmallHeap : t[b] = "HEAD"}] :
         /\ \A b \in 0 .. SmallHeap : t[b] = "FREE" => m[b] = NoPtr
         /\ Full([b \in 0 .. NBlocks |-> IF b < SmallHeap THEN t[b] ELSE "FREE"],
                 [b \in Block |-> [w \in Index |->
                    IF b < SmallHeap /\ w = 1 THEN m[b] ELSE NoPtr]],
                 [s \in Slots |-> IF s = FRAME THEN NoPtr ELSE r])

(* The heaps whose collection overflows a stack of one entry twice: the    *)
(* root leads to p[0], that to p[1] and p[2], p[2] to p[3] and p[4], p[4]  *)
(* to p[5], in any order of addresses.                                     *)
DeepHeap ==
  \E p \in Permutations(Block) :
    Full([b \in 0 .. NBlocks |-> IF b = NBlocks THEN "FREE" ELSE "HEAD"],
         [b \in Block |->
            CASE b = p[0] -> <<p[1], p[2]>>
              [] b = p[2] -> <<p[3], p[4]>>
              [] b = p[4] -> <<p[5], NoPtr>>
              [] OTHER -> <<NoPtr, NoPtr>>],
         [s \in Slots |-> IF s = FRAME THEN NoPtr ELSE p[0]])

CollectSpec ==
  (AnyHeap \/ DeepHeap) /\ [][CollectNext]_vars /\ WF_vars(Collector)
=============================================================================
