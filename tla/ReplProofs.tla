----------------------------- MODULE ReplProofs -----------------------------
(***************************************************************************)
(* For every depth of calls, every set of dictionaries and every place an  *)
(* exception can come from, the chains of py/nlr.c match the C stack, the  *)
(* globals are those of the code that runs, and the prompt of              *)
(* start_nexus_python finds globals, chains and lexers as it left them.    *)
(* The locals it finds too, unless an exception was printed in between.    *)
(*                                                                         *)
(* The inductive invariant is ReplInv: it says who can have called whom    *)
(* and where the caller waits.  From it follows that nlr_jump cuts off at  *)
(* most two activations (Catcher), of which at most one restores the       *)
(* context and at most one frees a lexer.                                  *)
(***************************************************************************)
EXTENDS Repl, FiniteSetTheorems, SequenceTheorems, TLAPS

(* Lists in ascending order *)

LEMMA ListAppend ==
  ASSUME NEW S \in SUBSET Nat, NEW s \in Seq(Nat), Lists(s, S),
         NEW n \in Nat, \A p \in S : p < n
  PROVE  Append(s, n) \in Seq(Nat) /\ Lists(Append(s, n), S \cup {n})
<1> DEFINE t == Append(s, n)
<1>1. /\ t \in Seq(Nat) /\ Len(t) = Len(s) + 1 /\ Len(s) \in Nat
      /\ \A i \in 1 .. Len(s) : t[i] = s[i]
  OBVIOUS
<1>2. t[Len(s) + 1] = n
  OBVIOUS
<1> HIDE DEF t
<1>3. \A i \in 1 .. Len(t) : t[i] \in S \cup {n}
  <2> TAKE i \in 1 .. Len(t)
  <2>1. i \in 1 .. Len(s) \/ i = Len(s) + 1
    BY <1>1
  <2> QED BY <1>1, <1>2, <2>1 DEF Lists
<1>4. \A p \in S \cup {n} : \E i \in 1 .. Len(t) : t[i] = p
  <2> TAKE p \in S \cup {n}
  <2>1. CASE p \in S
    <3>1. PICK i \in 1 .. Len(s) : s[i] = p
      BY <2>1 DEF Lists
    <3> QED BY <1>1, <3>1
  <2>2. CASE p = n
    BY <1>1, <1>2, <2>2
  <2> QED BY <2>1, <2>2
<1>5. \A i, j \in 1 .. Len(t) : i < j => t[i] < t[j]
  <2> SUFFICES ASSUME NEW i \in 1 .. Len(t), NEW j \in 1 .. Len(t), i < j
               PROVE  t[i] < t[j]
    OBVIOUS
  <2>1. i \in 1 .. Len(s) /\ t[i] = s[i] /\ s[i] \in S
    BY <1>1 DEF Lists
  <2>2. CASE j \in 1 .. Len(s)
    BY <1>1, <2>1, <2>2 DEF Lists
  <2>3. CASE j = Len(s) + 1
    BY <1>2, <2>1, <2>3
  <2>4. j \in 1 .. Len(s) \/ j = Len(s) + 1
    BY <1>1
  <2> QED BY <2>2, <2>3, <2>4
<1>6. Lists(t, S \cup {n})
  BY <1>3, <1>4, <1>5 DEF Lists
<1> QED BY <1>1, <1>6 DEF t

(* The part of a list up to p, where it is cut as nlr.c cuts its chains. *)
LEMMA ListCut ==
  ASSUME NEW S \in SUBSET Nat, NEW s \in Seq(Nat), Lists(s, S),
         NEW p \in Nat, NEW k \in 0 .. Len(s),
         k > 0 => s[k] <= p, \A i \in k + 1 .. Len(s) : s[i] > p
  PROVE  SubSeq(s, 1, k) \in Seq(Nat) /\ Lists(SubSeq(s, 1, k), {q \in S : q <= p})
<1> DEFINE t == SubSeq(s, 1, k)
<1>1. k \in Int /\ Len(s) \in Nat /\ \A i \in 1 .. k : s[i] \in Nat
  OBVIOUS
<1>2. /\ t \in Seq(Nat) /\ Len(t) = IF 1 <= k THEN k - 1 + 1 ELSE 0
      /\ \A i \in 1 .. k - 1 + 1 : t[i] = s[1 + i - 1]
  BY <1>1, SubSeqProperties
<1> HIDE DEF t
<1>3. Len(t) = k /\ \A i \in 1 .. k : t[i] = s[i]
  BY <1>1, <1>2
<1>4. \A i \in 1 .. k : s[i] \in S /\ s[i] <= p
  <2> TAKE i \in 1 .. k
  <2>1. s[i] \in S /\ (i < k => s[i] < s[k]) /\ s[k] <= p /\ s[k] \in S
    BY <1>1 DEF Lists
  <2> QED BY <2>1
<1>5. ASSUME NEW q \in S, q <= p
      PROVE  \E i \in 1 .. k : s[i] = q
  <2>1. PICK i \in 1 .. Len(s) : s[i] = q
    BY DEF Lists
  <2>2. i \in 1 .. k
    BY <1>1, <1>5, <2>1
  <2> QED BY <2>1, <2>2
<1>6. \A i, j \in 1 .. k : i < j => s[i] < s[j]
  <2> TAKE i, j \in 1 .. k
  <2>1. i \in 1 .. Len(s) /\ j \in 1 .. Len(s)
    BY <1>1
  <2> QED BY <2>1 DEF Lists
<1>7. Lists(t, {q \in S : q <= p})
  BY <1>3, <1>4, <1>5, <1>6 DEF Lists
<1> QED BY <1>2, <1>7 DEF t

(* The latest entry is the greatest; without it the rest is listed. *)
LEMMA ListPop ==
  ASSUME NEW S \in SUBSET Nat, NEW s \in Seq(Nat), Lists(s, S),
         NEW n \in S, \A p \in S : p <= n
  PROVE  /\ s # << >> /\ s[Len(s)] = n
         /\ Pop(s) \in Seq(Nat) /\ Lists(Pop(s), S \ {n})
<1>1. PICK i \in 1 .. Len(s) : s[i] = n
  BY DEF Lists
<1>2. Len(s) \in Nat \ {0} /\ s # << >>
  BY <1>1
<1>3. s[Len(s)] \in S /\ (i < Len(s) => s[i] < s[Len(s)])
  BY <1>1, <1>2 DEF Lists
<1>4. i = Len(s)
  BY <1>1, <1>2, <1>3
<1>5. n \in Nat /\ s[Len(s)] = n
  BY <1>1, <1>4
<1>6. CASE n = 0
  <2>1. S = {n}
    <3>1. ASSUME NEW p \in S PROVE p = n
      <4>1. p \in Nat /\ p <= 0
        BY <1>6
      <4> QED BY <1>6, <4>1
    <3> QED BY <3>1
  <2>2. \A j \in 1 .. Len(s) : s[j] = 0
    BY <1>6, <2>1 DEF Lists
  <2>3. Len(s) = 1
    <3> SUFFICES ASSUME Len(s) # 1 PROVE FALSE
      OBVIOUS
    <3>1. 1 \in 1 .. Len(s) /\ 2 \in 1 .. Len(s)
      <4> DEFINE n1 == Len(s)
      <4>1. n1 \in Nat /\ n1 # 0 /\ n1 # 1
        BY <1>2
      <4> HIDE DEF n1
      <4>2. 1 \in 1 .. n1 /\ 2 \in 1 .. n1
        BY <4>1
      <4> QED BY <4>2 DEF n1
    <3>2. s[1] = 0 /\ s[2] = 0
      BY <2>2, <3>1
    <3>3. 1 < 2 => s[1] < s[2]
      BY <3>1 DEF Lists
    <3> QED BY <3>2, <3>3
  <2>4. Pop(s) = << >>
    <3>1. Pop(s) = SubSeq(s, 1, 0)
      BY <2>3 DEF Pop
    <3> QED BY <3>1, SubSeqEmpty
  <2>5. Lists(<< >>, S \ {n})
    BY <2>1 DEF Lists
  <2>6. << >> \in Seq(Nat)
    OBVIOUS
  <2> QED BY <1>2, <1>5, <2>4, <2>5, <2>6
<1>7. CASE n > 0
  <2> DEFINE k == Len(s) - 1
  <2>1. k \in 0 .. Len(s) /\ n - 1 \in Nat
    BY <1>2, <1>5, <1>7
  <2>2. k > 0 => s[k] <= n - 1
    <3> SUFFICES ASSUME k > 0 PROVE s[k] <= n - 1
      OBVIOUS
    <3>1. s[k] \in Nat /\ s[k] < s[Len(s)]
      <4>1. k \in 1 .. Len(s) /\ Len(s) \in 1 .. Len(s) /\ k < Len(s)
        BY <1>2
      <4> HIDE DEF k
      <4>2. s[k] \in S /\ s[k] < s[Len(s)]
        BY <4>1, Zenon DEF Lists
      <4> QED BY <4>2
    <3> QED BY <1>5, <3>1
  <2>3. \A j \in k + 1 .. Len(s) : s[j] > n - 1
    BY <1>2, <1>5
  <2>4. /\ SubSeq(s, 1, k) \in Seq(Nat)
        /\ Lists(SubSeq(s, 1, k), {q \in S : q <= n - 1})
    BY <2>1, <2>2, <2>3, ListCut
  <2>5. {q \in S : q <= n - 1} = S \ {n}
    <3>1. ASSUME NEW q \in S PROVE q <= n - 1 <=> q # n
      <4>1. q \in Nat /\ q <= n
        OBVIOUS
      <4> QED BY <1>5, <4>1
    <3> QED BY <3>1
  <2> QED BY <1>2, <1>5, <2>4, <2>5 DEF Pop
<1> QED BY <1>5, <1>6, <1>7

LEMMA ListEmpty ==
  ASSUME NEW s \in Seq(Nat), NEW S, Lists(s, S)
  PROVE  s = << >> <=> S = {}
<1>1. s = << >> => S = {}
  BY DEF Lists
<1>2. s # << >> => S # {}
  <2> SUFFICES ASSUME s # << >> PROVE S # {}
    OBVIOUS
  <2>1. 1 \in 1 .. Len(s)
    OBVIOUS
  <2> QED BY <2>1 DEF Lists
<1> QED BY <1>1, <1>2

-----------------------------------------------------------------------------
(* The C stack: an activation goes on, calls, returns, or is jumped to.    *)

LEMMA Constants == Main \in Dicts /\ stack_limit \in Nat \ {0}
  BY ReplAssumption

LEMMA GoesFrames ==
  ASSUME TypeOK, NEW at \in Places
  PROVE  /\ Goes(at) \in Seq(Activation) /\ Len(Goes(at)) = Depth
         /\ \A p \in 1 .. Depth :
              /\ Goes(at)[p].kind = cs[p].kind /\ Goes(at)[p].dict = cs[p].dict
              /\ Goes(at)[p].globals = cs[p].globals
              /\ Goes(at)[p].locals = cs[p].locals
              /\ Goes(at)[p].at = IF p = Depth THEN at ELSE cs[p].at
<1>1. cs \in Seq(Activation) /\ Depth \in Nat \ {0} /\ Depth = Len(cs)
  BY DEF TypeOK, Depth
<1>2. \A p \in 1 .. Depth : cs[p] \in Activation
  BY <1>1
<1> DEFINE f == [cs[Depth] EXCEPT !.at = at]
<1>3. /\ f \in Activation /\ f.kind = cs[Depth].kind /\ f.dict = cs[Depth].dict
      /\ f.globals = cs[Depth].globals /\ f.locals = cs[Depth].locals /\ f.at = at
  BY <1>1, <1>2 DEF Activation
<1>4. Goes(at) = [cs EXCEPT ![Depth] = f]
  BY DEF Goes
<1> HIDE DEF f
<1>5. /\ Goes(at) \in Seq(Activation) /\ Len(Goes(at)) = Depth
      /\ \A p \in 1 .. Depth : Goes(at)[p] = IF p = Depth THEN f ELSE cs[p]
  BY <1>1, <1>3, <1>4
<1> QED BY <1>3, <1>5

LEMMA PushFrames ==
  ASSUME TypeOK, NEW at \in Places, NEW f \in Activation, cs' = Append(Goes(at), f)
  PROVE  /\ cs' \in Seq(Activation) /\ Len(cs') = Depth + 1 /\ cs'[Depth + 1] = f
         /\ \A p \in 1 .. Depth :
              /\ cs'[p].kind = cs[p].kind /\ cs'[p].dict = cs[p].dict
              /\ cs'[p].globals = cs[p].globals /\ cs'[p].locals = cs[p].locals
              /\ cs'[p].at = IF p = Depth THEN at ELSE cs[p].at
<1> DEFINE g == Goes(at)
<1>1. g \in Seq(Activation) /\ Len(g) = Depth
  BY GoesFrames
<1>2. /\ cs' \in Seq(Activation) /\ Len(cs') = Depth + 1 /\ cs'[Depth + 1] = f
      /\ \A p \in 1 .. Depth : cs'[p] = g[p]
  <2>1. cs' = Append(g, f)
    OBVIOUS
  <2> HIDE DEF g
  <2> QED BY <1>1, <2>1
<1> QED BY <1>2, GoesFrames

LEMMA CutFrames ==
  ASSUME TypeOK, NEW n \in 1 .. Depth
  PROVE  LET t == SubSeq(cs, 1, n) IN
         /\ t \in Seq(Activation) /\ Len(t) = n
         /\ \A p \in 1 .. n : t[p] = cs[p]
<1>1. cs \in Seq(Activation) /\ Depth \in Nat \ {0} /\ Depth = Len(cs)
  BY DEF TypeOK, Depth
<1>2. n \in Int /\ 1 <= n /\ \A i \in 1 .. n : cs[i] \in Activation
  BY <1>1
<1> DEFINE t == SubSeq(cs, 1, n)
<1>3. /\ t \in Seq(Activation) /\ Len(t) = IF 1 <= n THEN n - 1 + 1 ELSE 0
      /\ \A i \in 1 .. n - 1 + 1 : t[i] = cs[1 + i - 1]
  BY <1>2, SubSeqProperties
<1> HIDE DEF t
<1>4. Len(t) = n /\ \A p \in 1 .. n : t[p] = cs[p]
  BY <1>2, <1>3
<1> QED BY <1>3, <1>4 DEF t

(* Who is below whom, for any activation but the first. *)
LEMMA Caller ==
  ASSUME ReplInv, NEW p \in 2 .. Depth
  PROVE  p - 1 \in 1 .. Depth - 1 /\ CalledBy(cs[p - 1], cs[p])
<1>1. p - 1 \in 1 .. Depth - 1 /\ p - 1 + 1 = p
  BY DEF ReplInv, TypeOK, Depth
<1>2. CalledBy(cs[p - 1], cs[p - 1 + 1])
  BY <1>1 DEF ReplInv, StackIsNested
<1> QED BY <1>1, <1>2

LEMMA StayStack ==
  ASSUME ReplInv, NEW at \in Places, cs' = Goes(at)
  PROVE  /\ cs' \in Seq(Activation) /\ Depth' = Depth
         /\ Top'.kind = Top.kind /\ Top'.at = at
         /\ Top'.dict = Top.dict /\ Top'.globals = Top.globals
         /\ (StackIsNested /\ RoomIsLeft)'
         /\ Callbacks' = Callbacks
         /\ Bufs' = (Bufs \ {Depth}) \cup (IF at \in InBuf THEN {Depth} ELSE {})
<1>1. TypeOK /\ StackIsNested /\ RoomIsLeft
  BY DEF ReplInv
<1>2. /\ cs' \in Seq(Activation) /\ Len(cs') = Depth
      /\ \A p \in 1 .. Depth :
           /\ cs'[p].kind = cs[p].kind /\ cs'[p].dict = cs[p].dict
           /\ cs'[p].globals = cs[p].globals /\ cs'[p].locals = cs[p].locals
           /\ cs'[p].at = IF p = Depth THEN at ELSE cs[p].at
  BY <1>1, GoesFrames
<1>3. Depth' = Depth /\ Depth \in Nat \ {0} /\ Depth \in 1 .. Depth
  BY <1>1, <1>2 DEF Depth, TypeOK
<1>4. /\ Top'.kind = Top.kind /\ Top'.at = at
      /\ Top'.dict = Top.dict /\ Top'.globals = Top.globals
  BY <1>2, <1>3 DEF Top
<1>5. StackIsNested'
  <2>1. ASSUME NEW p \in 1 .. Depth - 1 PROVE CalledBy(cs'[p], cs'[p + 1])
    <3>1. p \in 1 .. Depth /\ p + 1 \in 1 .. Depth /\ p # Depth
      BY <1>3
    <3>2. CalledBy(cs[p], cs[p + 1])
      BY <1>1 DEF StackIsNested
    <3> QED BY <1>2, <3>1, <3>2 DEF CalledBy
  <2>2. 1 \in 1 .. Depth
    BY <1>3
  <2> QED BY <1>1, <1>2, <1>3, <2>1, <2>2 DEF StackIsNested
<1>6. RoomIsLeft'
  BY <1>1, <1>2, <1>3 DEF RoomIsLeft
<1>7. Callbacks' = Callbacks
  BY <1>2, <1>3 DEF Callbacks
<1>8. Bufs' = (Bufs \ {Depth}) \cup (IF at \in InBuf THEN {Depth} ELSE {})
  BY <1>2, <1>3 DEF Bufs
<1> QED BY <1>2, <1>3, <1>4, <1>5, <1>6, <1>7, <1>8

LEMMA PushStack ==
  ASSUME ReplInv, NEW at \in Places, NEW f \in Activation,
         cs' = Append(Goes(at), f), CalledBy(Goes(at)[Depth], f),
         f.kind = "call" => Depth < stack_limit,
         f.kind \in {"exec", "class", "print"} => Depth <= stack_limit,
         f.kind = "parse" => Depth <= stack_limit + 1
  PROVE  /\ cs' \in Seq(Activation) /\ Depth' = Depth + 1 /\ Top' = f
         /\ (StackIsNested /\ RoomIsLeft)'
         /\ Callbacks' = Callbacks \cup
              (IF f.kind \in {"exec", "parse"} THEN {Depth + 1} ELSE {})
         /\ Bufs' = (Bufs \ {Depth}) \cup (IF at \in InBuf THEN {Depth} ELSE {})
              \cup (IF f.at \in InBuf THEN {Depth + 1} ELSE {})
<1>1. TypeOK /\ StackIsNested /\ RoomIsLeft
  BY DEF ReplInv
<1>2. /\ cs' \in Seq(Activation) /\ Len(cs') = Depth + 1 /\ cs'[Depth + 1] = f
      /\ \A p \in 1 .. Depth :
           /\ cs'[p].kind = cs[p].kind /\ cs'[p].dict = cs[p].dict
           /\ cs'[p].globals = cs[p].globals /\ cs'[p].locals = cs[p].locals
           /\ cs'[p].at = IF p = Depth THEN at ELSE cs[p].at
  BY <1>1, PushFrames
<1>3. Depth' = Depth + 1 /\ Depth \in Nat \ {0} /\ 1 \in 1 .. Depth
  BY <1>1, <1>2 DEF Depth, TypeOK
<1>4. Top' = f
  BY <1>2, <1>3 DEF Top
<1>5. StackIsNested'
  <2>1. ASSUME NEW p \in 1 .. Depth PROVE CalledBy(cs'[p], cs'[p + 1])
    <3>1. CASE p = Depth
      <4>1. /\ Goes(at)[Depth].kind = cs[Depth].kind /\ Goes(at)[Depth].at = at
            /\ Goes(at)[Depth].dict = cs[Depth].dict
        BY <1>1, <1>3, GoesFrames
      <4> QED BY <1>2, <1>3, <3>1, <4>1 DEF CalledBy
    <3>2. CASE p # Depth
      <4>1. p \in 1 .. Depth - 1 /\ p + 1 \in 1 .. Depth
        BY <1>3, <3>2
      <4>2. CalledBy(cs[p], cs[p + 1])
        BY <1>1, <4>1 DEF StackIsNested
      <4>3. cs'[p].kind = cs[p].kind /\ cs'[p].dict = cs[p].dict /\ cs'[p].at = cs[p].at
        BY <1>2, <3>2
      <4>4. /\ cs'[p + 1].kind = cs[p + 1].kind /\ cs'[p + 1].dict = cs[p + 1].dict
            /\ cs'[p + 1].globals = cs[p + 1].globals
        BY <1>2, <4>1
      <4> QED BY <4>2, <4>3, <4>4 DEF CalledBy
    <3> QED BY <3>1, <3>2
  <2>2. Depth' - 1 = Depth
    BY <1>3
  <2> QED BY <1>1, <1>2, <1>3, <2>1, <2>2 DEF StackIsNested
<1>6. RoomIsLeft'
  <2>1. \A q \in 1 .. Depth + 1 : q \in 1 .. Depth \/ q = Depth + 1
    BY <1>3
  <2> QED BY <1>1, <1>2, <1>3, <2>1, Constants DEF RoomIsLeft
<1>7. \A q : q \in 1 .. Depth + 1 <=> q \in 1 .. Depth \/ q = Depth + 1
  BY <1>3
<1>8. Callbacks' = Callbacks \cup (IF f.kind \in {"exec", "parse"} THEN {Depth + 1} ELSE {})
  BY <1>2, <1>3, <1>7 DEF Callbacks
<1>9. Bufs' = (Bufs \ {Depth}) \cup (IF at \in InBuf THEN {Depth} ELSE {})
                 \cup (IF f.at \in InBuf THEN {Depth + 1} ELSE {})
  BY <1>2, <1>3, <1>7 DEF Bufs
<1> QED BY <1>2, <1>3, <1>4, <1>5, <1>6, <1>8, <1>9

LEMMA PopStack ==
  ASSUME ReplInv, Depth > 1, cs' = Pop(cs)
  PROVE  /\ cs' \in Seq(Activation) /\ Depth' = Depth - 1 /\ Depth' > 0
         /\ CalledBy(Top', Top)
         /\ (StackIsNested /\ RoomIsLeft)'
         /\ Callbacks' = Callbacks \ {Depth} /\ Bufs' = Bufs \ {Depth}
<1>1. TypeOK /\ StackIsNested /\ RoomIsLeft
  BY DEF ReplInv
<1>2. Depth \in Nat /\ Depth - 1 \in 1 .. Depth /\ Depth = Len(cs)
  BY <1>1 DEF Depth, TypeOK
<1>3. /\ cs' \in Seq(Activation) /\ Len(cs') = Depth - 1
      /\ \A p \in 1 .. Depth - 1 : cs'[p] = cs[p]
  BY <1>1, <1>2, CutFrames DEF Pop
<1>4. Depth' = Depth - 1 /\ Depth' > 0
  BY <1>2, <1>3 DEF Depth
<1>5. CalledBy(Top', Top)
  <2>1. Depth \in 2 .. Depth
    BY <1>2
  <2>2. CalledBy(cs[Depth - 1], cs[Depth])
    BY <2>1, Caller
  <2>3. Top' = cs[Depth - 1]
    BY <1>2, <1>3, <1>4 DEF Top
  <2> QED BY <2>2, <2>3 DEF Top
<1>6. \A p \in 1 .. Depth - 1 : p \in 1 .. Depth /\ p # Depth
  BY <1>2
<1>7. StackIsNested'
  <2>1. \A p \in 1 .. Depth - 1 - 1 :
          p \in 1 .. Depth - 1 /\ p + 1 \in 1 .. Depth - 1
    BY <1>2
  <2>2. 1 \in 1 .. Depth - 1
    BY <1>2
  <2> QED BY <1>1, <1>3, <1>4, <2>1, <2>2 DEF StackIsNested
<1>8. RoomIsLeft'
  BY <1>1, <1>3, <1>4, <1>6 DEF RoomIsLeft
<1>9. \A q : q \in 1 .. Depth - 1 <=> q \in 1 .. Depth /\ q # Depth
  BY <1>2
<1>10. Callbacks' = Callbacks \ {Depth} /\ Bufs' = Bufs \ {Depth}
  BY <1>3, <1>4, <1>9 DEF Callbacks, Bufs
<1> QED BY <1>3, <1>4, <1>5, <1>7, <1>8, <1>10

-----------------------------------------------------------------------------
(* nlr_jump *)

(* Where an exception can start. *)
Raising ==
  \/ Is("repl", "guarded") \/ Is("parse", "parse") \/ Is("exec", "compile")
  \/ Is("exec", "call") \/ Is("call", "run") \/ Is("call", "raise")
  \/ Is("class", "body") \/ Is("class", "meta") \/ Is("print", "print")

(* The latest nlr_buf is at p, and what is above it: nothing, a call that  *)
(* raises, or an exec or a class, which a call that raises may be above, a *)
(* parser above an exec.                                                   *)
Catches(p) ==
  /\ p \in Bufs /\ \A r \in Bufs : r <= p
  /\ cs[p].kind \in {"repl", "call"}
  /\ p = Depth => Top.at # "raise"
  /\ p < Depth =>
       \/ cs[p + 1].kind = "exec"
       \/ p = Depth - 1 /\ Top.at = "raise"
       \/ cs[p + 1].kind = "class" /\ (p = Depth - 1 \/ (p = Depth - 2 /\ Top.at = "raise"))
  /\ \A q \in p + 1 .. Depth :
       /\ cs[q].kind = "exec" => q = p + 1
       /\ cs[q].kind = "parse" => q = Depth

LEMMA StackBottom ==
  ASSUME ReplInv
  PROVE  /\ Depth \in Nat \ {0} /\ Depth \in 1 .. Depth
         /\ Top.kind # "repl" => Depth \in 2 .. Depth
         /\ \A p \in 1 .. Depth : cs[p].kind = "repl" => p = 1
         /\ \A p \in 1 .. Depth : cs[p].kind = "print" => p = 2 /\ cs[1].at = "prompt"
<1>1. TypeOK /\ StackIsNested
  BY DEF ReplInv
<1>2. Depth \in Nat \ {0} /\ Depth \in 1 .. Depth
  BY <1>1 DEF TypeOK, Depth
<1>3. Top.kind # "repl" => Depth \in 2 .. Depth
  <2>1. Depth = 1 => Top.kind = "repl"
    BY <1>1 DEF StackIsNested, Top
  <2> QED BY <1>2, <2>1
<1>4. \A p \in 1 .. Depth : cs[p].kind = "repl" => p = 1
  <2> SUFFICES ASSUME NEW p \in 1 .. Depth, cs[p].kind = "repl", p # 1 PROVE FALSE
    OBVIOUS
  <2>1. p \in 2 .. Depth
    BY <1>2
  <2> QED BY <2>1, Caller DEF CalledBy
<1>5. ASSUME NEW p \in 1 .. Depth, cs[p].kind = "print"
      PROVE  p = 2 /\ cs[1].at = "prompt"
  <2>1. p \in 2 .. Depth
    BY <1>1, <1>2, <1>5 DEF StackIsNested
  <2>2. /\ p - 1 \in 1 .. Depth - 1 /\ cs[p - 1].kind = "repl"
        /\ cs[p - 1].at = "prompt"
    BY <1>5, <2>1, Caller DEF CalledBy
  <2>3. p - 1 \in 1 .. Depth
    BY <1>2, <2>1
  <2>4. p - 1 = 1
    BY <1>4, <2>2, <2>3
  <2> QED BY <2>1, <2>2, <2>4
<1> QED BY <1>2, <1>3, <1>4, <1>5

(* An exec and a class are called from inside an nlr_buf. *)
LEMMA CallerIsGuarded ==
  ASSUME ReplInv, NEW p \in 1 .. Depth, cs[p].kind \in {"exec", "class"}
  PROVE  /\ p - 1 \in 1 .. Depth /\ p - 1 \in Bufs /\ p \notin Bufs
         /\ cs[p - 1].kind \in {"repl", "call"}
<1>1. Depth \in Nat \ {0} /\ p # 1
  BY StackBottom DEF ReplInv, StackIsNested
<1>2. p \in 2 .. Depth /\ p - 1 \in 1 .. Depth
  BY <1>1
<1>3. CalledBy(cs[p - 1], cs[p])
  BY <1>2, Caller
<1>4. cs[p - 1].kind \in {"repl", "call"} /\ cs[p - 1].at \in InBuf
  BY <1>3 DEF CalledBy, InBuf
<1>5. cs[p].at \notin InBuf
  <2>1. CASE p = Depth
    BY <2>1 DEF ReplInv, TopIsRunning, Top, InBuf
  <2>2. CASE p # Depth
    <3>1. p \in 1 .. Depth - 1
      BY <1>1, <2>2
    <3>2. CalledBy(cs[p], cs[p + 1])
      BY <3>1 DEF ReplInv, StackIsNested
    <3> QED BY <3>2 DEF CalledBy, InBuf
  <2> QED BY <2>1, <2>2
<1> QED BY <1>2, <1>4, <1>5 DEF Bufs

LEMMA Catcher ==
  ASSUME ReplInv, Raising
  PROVE  \/ \E p \in Bufs : Catches(p)
         \/ Bufs = {} /\ Top.kind \in {"call", "print"}
            /\ \E p \in 1 .. Depth : cs[p].kind = "print"
<1> DEFINE Goal == \/ \E p \in Bufs : Catches(p)
                   \/ Bufs = {} /\ Top.kind \in {"call", "print"}
                      /\ \E p \in 1 .. Depth : cs[p].kind = "print"
<1>1. Depth \in Nat \ {0} /\ Depth \in 1 .. Depth
  BY StackBottom
<1>2. \A r \in Bufs : r \in 1 .. Depth
  BY DEF Bufs
<1>3. CASE Is("repl", "guarded") \/ Is("call", "run")
  <2>1. /\ Depth \in Bufs /\ cs[Depth].kind \in {"repl", "call"}
        /\ Top.at # "raise"
    BY <1>1, <1>3 DEF Bufs, Is, Top, InBuf
  <2>2. (\A r \in Bufs : r <= Depth) /\ ~(Depth < Depth) /\ Depth + 1 .. Depth = {}
    BY <1>1, <1>2
  <2> QED BY <2>1, <2>2 DEF Catches
<1>4. CASE Top.kind \in {"exec", "class"}
  <2>1. /\ Depth - 1 \in 1 .. Depth /\ Depth - 1 \in Bufs /\ Depth \notin Bufs
        /\ cs[Depth - 1].kind \in {"repl", "call"} /\ cs[Depth].kind \in {"exec", "class"}
    BY <1>1, <1>4, CallerIsGuarded DEF Top
  <2>2. /\ \A r \in Bufs : r <= Depth - 1
        /\ Depth - 1 # Depth /\ Depth - 1 + 1 = Depth
        /\ \A q \in Depth - 1 + 1 .. Depth : q = Depth
    BY <1>1, <1>2, <2>1
  <2> QED BY <2>1, <2>2 DEF Catches
<1>5. ASSUME NEW d \in 1 .. Depth, d = Depth - 1,
             \/ cs[d].kind = "exec" /\ Is("parse", "parse")
             \/ cs[d].kind \in {"exec", "class"} /\ Is("call", "raise")
      PROVE  Goal
  <2>1. /\ d - 1 \in 1 .. Depth /\ d - 1 \in Bufs /\ d \notin Bufs
        /\ cs[d - 1].kind \in {"repl", "call"}
    BY <1>5, CallerIsGuarded
  <2>2. Depth \notin Bufs /\ cs[Depth].kind # "exec"
    BY <1>5 DEF Is, Top, Bufs, InBuf
  <2>3. /\ \A r \in Bufs : r <= d - 1
        /\ d - 1 # Depth /\ d - 1 + 1 = d /\ d - 1 = Depth - 2
        /\ \A q \in d - 1 + 1 .. Depth : q = d \/ q = Depth
    BY <1>1, <1>2, <1>5, <2>1, <2>2
  <2>4. \/ cs[d].kind = "exec"
        \/ cs[d].kind = "class" /\ Top.at = "raise"
    BY <1>5 DEF Is
  <2>5. /\ \A q \in d - 1 + 1 .. Depth : cs[q].kind = "exec" => q = d - 1 + 1
        /\ \A q \in d - 1 + 1 .. Depth : cs[q].kind = "parse" => q = Depth
    BY <2>2, <2>3, <2>4
  <2> QED BY <2>1, <2>3, <2>4, <2>5 DEF Catches
<1>6. CASE Is("parse", "parse")
  <2>1. Depth \in 2 .. Depth
    BY <1>6, StackBottom DEF Is
  <2>2. cs[Depth - 1].kind = "exec" /\ Depth - 1 \in 1 .. Depth
    BY <1>1, <1>6, <2>1, Caller DEF CalledBy, Is, Top
  <2> QED BY <1>5, <1>6, <2>2
<1>7. CASE Is("call", "raise")
  <2>1. Depth \in 2 .. Depth
    BY <1>7, StackBottom DEF Is
  <2>2. CalledBy(cs[Depth - 1], cs[Depth]) /\ Depth - 1 \in 1 .. Depth
    BY <1>1, <2>1, Caller
  <2>3. CASE cs[Depth - 1].kind \in {"exec", "class"}
    BY <1>5, <1>7, <2>2, <2>3
  <2>4. Depth \notin Bufs
    BY <1>7 DEF Is, Top, Bufs, InBuf
  <2>5. CASE cs[Depth - 1].kind = "call"
    <3>1. Depth - 1 \in Bufs
      BY <2>2, <2>5 DEF CalledBy, Bufs, InBuf
    <3>2. /\ \A r \in Bufs : r <= Depth - 1
          /\ Depth - 1 # Depth /\ Depth - 1 + 1 = Depth
          /\ \A q \in Depth - 1 + 1 .. Depth : q = Depth
      BY <1>1, <1>2, <2>4
    <3>3. Top.at = "raise" /\ cs[Depth].kind = "call"
      BY <1>7 DEF Is, Top
    <3> QED BY <2>5, <3>1, <3>2, <3>3 DEF Catches
  <2>6. CASE cs[Depth - 1].kind = "print"
    <3>1. Depth - 1 = 2 /\ cs[1].at = "prompt"
      BY <2>2, <2>6, StackBottom
    <3>2. 1 \notin Bufs /\ 2 \notin Bufs
      BY <2>2, <2>6, <3>1 DEF CalledBy, Bufs, InBuf
    <3>3. \A q \in 1 .. Depth : q = 1 \/ q = 2 \/ q = Depth
      BY <1>1, <3>1
    <3>4. Bufs = {}
      BY <1>2, <2>4, <3>2, <3>3
    <3> QED BY <1>7, <2>2, <2>6, <3>4 DEF Is
  <2>7. cs[Depth - 1].kind \in {"exec", "call", "class", "print"}
    BY <1>7, <2>2 DEF CalledBy, Is, Top
  <2> QED BY <2>3, <2>5, <2>6, <2>7
<1>8. CASE Is("print", "print")
  <2>1. Depth = 2 /\ cs[1].at = "prompt"
    BY <1>1, <1>8, StackBottom DEF Is, Top
  <2>2. 1 \notin Bufs /\ 2 \notin Bufs
    BY <1>8, <2>1 DEF Is, Top, Bufs, InBuf
  <2>3. \A q \in 1 .. Depth : q = 1 \/ q = 2
    BY <2>1
  <2>4. Bufs = {}
    BY <1>2, <2>2, <2>3
  <2> QED BY <1>1, <1>8, <2>4 DEF Is, Top
<1> QED BY <1>3, <1>4, <1>6, <1>7, <1>8 DEF Raising, Is

(* What is left of the stack when the activation at p has caught. *)
LEMMA CutStack ==
  ASSUME ReplInv, NEW p \in 1 .. Depth,
         cs' = [SubSeq(cs, 1, p) EXCEPT ![p].at = "caught"]
  PROVE  /\ cs' \in Seq(Activation) /\ Depth' = p
         /\ Top'.at = "caught" /\ Top'.kind = cs[p].kind /\ Top'.dict = cs[p].dict
         /\ \A q \in 1 .. p : cs'[q].kind = cs[q].kind /\ cs'[q].locals = cs[q].locals
         /\ (StackIsNested /\ RoomIsLeft)'
         /\ Callbacks' = {q \in Callbacks : q <= p}
         /\ Bufs' = {q \in Bufs : q <= p} \ {p}
<1>1. TypeOK /\ StackIsNested /\ RoomIsLeft /\ Depth \in Nat \ {0}
  BY StackBottom DEF ReplInv
<1> DEFINE t == SubSeq(cs, 1, p)
           f == [t[p] EXCEPT !.at = "caught"]
<1>2. t \in Seq(Activation) /\ Len(t) = p /\ \A q \in 1 .. p : t[q] = cs[q]
  BY <1>1, CutFrames
<1>3. cs' = [t EXCEPT ![p] = f]
  OBVIOUS
<1> HIDE DEF t
<1>4. t[p] \in Activation /\ t[p] = cs[p]
  BY <1>1, <1>2
<1>5. /\ f \in Activation /\ f.at = "caught" /\ f.kind = cs[p].kind
      /\ f.dict = cs[p].dict /\ f.globals = cs[p].globals /\ f.locals = cs[p].locals
  BY <1>4 DEF Activation, Places
<1> HIDE DEF f
<1>6. /\ cs' \in Seq(Activation) /\ Len(cs') = p
      /\ \A q \in 1 .. p : cs'[q] = IF q = p THEN f ELSE cs[q]
  <2>1. p \in 1 .. p
    BY <1>1
  <2>2. p \in 1 .. Len(t)
    BY <1>2, <2>1
  <2>3. /\ [t EXCEPT ![p] = f] \in Seq(Activation) /\ Len([t EXCEPT ![p] = f]) = p
        /\ \A q \in 1 .. p : [t EXCEPT ![p] = f][q] = IF q = p THEN f ELSE t[q]
    BY <1>2, <1>5, <2>2, ExceptSeq
  <2> QED BY <1>2, <1>3, <2>3, Zenon
<1>7. p \in 1 .. p /\ 1 \in 1 .. p /\ Depth' = p
  BY <1>1, <1>6 DEF Depth
<1>8. Top'.at = "caught" /\ Top'.kind = cs[p].kind /\ Top'.dict = cs[p].dict
  BY <1>5, <1>6, <1>7 DEF Top
<1>9. \A q \in 1 .. p : /\ cs'[q].kind = cs[q].kind /\ cs'[q].locals = cs[q].locals
                        /\ cs'[q].dict = cs[q].dict /\ cs'[q].globals = cs[q].globals
                        /\ cs'[q].at = IF q = p THEN "caught" ELSE cs[q].at
  BY <1>5, <1>6
<1>10. \A q : q \in 1 .. p <=> q \in 1 .. Depth /\ q <= p
  BY <1>1
<1>11. StackIsNested'
  <2>1. ASSUME NEW q \in 1 .. p - 1 PROVE CalledBy(cs'[q], cs'[q + 1])
    <3>1. q \in 1 .. p /\ q + 1 \in 1 .. p /\ q # p /\ q \in 1 .. Depth - 1
      BY <1>1
    <3>2. CalledBy(cs[q], cs[q + 1])
      BY <1>1, <3>1 DEF StackIsNested
    <3> QED BY <1>9, <3>1, <3>2 DEF CalledBy
  <2> QED BY <1>1, <1>7, <1>9, <2>1 DEF StackIsNested
<1>12. RoomIsLeft'
  BY <1>1, <1>7, <1>9, <1>10 DEF RoomIsLeft
<1>13. Callbacks' = {q \in Callbacks : q <= p}
  BY <1>7, <1>9, <1>10 DEF Callbacks
<1>14. Bufs' = {q \in Bufs : q <= p} \ {p}
  BY <1>7, <1>9, <1>10 DEF Bufs, InBuf
<1> QED BY <1>6, <1>7, <1>8, <1>9, <1>11, <1>12, <1>13, <1>14

(* The callbacks that run: the parser's if it was on top, and the exec's   *)
(* if there is one, which is the activation right above the one at p.      *)
LEMMA CallbacksRun ==
  ASSUME ReplInv, Raising, NEW p \in 1 .. Depth, Catches(p), nlr_call_jump_callbacks(p)
  PROVE  /\ nlr_jump_callback_top' \in Seq(Nat)
         /\ Lists(nlr_jump_callback_top', {q \in Callbacks : q <= p})
         /\ lexers' = 0 /\ globals' = cs[p].dict
         /\ \/ (\A q \in p + 1 .. Depth : cs[q].kind # "exec") /\ UNCHANGED locals
            \/ /\ p + 1 \in 1 .. Depth /\ cs[p + 1].kind = "exec"
               /\ locals' = cs[p + 1].locals
<1> DEFINE cb == nlr_jump_callback_top
<1>1. /\ TypeOK /\ Lists(cb, Callbacks) /\ ContextIsTops /\ LexersAreCounted
      /\ cb \in Seq(Nat) /\ Callbacks \in SUBSET Nat /\ Depth \in Nat \ {0}
  BY StackBottom DEF ReplInv, ChainsMatchStack, TypeOK, Callbacks
<1>2. PICK k \in 0 .. Len(cb) :
        /\ k > 0 => cb[k] <= p
        /\ \A i \in k + 1 .. Len(cb) : cb[i] > p
        /\ cb' = SubSeq(cb, 1, k)
        /\ lexers' = lexers - Cardinality({i \in k + 1 .. Len(cb) : cs[cb[i]].kind = "parse"})
        /\ \/ (\A i \in k + 1 .. Len(cb) : cs[cb[i]].kind # "exec") /\ UNCHANGED context
           \/ \E i \in k + 1 .. Len(cb) :
                /\ cs[cb[i]].kind = "exec"
                /\ globals' = cs[cb[i]].globals /\ locals' = cs[cb[i]].locals
  BY DEF nlr_call_jump_callbacks
<1>3. cb' \in Seq(Nat) /\ Lists(cb', {q \in Callbacks : q <= p})
  <2>1. p \in Nat
    BY <1>1
  <2>2. (k > 0 => cb[k] <= p) /\ \A i \in k + 1 .. Len(cb) : cb[i] > p
    BY <1>2
  <2>3. SubSeq(cb, 1, k) \in Seq(Nat) /\ Lists(SubSeq(cb, 1, k), {q \in Callbacks : q <= p})
    BY <1>1, <2>1, <2>2, ListCut
  <2> QED BY <1>2, <2>3
<1> HIDE DEF cb
<1>4. \A i \in k + 1 .. Len(cb) :
        cb[i] \in p + 1 .. Depth /\ cb[i] \in Callbacks /\ i \in 1 .. Len(cb)
  <2> TAKE i \in k + 1 .. Len(cb)
  <2>1. i \in 1 .. Len(cb)
    BY <1>1
  <2>2. cb[i] \in Callbacks /\ cb[i] \in 1 .. Depth /\ cb[i] > p
    BY <1>1, <1>2, <2>1 DEF Lists, Callbacks
  <2> QED BY <2>1, <2>2
(* Every callback above p is among those that run. *)
<1>5. ASSUME NEW q \in p + 1 .. Depth, q \in Callbacks
      PROVE  \E i \in k + 1 .. Len(cb) : cb[i] = q
  <2>1. PICK i \in 1 .. Len(cb) : cb[i] = q
    BY <1>1, <1>5 DEF Lists
  <2>2. k \in 1 .. Len(cb) => (i < k => cb[i] < cb[k]) /\ cb[k] \in Nat
    BY <1>1 DEF Lists
  <2>3. Len(cb) \in Nat /\ q \in Nat /\ q > p
    BY <1>1
  <2>4. i > k
    BY <1>2, <2>1, <2>2, <2>3
  <2>5. i \in k + 1 .. Len(cb)
    BY <2>3, <2>4
  <2> QED BY <2>1, <2>5
<1>6. /\ \/ (\A q \in p + 1 .. Depth : cs[q].kind # "exec") /\ UNCHANGED locals
         \/ /\ p + 1 \in 1 .. Depth /\ cs[p + 1].kind = "exec"
            /\ locals' = cs[p + 1].locals
      /\ globals' = cs[p].dict
  <2>1. CASE (\A i \in k + 1 .. Len(cb) : cs[cb[i]].kind # "exec") /\ UNCHANGED context
    <3>1. \A q \in p + 1 .. Depth : cs[q].kind # "exec"
      <4> SUFFICES ASSUME NEW q \in p + 1 .. Depth, cs[q].kind = "exec" PROVE FALSE
        OBVIOUS
      <4>1. q \in Callbacks
        BY <1>1 DEF Callbacks
      <4> QED BY <1>5, <2>1, <4>1
    <3>2. globals = cs[p].dict
      <4>1. CASE p = Depth
        <5>1. Top.at \notin {"raise", "fatal"}
          BY <4>1 DEF Raising, Is, Catches
        <5> QED BY <1>1, <4>1, <5>1 DEF ContextIsTops, Top
      <4>2. CASE p # Depth
        <5>1. p < Depth /\ p + 1 \in p + 1 .. Depth
          BY <1>1, <4>2
        <5>2. Depth \in 2 .. Depth /\ CalledBy(cs[Depth - 1], Top)
          <6>1. Depth \in 2 .. Depth
            BY <1>1, <5>1
          <6> QED BY <6>1, Caller DEF Top
        <5>3. CASE p = Depth - 1 /\ Top.at = "raise"
          BY <1>1, <5>2, <5>3 DEF ContextIsTops, CalledBy
        <5>4. CASE cs[p + 1].kind = "class"
          <6>1. cs[p + 1].dict = cs[p].dict
            <7>1. p + 1 \in 2 .. Depth /\ p + 1 - 1 = p
              BY <1>1, <5>1
            <7>2. CalledBy(cs[p + 1 - 1], cs[p + 1])
              BY <7>1, Caller
            <7> QED BY <5>4, <7>1, <7>2 DEF CalledBy
          <6>2. CASE p = Depth - 1
            <7>1. p + 1 = Depth /\ Top = cs[p + 1]
              BY <1>1, <6>2 DEF Top
            <7>2. Top.at \notin {"raise", "fatal"}
              BY <5>4, <7>1 DEF Raising, Is
            <7> QED BY <1>1, <6>1, <7>1, <7>2 DEF ContextIsTops
          <6>3. CASE p = Depth - 2 /\ Top.at = "raise"
            <7>1. Depth - 1 = p + 1
              BY <1>1, <6>3
            <7> QED BY <1>1, <5>2, <6>1, <6>3, <7>1 DEF ContextIsTops, CalledBy
          <6> QED BY <3>1, <5>1, <5>3, <5>4, <6>2, <6>3 DEF Catches
        <5> QED BY <3>1, <5>1, <5>3, <5>4 DEF Catches
      <4> QED BY <4>1, <4>2
    <3> QED BY <2>1, <3>1, <3>2 DEF context
  <2>2. ASSUME NEW i \in k + 1 .. Len(cb), cs[cb[i]].kind = "exec",
               globals' = cs[cb[i]].globals, locals' = cs[cb[i]].locals
        PROVE  /\ p + 1 \in 1 .. Depth /\ cs[p + 1].kind = "exec"
               /\ locals' = cs[p + 1].locals /\ globals' = cs[p].dict
    <3>1. cb[i] = p + 1
      BY <1>4, <2>2 DEF Catches
    <3>2. p + 1 \in 2 .. Depth /\ p + 1 - 1 = p /\ p + 1 \in 1 .. Depth
      BY <1>1, <1>4, <3>1
    <3>3. CalledBy(cs[p + 1 - 1], cs[p + 1])
      BY <3>2, Caller
    <3>4. cs[p + 1].globals = cs[p].dict
      BY <3>2, <3>3 DEF CalledBy
    <3> QED BY <2>2, <3>1, <3>2, <3>4
  <2> QED BY <1>2, <2>1, <2>2 DEF cb
<1>7. lexers' = 0
  <2> DEFINE I == {i \in k + 1 .. Len(cb) : cs[cb[i]].kind = "parse"}
  <2>1. lexers' = lexers - Cardinality(I)
    BY <1>2 DEF cb
  <2>2. CASE Top.kind = "parse"
    <3>1. Depth \in p + 1 .. Depth /\ Depth \in Callbacks
      <4>1. p # Depth
        BY <2>2 DEF Catches, Top
      <4> QED BY <1>1, <2>2, <4>1 DEF Callbacks, Top
    <3>2. PICK i \in k + 1 .. Len(cb) : cb[i] = Depth
      BY <1>5, <3>1
    <3>3. \A j \in I : cb[j] = Depth
      BY <1>4 DEF Catches
    <3>4. \A j \in I : j = i
      <4> TAKE j \in I
      <4>1. i \in 1 .. Len(cb) /\ j \in 1 .. Len(cb) /\ cb[i] = cb[j] /\ cb[i] \in Nat
        BY <1>1, <1>4, <3>2, <3>3
      <4>2. (i < j => cb[i] < cb[j]) /\ (j < i => cb[j] < cb[i])
        BY <1>1, <4>1 DEF Lists
      <4> QED BY <4>1, <4>2
    <3>5. I = {i}
      BY <2>2, <3>2, <3>4 DEF Top
    <3>6. Cardinality(I) = 1
      BY <3>5, FS_Singleton
    <3>7. lexers = 1
      BY <1>1, <2>2 DEF LexersAreCounted
    <3> QED BY <2>1, <3>6, <3>7
  <2>3. CASE Top.kind # "parse"
    <3>1. I = {}
      <4> SUFFICES ASSUME NEW i \in I PROVE FALSE
        OBVIOUS
      <4>1. cb[i] = Depth
        BY <1>4 DEF Catches
      <4> QED BY <2>3, <4>1 DEF Top
    <3>2. Cardinality(I) = 0
      BY <3>1, FS_EmptySet
    <3>3. lexers = 0
      BY <1>1, <2>3 DEF LexersAreCounted, Raising, Is
    <3> QED BY <2>1, <3>2, <3>3
  <2> QED BY <2>2, <2>3
<1> QED BY <1>3, <1>6, <1>7 DEF cb

LEMMA RaiseInv == ASSUME ReplInv, Raise PROVE ReplInv'
<1>1. /\ TypeOK /\ Depth \in Nat \ {0}
      /\ Lists(nlr_top, Bufs) /\ Bufs \in SUBSET Nat /\ nlr_top \in Seq(Nat)
      /\ Lists(nlr_jump_callback_top, Callbacks)
  BY StackBottom DEF ReplInv, ChainsMatchStack, TypeOK, Bufs
<1>2. Raising /\ nlr_jump
  BY DEF Raise, Raising
<1>3. UNCHANGED script
  BY Zenon DEF Raise
<1>4. script' \in BOOLEAN
  BY <1>1, <1>3, Zenon DEF TypeOK
<1>5. CASE nlr_top = << >>
  <2>1. /\ cs' = Goes("fatal")
        /\ UNCHANGED <<nlr_top, nlr_jump_callback_top, globals, locals, lexers>>
    BY <1>2, <1>5 DEF nlr_jump, context
  <2>2. Bufs = {}
    BY <1>1, <1>5, ListEmpty
  <2>3. /\ Top.kind \in {"call", "print"}
        /\ \E p \in 1 .. Depth : cs[p].kind = "print"
    BY <1>2, <2>2, Catcher
  <2>4. "fatal" \in Places /\ "fatal" \notin InBuf
    BY DEF Places, InBuf
  <2>5. /\ cs' \in Seq(Activation) /\ Depth' = Depth
        /\ Top'.kind = Top.kind /\ Top'.at = "fatal"
        /\ (StackIsNested /\ RoomIsLeft)'
        /\ Callbacks' = Callbacks /\ Bufs' = Bufs
    BY <2>1, <2>2, <2>4, StayStack
  <2>6. TypeOK'
    <3>1. /\ cs' \in Seq(Activation) /\ Depth' > 0
          /\ nlr_top' \in Seq(Nat) /\ nlr_jump_callback_top' \in Seq(Nat)
          /\ globals' \in Dicts /\ locals' \in Dicts /\ lexers' \in Nat
      BY <1>1, <2>1, <2>5 DEF TypeOK
    <3> QED BY <1>4, <3>1, Zenon DEF TypeOK
  <2>7. ChainsMatchStack'
    BY <1>1, <2>1, <2>5 DEF ChainsMatchStack, Lists
  <2>8. (TopIsRunning /\ ContextIsTops)'
    BY <2>3, <2>5 DEF TopIsRunning, ContextIsTops
  <2>9. LexersAreCounted'
    <3>1. lexers = 0
      BY <2>3 DEF ReplInv, LexersAreCounted
    <3> QED BY <2>1, <2>3, <2>5, <3>1 DEF LexersAreCounted
  <2>10. OnlyPrintingIsFatal'
    <3>1. PICK p \in 1 .. Depth : cs[p].kind = "print"
      BY <2>3
    <3>2. cs'[p].kind = cs[p].kind
      BY <1>1, <2>1, <2>4, GoesFrames
    <3> QED BY <2>5, <3>1, <3>2 DEF OnlyPrintingIsFatal
  <2> QED BY <2>5, <2>6, <2>7, <2>8, <2>9, <2>10 DEF ReplInv
<1>6. CASE nlr_top # << >>
  <2>1. Bufs # {}
    BY <1>1, <1>6, ListEmpty
  <2>2. PICK p \in Bufs : Catches(p)
    BY <1>2, <2>1, Catcher
  <2>3. p \in 1 .. Depth
    BY DEF Bufs
  <2>4. /\ nlr_top[Len(nlr_top)] = p
        /\ Pop(nlr_top) \in Seq(Nat) /\ Lists(Pop(nlr_top), Bufs \ {p})
    BY <1>1, <2>2, ListPop DEF Catches
  <2>5. /\ cs' = [SubSeq(cs, 1, p) EXCEPT ![p].at = "caught"]
        /\ nlr_top' = Pop(nlr_top) /\ nlr_call_jump_callbacks(p)
    BY <1>2, <1>6, <2>4 DEF nlr_jump
  <2>6. /\ cs' \in Seq(Activation) /\ Depth' = p
        /\ Top'.at = "caught" /\ Top'.kind = cs[p].kind /\ Top'.dict = cs[p].dict
        /\ \A q \in 1 .. p : cs'[q].kind = cs[q].kind /\ cs'[q].locals = cs[q].locals
        /\ (StackIsNested /\ RoomIsLeft)'
        /\ Callbacks' = {q \in Callbacks : q <= p}
        /\ Bufs' = {q \in Bufs : q <= p} \ {p}
    BY <2>3, <2>5, CutStack
  <2>7. /\ nlr_jump_callback_top' \in Seq(Nat)
        /\ Lists(nlr_jump_callback_top', {q \in Callbacks : q <= p})
        /\ lexers' = 0 /\ globals' = cs[p].dict
        /\ \/ (\A q \in p + 1 .. Depth : cs[q].kind # "exec") /\ UNCHANGED locals
           \/ /\ p + 1 \in 1 .. Depth /\ cs[p + 1].kind = "exec"
              /\ locals' = cs[p + 1].locals
    BY <1>2, <2>2, <2>3, <2>5, CallbacksRun
  <2>8. \A q \in 1 .. Depth : cs[q].dict \in Dicts /\ cs[q].locals \in Dicts
    <3>1. \A q \in 1 .. Depth : cs[q] \in Activation
      BY <1>1 DEF TypeOK, Depth
    <3> QED BY <3>1 DEF Activation
  <2>9. TypeOK'
    <3>1. /\ cs' \in Seq(Activation) /\ Depth' > 0
          /\ nlr_top' \in Seq(Nat) /\ nlr_jump_callback_top' \in Seq(Nat)
          /\ lexers' \in Nat
      <4>1. p > 0 /\ 0 \in Nat
        BY <1>1, <2>3
      <4> QED BY <2>4, <2>5, <2>6, <2>7, <4>1
    <3>2. globals' \in Dicts /\ locals' \in Dicts
      BY <1>1, <2>3, <2>7, <2>8 DEF TypeOK
    <3> QED BY <1>4, <3>1, <3>2, Zenon DEF TypeOK
  <2>10. ChainsMatchStack'
    <3>1. {q \in Bufs : q <= p} = Bufs
      BY <2>2 DEF Catches
    <3> QED BY <2>4, <2>5, <2>6, <2>7, <3>1 DEF ChainsMatchStack
  <2>11. (TopIsRunning /\ ContextIsTops /\ OnlyPrintingIsFatal)'
    BY <2>2, <2>6, <2>7 DEF TopIsRunning, ContextIsTops, OnlyPrintingIsFatal, Catches
  <2>12. LexersAreCounted'
    BY <2>2, <2>6, <2>7 DEF LexersAreCounted, Catches
  <2> QED BY <2>6, <2>9, <2>10, <2>11, <2>12 DEF ReplInv
<1> QED BY <1>5, <1>6

-----------------------------------------------------------------------------
(* The other steps *)

LEMMA TopOfChains ==
  ASSUME ReplInv
  PROVE  /\ Bufs \in SUBSET Nat /\ Callbacks \in SUBSET Nat /\ Depth \in Nat
         /\ \A p \in Bufs \cup Callbacks : p <= Depth
         /\ Depth \in Bufs <=> Top.at \in InBuf
         /\ Depth \in Callbacks <=> Top.kind \in {"exec", "parse"}
         /\ nlr_top \in Seq(Nat) /\ nlr_jump_callback_top \in Seq(Nat)
         /\ Lists(nlr_top, Bufs) /\ Lists(nlr_jump_callback_top, Callbacks)
         /\ globals \in Dicts /\ locals \in Dicts /\ lexers \in Nat
<1>1. Depth \in Nat \ {0} /\ Depth \in 1 .. Depth
  BY StackBottom
<1> QED BY <1>1 DEF ReplInv, TypeOK, ChainsMatchStack, Bufs, Callbacks, Top

LEMMA TopTyped ==
  ASSUME ReplInv
  PROVE  /\ Top \in Activation
         /\ Top.dict \in Dicts /\ Top.globals \in Dicts /\ Top.locals \in Dicts
<1>1. Depth \in 1 .. Len(cs) /\ cs \in Seq(Activation)
  BY StackBottom DEF ReplInv, TypeOK, Depth
<1>2. Top \in Activation
  BY <1>1 DEF Top
<1> QED BY <1>2 DEF Activation

LEMMA FrameTyped ==
  ASSUME ReplInv, NEW k \in Kinds, NEW at \in Places, NEW d \in Dicts
  PROVE  /\ Frame(k, at, d) \in Activation
         /\ Frame(k, at, d).kind = k /\ Frame(k, at, d).at = at
         /\ Frame(k, at, d).dict = d
         /\ Frame(k, at, d).globals = globals /\ Frame(k, at, d).locals = locals
  BY TopOfChains DEF Frame, Activation

LEMMA Assemble ==
  ASSUME ReplInv, UNCHANGED script,
         cs' \in Seq(Activation), Depth' > 0, Top'.at # "fatal",
         nlr_top' \in Seq(Nat), nlr_jump_callback_top' \in Seq(Nat),
         Lists(nlr_top', Bufs'), Lists(nlr_jump_callback_top', Callbacks'),
         globals' \in Dicts, locals' \in Dicts, lexers' \in Nat,
         (StackIsNested /\ RoomIsLeft)',
         (TopIsRunning /\ ContextIsTops /\ LexersAreCounted)'
  PROVE  ReplInv'
<1>1. script' \in BOOLEAN
  BY Zenon DEF ReplInv, TypeOK
<1>2. TypeOK'
  BY <1>1, Zenon DEF TypeOK
<1>3. ChainsMatchStack' /\ OnlyPrintingIsFatal'
  BY DEF ChainsMatchStack, OnlyPrintingIsFatal
<1> QED BY <1>2, <1>3 DEF ReplInv

LEMMA InitInv == Init => ReplInv
<1> SUFFICES ASSUME Init PROVE ReplInv
  OBVIOUS
<1> USE Constants
<1>1. script \in BOOLEAN
  BY Zenon DEF Init
<1> DEFINE f == Frame("repl", "start", Main)
<1>2. /\ f \in Activation /\ f.kind = "repl" /\ f.at = "start" /\ f.dict = Main
      /\ globals = Main /\ locals = Main
  BY DEF Init, Frame, Activation, Kinds, Places
<1>3. cs = <<f>>
  BY DEF Init
<1> HIDE DEF f
<1>4. cs \in Seq(Activation) /\ Depth = 1 /\ cs[1] = f /\ Top = f
  BY <1>2, <1>3 DEF Depth, Top
<1>5. TypeOK
  <2>1. /\ cs \in Seq(Activation) /\ Depth > 0
        /\ nlr_top \in Seq(Nat) /\ nlr_jump_callback_top \in Seq(Nat)
        /\ globals \in Dicts /\ locals \in Dicts /\ lexers \in Nat
    BY <1>2, <1>4 DEF Init
  <2> QED BY <1>1, <2>1, Zenon DEF TypeOK
<1>6. \A p \in 1 .. Depth : p = 1
  BY <1>4
<1>7. ChainsMatchStack
  <2>1. Bufs = {} /\ Callbacks = {}
    BY <1>2, <1>4, <1>6 DEF Bufs, Callbacks, InBuf
  <2>2. nlr_top = << >> /\ nlr_jump_callback_top = << >>
    BY DEF Init
  <2> QED BY <2>1, <2>2 DEF ChainsMatchStack, Lists
<1>8. StackIsNested /\ TopIsRunning /\ ContextIsTops /\ OnlyPrintingIsFatal
  BY <1>2, <1>4 DEF StackIsNested, TopIsRunning, ContextIsTops, OnlyPrintingIsFatal
<1>9. RoomIsLeft
  BY <1>2, <1>4, <1>6 DEF RoomIsLeft
<1>10. LexersAreCounted
  BY <1>2, <1>4 DEF LexersAreCounted, Init
<1> QED BY <1>5, <1>7, <1>8, <1>9, <1>10 DEF ReplInv

(* Steps that stay in the same activation *)

LEMMA StayInv ==
  ASSUME ReplInv,
         \/ mp_compile \/ Handled \/ NotHandled \/ ClassBuilt
         \/ Guard \/ NoScript \/ SourceRan
  PROVE  ReplInv'
<1> USE TopOfChains, TopTyped
<1>1. /\ UNCHANGED <<nlr_jump_callback_top, lexers>> /\ locals' \in Dicts
      /\ \/ /\ Is("class", "body") /\ cs' = Goes("meta") /\ UNCHANGED <<nlr_top, globals>>
         \/ /\ Is("exec", "compile") /\ cs' = Goes("call") /\ UNCHANGED <<nlr_top, globals>>
         \/ /\ Is("call", "caught") /\ cs' = Goes("run") /\ UNCHANGED globals
            /\ nlr_top' = Append(nlr_top, Depth)
         \/ /\ Is("call", "caught") /\ cs' = Goes("raise") /\ UNCHANGED nlr_top
            /\ globals' = Top.globals
         \/ /\ Is("repl", "start") \/ Is("repl", "prompt")
            /\ cs' = Goes("guarded") /\ nlr_top' = <<1>> /\ UNCHANGED globals
         \/ Is("repl", "start") /\ cs' = Goes("prompt") /\ UNCHANGED <<nlr_top, globals>>
         \/ /\ Is("repl", "ran") /\ cs' = Goes("prompt") /\ UNCHANGED globals
            /\ nlr_top' = Pop(nlr_top)
  BY DEF mp_compile, Handled, NotHandled, ClassBuilt, Guard, NoScript,
     SourceRan, context
<1>2. UNCHANGED script
  BY Zenon DEF mp_compile, Handled, NotHandled, ClassBuilt, Guard, NoScript,
     SourceRan
<1>3. PICK at \in {"call", "run", "raise", "meta", "guarded", "prompt"} : cs' = Goes(at)
  BY <1>1
<1>4. at \in Places
  BY DEF Places
<1>5. /\ cs' \in Seq(Activation) /\ Depth' = Depth /\ Depth > 0
      /\ Top'.kind = Top.kind /\ Top'.at = at
      /\ Top'.dict = Top.dict /\ Top'.globals = Top.globals
      /\ (StackIsNested /\ RoomIsLeft)'
      /\ Callbacks' = Callbacks
      /\ Bufs' = (Bufs \ {Depth}) \cup (IF at \in InBuf THEN {Depth} ELSE {})
  BY <1>1, <1>3, <1>4, StayStack, StackBottom
<1>6. \A a \in Places : cs' = Goes(a) => Top'.at = a
  BY <1>1, StayStack
<1>7. /\ TopIsRunning /\ ContextIsTops /\ LexersAreCounted
  BY DEF ReplInv
<1>8. (TopIsRunning /\ ContextIsTops /\ LexersAreCounted)' /\ Top'.at # "fatal"
  BY <1>1, <1>3, <1>5, <1>6, <1>7
  DEF TopIsRunning, ContextIsTops, LexersAreCounted, Is, Places
<1>9. nlr_top' \in Seq(Nat) /\ Lists(nlr_top', Bufs')
  <2>1. CASE UNCHANGED nlr_top /\ at \notin InBuf /\ Top.at \notin InBuf
    <3>1. Bufs' = Bufs
      BY <1>5, <2>1
    <3> QED BY <2>1, <3>1
  <2>2. CASE at = "run" /\ nlr_top' = Append(nlr_top, Depth) /\ Top.at = "caught"
    <3>1. Bufs' = Bufs \cup {Depth} /\ \A p \in Bufs : p < Depth
      BY <1>5, <2>2 DEF InBuf
    <3> QED BY <2>2, <3>1, ListAppend
  <2>3. CASE at = "guarded" /\ nlr_top' = <<1>> /\ Top.kind = "repl" /\ Top.at \notin InBuf
    <3>1. Depth = 1
      BY <2>3, StackBottom DEF Top
    <3>2. Bufs = {}
      BY <2>3, <3>1 DEF Bufs, Top
    <3>3. Bufs' = {1}
      BY <1>5, <2>3, <3>1, <3>2 DEF InBuf
    <3> QED BY <2>3, <3>3 DEF Lists
  <2>4. CASE at = "prompt" /\ nlr_top' = Pop(nlr_top) /\ Top.at = "ran"
    <3>1. Bufs' = Bufs \ {Depth} /\ Depth \in Bufs /\ \A p \in Bufs : p <= Depth
      BY <1>5, <2>4 DEF InBuf
    <3> QED BY <2>4, <3>1, ListPop
  <2> QED BY <1>1, <1>3, <1>5, <1>6, <2>1, <2>2, <2>3, <2>4 DEF Is, InBuf, Places
<1>10. globals' \in Dicts /\ locals' \in Dicts /\ lexers' \in Nat
  BY <1>1
<1>11. /\ nlr_jump_callback_top' \in Seq(Nat)
       /\ Lists(nlr_jump_callback_top', Callbacks')
  BY <1>1, <1>5
<1> QED BY <1>2, <1>5, <1>8, <1>9, <1>10, <1>11, Assemble

(* Steps that call *)

LEMMA PushInv ==
  ASSUME ReplInv, NEW at \in Places, NEW k \in Kinds, NEW w \in Places, NEW d \in Dicts,
         UNCHANGED script, cs' = Append(Goes(at), Frame(k, w, d)),
         \/ /\ (Is("repl", "guarded") /\ at = "ran") \/ (Is("call", "run") /\ at = "run")
            /\ k = "exec" /\ w = "parse"
            /\ nlr_jump_callback_top' = Append(nlr_jump_callback_top, Depth + 1)
            /\ lexers' = lexers + 1 /\ UNCHANGED nlr_top
            /\ globals' = d /\ locals' \in Dicts
         \/ /\ Is("exec", "parse") /\ at = "compile"
            /\ k = "parse" /\ w = "parse" /\ d = Top.dict
            /\ nlr_jump_callback_top' = Append(nlr_jump_callback_top, Depth + 1)
            /\ UNCHANGED <<nlr_top, globals, locals, lexers>>
         \/ /\ \/ Is("exec", "call") /\ at = "done"
               \/ Is("call", "run") /\ at = "run"
               \/ Is("class", "body") /\ at = "body"
               \/ Is("class", "meta") /\ at = "meta"
               \/ Is("print", "print") /\ at = "print"
            /\ k = "call" /\ w = "run" /\ Depth < stack_limit
            /\ nlr_top' = Append(nlr_top, Depth + 1) /\ globals' = d
            /\ UNCHANGED <<nlr_jump_callback_top, locals, lexers>>
         \/ /\ Is("call", "run") /\ at = "run"
            /\ k = "class" /\ w = "body" /\ d = Top.dict /\ locals' \in Dicts
            /\ UNCHANGED <<nlr_top, nlr_jump_callback_top, globals, lexers>>
         \/ /\ Is("repl", "caught") /\ at = "prompt"
            /\ k = "print" /\ w = "print" /\ d = Main
            /\ UNCHANGED <<nlr_top, nlr_jump_callback_top, globals, locals, lexers>>
  PROVE  ReplInv'
<1> USE TopOfChains, TopTyped
<1> DEFINE f == Frame(k, w, d)
<1>1. /\ f \in Activation /\ f.kind = k /\ f.at = w /\ f.dict = d
      /\ f.globals = globals /\ f.locals = locals
  BY FrameTyped
<1>2. cs' = Append(Goes(at), f)
  OBVIOUS
<1> HIDE DEF f
<1>3. /\ TypeOK /\ StackIsNested /\ TopIsRunning /\ ContextIsTops /\ LexersAreCounted
      /\ RoomIsLeft /\ Depth \in Nat \ {0} /\ Depth \in 1 .. Depth
  BY StackBottom DEF ReplInv
<1>4. Top.kind = "repl" => Depth = 1 /\ Top.dict = Main
  BY <1>3, StackBottom DEF Top, StackIsNested
<1>5. CalledBy(Goes(at)[Depth], f)
  <2>1. /\ Goes(at)[Depth].kind = Top.kind /\ Goes(at)[Depth].at = at
        /\ Goes(at)[Depth].dict = Top.dict
    BY <1>3, GoesFrames DEF Top
  <2>2. globals = Top.dict
    BY <1>3 DEF ContextIsTops, Is
  <2> QED BY <1>1, <1>4, <2>1, <2>2 DEF CalledBy, Is
<1>6. /\ f.kind = "call" => Depth < stack_limit
      /\ f.kind \in {"exec", "class", "print"} => Depth <= stack_limit
      /\ f.kind = "parse" => Depth <= stack_limit + 1
  <2>1. Top.kind = "call" => Depth <= stack_limit
    BY <1>3 DEF RoomIsLeft, Top
  <2>2. Top.kind = "exec" => Depth <= stack_limit + 1
    BY <1>3 DEF RoomIsLeft, Top
  <2>3. Top.kind = "repl" => Depth <= stack_limit
    BY <1>4, Constants
  <2> QED BY <1>1, <2>1, <2>2, <2>3 DEF Is
<1>7. /\ cs' \in Seq(Activation) /\ Depth' = Depth + 1 /\ Top' = f
      /\ (StackIsNested /\ RoomIsLeft)'
      /\ Callbacks' = Callbacks \cup
           (IF f.kind \in {"exec", "parse"} THEN {Depth + 1} ELSE {})
      /\ Bufs' = (Bufs \ {Depth}) \cup (IF at \in InBuf THEN {Depth} ELSE {})
           \cup (IF f.at \in InBuf THEN {Depth + 1} ELSE {})
  BY <1>1, <1>2, <1>5, <1>6, PushStack
<1>8. Depth' > 0
  BY <1>3, <1>7
<1>9. (TopIsRunning /\ ContextIsTops)' /\ Top'.at # "fatal"
  <2>1. globals' = d
    BY <1>3, <1>4 DEF ContextIsTops, Is
  <2> QED BY <1>1, <1>7, <2>1 DEF TopIsRunning, ContextIsTops
<1>10. LexersAreCounted' /\ lexers' \in Nat
  BY <1>1, <1>3, <1>7 DEF LexersAreCounted, Is
<1>11. Depth + 1 \in Nat /\ \A p \in Bufs \cup Callbacks : p < Depth + 1
  <2>1. \A p \in Bufs \cup Callbacks : p \in Nat /\ p <= Depth
    OBVIOUS
  <2> QED BY <1>3, <2>1
<1>12. nlr_top' \in Seq(Nat) /\ Lists(nlr_top', Bufs')
  <2>1. (Bufs \ {Depth}) \cup (IF at \in InBuf THEN {Depth} ELSE {}) = Bufs
    <3>1. at \in InBuf <=> Top.at \in InBuf
      BY DEF Is, InBuf
    <3> QED BY <3>1
  <2>2. CASE k = "call"
    <3>1. Bufs' = Bufs \cup {Depth + 1}
      BY <1>1, <1>7, <2>1, <2>2 DEF InBuf
    <3>2. nlr_top' = Append(nlr_top, Depth + 1)
      BY <2>2
    <3>3. \A p \in Bufs : p < Depth + 1
      BY <1>11
    <3> QED BY <1>11, <3>1, <3>2, <3>3, ListAppend
  <2>3. CASE k # "call"
    <3>1. Bufs' = Bufs
      BY <1>1, <1>7, <2>1, <2>3 DEF InBuf
    <3> QED BY <2>3, <3>1
  <2> QED BY <2>2, <2>3
<1>13. /\ nlr_jump_callback_top' \in Seq(Nat)
       /\ Lists(nlr_jump_callback_top', Callbacks')
  <2>1. CASE k \in {"exec", "parse"}
    <3>1. Callbacks' = Callbacks \cup {Depth + 1}
      BY <1>1, <1>7, <2>1
    <3>2. nlr_jump_callback_top' = Append(nlr_jump_callback_top, Depth + 1)
      BY <2>1
    <3>3. \A p \in Callbacks : p < Depth + 1
      BY <1>11
    <3> QED BY <1>11, <3>1, <3>2, <3>3, ListAppend
  <2>2. CASE k \notin {"exec", "parse"}
    <3>1. Callbacks' = Callbacks
      BY <1>1, <1>7, <2>2
    <3> QED BY <2>2, <3>1
  <2> QED BY <2>1, <2>2
<1>14. globals' \in Dicts /\ locals' \in Dicts
  OBVIOUS
<1> QED BY <1>7, <1>8, <1>9, <1>10, <1>12, <1>13, <1>14, Assemble

LEMMA CallInv ==
  ASSUME ReplInv,
         \/ mp_parse \/ ModuleRuns \/ Calls \/ EvalExec
         \/ BuildClass \/ ClassBody \/ ClassCalls
         \/ RunSource \/ PrintException \/ PrintCalls
  PROVE  ReplInv'
<1> USE TopOfChains, TopTyped, Constants
<1>1. UNCHANGED script
  BY Zenon DEF mp_parse, ModuleRuns, Calls, EvalExec, BuildClass, ClassBody,
     ClassCalls, RunSource, PrintException, PrintCalls, Execute, fun_bc_call
<1>2. /\ {"exec", "parse", "call", "class", "print"} \subseteq Kinds
      /\ {"ran", "run", "parse", "compile", "done", "body", "meta", "print",
          "prompt"} \subseteq Places
  BY DEF Kinds, Places
<1>3. CASE mp_parse
  BY <1>1, <1>2, <1>3, PushInv DEF mp_parse, context
<1>4. CASE PrintException
  BY <1>1, <1>2, <1>4, PushInv DEF PrintException, context
<1>5. ASSUME NEW g \in Dicts, NEW l \in Dicts, NEW at, Execute(g, l, at),
             (Is("repl", "guarded") /\ at = "ran") \/ (Is("call", "run") /\ at = "run")
      PROVE  ReplInv'
  BY <1>1, <1>2, <1>5, PushInv DEF Execute, mp_lexer_new
<1>6. ASSUME NEW d \in Dicts, NEW at, fun_bc_call(d, at),
             \/ Is("exec", "call") /\ at = "done"
             \/ Is("call", "run") /\ at = "run"
             \/ Is("class", "body") /\ at = "body"
             \/ Is("class", "meta") /\ at = "meta"
             \/ Is("print", "print") /\ at = "print"
      PROVE  ReplInv'
  BY <1>1, <1>2, <1>6, PushInv DEF fun_bc_call
<1>7. CASE BuildClass
  BY <1>1, <1>2, <1>7, PushInv DEF BuildClass
<1> QED BY <1>3, <1>4, <1>5, <1>6, <1>7
    DEF ModuleRuns, Calls, EvalExec, ClassBody, ClassCalls, RunSource, PrintCalls

(* Steps that return *)

LEMMA ReturnInv ==
  ASSUME ReplInv,
         ParseReturns \/ ExecReturns \/ CallReturns \/ ClassReturns \/ PrintReturns
  PROVE  ReplInv'
<1> USE TopOfChains, TopTyped
<1>1. UNCHANGED script
  BY Zenon DEF ParseReturns, ExecReturns, CallReturns, ClassReturns, PrintReturns
<1>2. /\ cs' = Pop(cs)
      /\ \/ /\ Is("parse", "parse") /\ lexers' = lexers - 1
            /\ nlr_jump_callback_top' = Pop(nlr_jump_callback_top)
            /\ UNCHANGED <<nlr_top, globals, locals>>
         \/ /\ Is("exec", "done") /\ globals' = Top.globals /\ locals' = Top.locals
            /\ nlr_jump_callback_top' = Pop(nlr_jump_callback_top)
            /\ UNCHANGED <<nlr_top, lexers>>
         \/ /\ Is("call", "run") /\ globals' = Top.globals /\ nlr_top' = Pop(nlr_top)
            /\ UNCHANGED <<nlr_jump_callback_top, locals, lexers>>
         \/ /\ Is("class", "meta") \/ Is("print", "print")
            /\ UNCHANGED <<nlr_top, nlr_jump_callback_top, globals, locals, lexers>>
  BY DEF ParseReturns, ExecReturns, CallReturns, ClassReturns, PrintReturns, context
<1>3. Depth > 1
  <2>1. Depth \in 2 .. Depth
    BY <1>2, StackBottom DEF Is
  <2> QED BY <2>1
<1>4. /\ cs' \in Seq(Activation) /\ Depth' = Depth - 1 /\ Depth' > 0
      /\ CalledBy(Top', Top)
      /\ (StackIsNested /\ RoomIsLeft)'
      /\ Callbacks' = Callbacks \ {Depth} /\ Bufs' = Bufs \ {Depth}
  BY <1>2, <1>3, PopStack
<1>5. TopIsRunning /\ ContextIsTops /\ LexersAreCounted
  BY DEF ReplInv
<1>6. globals' = Top'.dict
  BY <1>2, <1>4, <1>5 DEF CalledBy, ContextIsTops, Is
<1>7. (TopIsRunning /\ ContextIsTops)' /\ Top'.at # "fatal"
  BY <1>4, <1>6 DEF TopIsRunning, ContextIsTops, CalledBy
<1>8. LexersAreCounted' /\ lexers' \in Nat
  BY <1>2, <1>4, <1>5 DEF LexersAreCounted, CalledBy, Is
<1>9. nlr_top' \in Seq(Nat) /\ Lists(nlr_top', Bufs')
  <2>1. CASE Is("call", "run") /\ nlr_top' = Pop(nlr_top)
    <3>1. Depth \in Bufs /\ \A p \in Bufs : p <= Depth
      BY <2>1 DEF Is, InBuf
    <3> QED BY <1>4, <2>1, <3>1, ListPop
  <2>2. CASE Top.at \notin InBuf /\ UNCHANGED nlr_top
    <3>1. Bufs' = Bufs
      BY <1>4, <2>2
    <3> QED BY <2>2, <3>1
  <2> QED BY <1>2, <2>1, <2>2 DEF Is, InBuf
<1>10. /\ nlr_jump_callback_top' \in Seq(Nat)
       /\ Lists(nlr_jump_callback_top', Callbacks')
  <2>1. CASE /\ Top.kind \in {"exec", "parse"}
             /\ nlr_jump_callback_top' = Pop(nlr_jump_callback_top)
    <3>1. Depth \in Callbacks /\ \A p \in Callbacks : p <= Depth
      BY <2>1
    <3> QED BY <1>4, <2>1, <3>1, ListPop
  <2>2. CASE Top.kind \notin {"exec", "parse"} /\ UNCHANGED nlr_jump_callback_top
    <3>1. Callbacks' = Callbacks
      BY <1>4, <2>2
    <3> QED BY <2>2, <3>1
  <2> QED BY <1>2, <2>1, <2>2 DEF Is
<1>11. globals' \in Dicts /\ locals' \in Dicts
  BY <1>2
<1> QED BY <1>1, <1>4, <1>7, <1>8, <1>9, <1>10, <1>11, Assemble

-----------------------------------------------------------------------------
(* The specification *)

LEMMA StepInv == ReplInv /\ [Next]_vars => ReplInv'
<1> SUFFICES ASSUME ReplInv, [Next]_vars PROVE ReplInv'
  OBVIOUS
<1>1. CASE Next
  BY <1>1, RaiseInv, StayInv, CallInv, ReturnInv DEF Next
<1>2. CASE UNCHANGED vars
  BY <1>2 DEF vars, context, ReplInv, TypeOK, ChainsMatchStack, Bufs, Callbacks,
     StackIsNested, TopIsRunning, ContextIsTops, LexersAreCounted, RoomIsLeft, OnlyPrintingIsFatal, Top, Depth
<1> QED BY <1>1, <1>2

(* At any depth of calls, execs, class bodies and parsers, and wherever an *)
(* exception comes from, the C stack, the two chains, the globals and the  *)
(* lexers of the port's REPL agree.                                        *)
THEOREM ReplInvariant == Spec => []ReplInv
<1>1. Init => ReplInv
  BY InitInv
<1>2. ReplInv /\ [Next]_vars => ReplInv'
  BY StepInv
<1> QED BY <1>1, <1>2, PTL DEF Spec

(* nlr_jump never returns into an activation that is gone, and no callback *)
(* in a dead frame is run.                                                 *)
THEOREM ChainsFollowStack == Spec => []ChainsMatchStack
<1>1. ReplInv => ChainsMatchStack
  BY DEF ReplInv
<1> QED BY <1>1, ReplInvariant, PTL

(* Python code runs with its own module's globals, also in the handler of  *)
(* an exception that came through other modules and execs.                 *)
THEOREM OwnGlobals == Spec => []RunsInItsOwnGlobals
<1>1. ReplInv => RunsInItsOwnGlobals
  BY DEF ReplInv, ContextIsTops, TopIsRunning, RunsInItsOwnGlobals
<1> QED BY <1>1, ReplInvariant, PTL

(* Whatever a line did and however it ended, the prompt that follows has   *)
(* __main__'s globals, empty chains and no lexer left.                     *)
THEOREM EveryPromptIsClean == Spec => []PromptIsClean
<1>1. ReplInv => PromptIsClean
  <2> SUFFICES ASSUME ReplInv, Is("repl", "prompt")
               PROVE  /\ globals = Main
                      /\ nlr_top = << >> /\ nlr_jump_callback_top = << >> /\ lexers = 0
    BY DEF PromptIsClean
  <2>1. Depth = 1 /\ cs[1].kind = "repl" /\ cs[1].at = "prompt" /\ cs[1].dict = Main
    BY StackBottom DEF Is, Top, ReplInv, StackIsNested
  <2>2. \A p \in 1 .. Depth : p = 1
    BY <2>1
  <2>3. globals = Main /\ lexers = 0
    BY <2>1, <2>2 DEF ReplInv, ContextIsTops, LexersAreCounted, Top
  <2>4. Bufs = {} /\ Callbacks = {}
    BY <2>1, <2>2 DEF Bufs, Callbacks, InBuf
  <2> QED BY <2>3, <2>4, TopOfChains, ListEmpty
<1> QED BY <1>1, ReplInvariant, PTL

-----------------------------------------------------------------------------
(* The locals of the next line: locals at the prompt, and while a line     *)
(* runs what its exec saved, which is the second activation.               *)

LEMMA SecondActivation ==
  ASSUME ReplInv, Depth > 1
  PROVE  cs[2].kind \in {"exec", "print"} /\ 2 \in 1 .. Depth
<1>1. 2 \in 2 .. Depth /\ 2 - 1 = 1 /\ 2 \in 1 .. Depth
  BY StackBottom
<1>2. CalledBy(cs[1], cs[2])
  BY <1>1, Caller
<1> QED BY <1>1, <1>2 DEF CalledBy, ReplInv, StackIsNested

(* As long as it is the same activation with the same context saved, the   *)
(* locals of the next line are the same.                                   *)
LEMMA SameSecond ==
  ASSUME Depth > 1, cs[2].kind = "exec", Depth' > 1,
         cs'[2].kind = cs[2].kind, cs'[2].locals = cs[2].locals
  PROVE  UNCHANGED PromptLocals
BY DEF PromptLocals

(* Steps of what a line runs, but for exceptions. *)
LEMMA LineRuns ==
  ASSUME ReplInv, Depth > 1, cs[2].kind = "exec", Next, ~Raise
  PROVE  UNCHANGED PromptLocals
<1>1. /\ TypeOK /\ Depth \in Nat /\ 2 \in 1 .. Depth
      /\ Top.kind # "repl" /\ Top.kind # "print"
  BY StackBottom, SecondActivation DEF ReplInv, Top
<1>2. CASE \E at \in Places : cs' = Goes(at)
  <2>1. PICK at \in Places : cs' = Goes(at)
    BY <1>2
  <2>2. Len(cs') = Depth /\ cs'[2].kind = cs[2].kind /\ cs'[2].locals = cs[2].locals
    BY <1>1, <2>1, GoesFrames
  <2> QED BY <2>2, SameSecond DEF Depth
<1>3. CASE \E at \in Places, f \in Activation : cs' = Append(Goes(at), f)
  <2>1. PICK at \in Places, f \in Activation : cs' = Append(Goes(at), f)
    BY <1>3
  <2>2. Len(cs') = Depth + 1 /\ cs'[2].kind = cs[2].kind /\ cs'[2].locals = cs[2].locals
    BY <1>1, <2>1, PushFrames
  <2>3. Depth' > 1
    BY <1>1, <2>2 DEF Depth
  <2> QED BY <2>2, <2>3, SameSecond
<1>4. CASE cs' = Pop(cs) /\ (Top.kind = "exec" => locals' = Top.locals)
  <2>1. /\ Depth - 1 \in 1 .. Depth /\ Len(cs') = Depth - 1
        /\ \A p \in 1 .. Depth - 1 : cs'[p] = cs[p]
    <3>1. Depth - 1 \in 1 .. Depth
      BY <1>1
    <3> QED BY <1>1, <1>4, <3>1, CutFrames DEF Pop, Depth
  <2>2. CASE Depth = 2
    <3>1. Depth' = 1 /\ Top = cs[2]
      BY <2>1, <2>2 DEF Depth, Top
    <3> QED BY <1>4, <3>1 DEF PromptLocals
  <2>3. CASE Depth # 2
    <3>1. Depth' > 1 /\ 2 \in 1 .. Depth - 1
      BY <1>1, <2>1, <2>3 DEF Depth
    <3> QED BY <2>1, <3>1, SameSecond
  <2> QED BY <2>2, <2>3
<1>5. ASSUME NEW k \in Kinds, NEW w \in Places, NEW d \in Dicts, NEW at \in Places,
             cs' = Append(Goes(at), Frame(k, w, d))
      PROVE  UNCHANGED PromptLocals
  BY <1>3, <1>5, FrameTyped
<1>6. /\ {"exec", "parse", "call", "class"} \subseteq Kinds
      /\ {"run", "parse", "compile", "call", "done", "raise", "body", "meta"} \subseteq Places
      /\ Top.dict \in Dicts
  BY TopTyped DEF Kinds, Places
<1>7. CASE mp_compile \/ Handled \/ NotHandled \/ ClassBuilt
  BY <1>2, <1>6, <1>7 DEF mp_compile, Handled, NotHandled, ClassBuilt
<1>8. CASE ParseReturns \/ ExecReturns \/ CallReturns \/ ClassReturns
  BY <1>4, <1>8 DEF ParseReturns, ExecReturns, CallReturns, ClassReturns, Is
<1>9. CASE mp_parse \/ BuildClass
  BY <1>5, <1>6, <1>9 DEF mp_parse, BuildClass
<1>10. CASE EvalExec
  BY <1>5, <1>6, <1>10 DEF EvalExec, Execute
<1>11. CASE ModuleRuns \/ Calls \/ ClassBody \/ ClassCalls
  BY <1>5, <1>6, <1>11, TopOfChains
  DEF ModuleRuns, Calls, ClassBody, ClassCalls, fun_bc_call
<1>12. ~(\/ Guard \/ NoScript \/ RunSource \/ SourceRan
         \/ PrintException \/ PrintCalls \/ PrintReturns)
  BY <1>1 DEF Guard, NoScript, RunSource, SourceRan, PrintException, PrintCalls,
              PrintReturns, Is
<1> QED BY <1>7, <1>8, <1>9, <1>10, <1>11, <1>12 DEF Next

(* Whatever a line raises, if it is start_nexus_python that catches it the *)
(* callback of the line's exec is run.                                     *)
LEMMA LineRaises ==
  ASSUME ReplInv, Raise, Depth = 1 \/ cs[2].kind = "exec"
  PROVE  UNCHANGED PromptLocals
<1>1. /\ TypeOK /\ Depth \in Nat \ {0} /\ Raising /\ nlr_jump
      /\ Lists(nlr_top, Bufs) /\ nlr_top \in Seq(Nat) /\ Bufs \in SUBSET Nat
  BY StackBottom DEF ReplInv, ChainsMatchStack, TypeOK, Bufs, Raise, Raising
<1>2. Depth > 1 => 2 \in 1 .. Depth /\ cs[2].kind = "exec"
  BY <1>1
<1>3. CASE nlr_top = << >>
  <2>1. cs' = Goes("fatal") /\ UNCHANGED locals /\ "fatal" \in Places
    BY <1>1, <1>3 DEF nlr_jump, context, Places
  <2>2. Depth' = Depth
    BY <1>1, <2>1, GoesFrames DEF Depth
  <2>3. Depth > 1 => cs'[2].kind = cs[2].kind /\ cs'[2].locals = cs[2].locals
    BY <1>1, <1>2, <2>1, GoesFrames
  <2> QED BY <1>2, <2>1, <2>2, <2>3 DEF PromptLocals
<1>4. CASE nlr_top # << >>
  <2>1. Bufs # {}
    BY <1>1, <1>4, ListEmpty
  <2>2. PICK p \in Bufs : Catches(p)
    BY <1>1, <2>1, Catcher
  <2>3. p \in 1 .. Depth
    BY DEF Bufs
  <2>4. nlr_top[Len(nlr_top)] = p
    BY <1>1, <2>2, ListPop DEF Catches
  <2>5. /\ cs' = [SubSeq(cs, 1, p) EXCEPT ![p].at = "caught"]
        /\ nlr_call_jump_callbacks(p)
    BY <1>1, <1>4, <2>4 DEF nlr_jump
  <2>6. /\ Depth' = p
        /\ \A q \in 1 .. p : cs'[q].kind = cs[q].kind /\ cs'[q].locals = cs[q].locals
    BY <2>3, <2>5, CutStack
  <2>7. \/ (\A q \in p + 1 .. Depth : cs[q].kind # "exec") /\ UNCHANGED locals
        \/ /\ p + 1 \in 1 .. Depth /\ cs[p + 1].kind = "exec"
           /\ locals' = cs[p + 1].locals
    BY <1>1, <2>2, <2>3, <2>5, CallbacksRun
  <2>8. CASE p > 1
    <3>1. Depth > 1 /\ 2 \in 1 .. p
      BY <1>1, <2>3, <2>8
    <3> QED BY <1>2, <2>6, <2>8, <3>1, SameSecond
  <2>9. CASE p = 1
    <3>1. CASE Depth = 1
      <4>1. UNCHANGED locals
        BY <2>7, <2>9, <3>1
      <4> QED BY <2>6, <2>9, <3>1, <4>1 DEF PromptLocals
    <3>2. CASE Depth > 1
      <4>1. 2 \in p + 1 .. Depth /\ p + 1 = 2 /\ cs[2].kind = "exec"
        BY <1>1, <1>2, <2>9, <3>2
      <4>2. locals' = cs[2].locals
        BY <2>7, <4>1
      <4> QED BY <2>6, <2>9, <3>2, <4>1, <4>2 DEF PromptLocals
    <3> QED BY <1>1, <3>1, <3>2
  <2> QED BY <2>3, <2>8, <2>9
<1> QED BY <1>3, <1>4

(* Steps of start_nexus_python itself. *)
LEMMA PromptRuns ==
  ASSUME ReplInv, Depth = 1, Next, ~Raise
  PROVE  UNCHANGED PromptLocals
<1>1. TypeOK /\ Top.kind = "repl"
  BY DEF ReplInv, StackIsNested, Top
<1>2. Guard \/ NoScript \/ RunSource \/ SourceRan \/ PrintException
  BY <1>1
  DEF Next, Is, mp_parse, ParseReturns, mp_compile, ExecReturns, ModuleRuns, Calls,
      EvalExec, CallReturns, Handled, NotHandled, BuildClass, ClassBody, ClassBuilt,
      ClassCalls, ClassReturns, PrintCalls, PrintReturns
<1>3. CASE Guard \/ NoScript \/ SourceRan
  <2>1. PICK at \in {"guarded", "prompt"} : cs' = Goes(at) /\ UNCHANGED locals
    BY <1>3 DEF Guard, NoScript, SourceRan, context
  <2>2. Depth' = 1
    <3>1. at \in Places
      BY DEF Places
    <3> QED BY <1>1, <2>1, <3>1, GoesFrames DEF Depth
  <2> QED BY <2>1, <2>2 DEF PromptLocals
<1>4. ASSUME NEW at \in Places, NEW k \in {"exec", "print"}, NEW w \in Places,
             \/ cs' = Append(Goes(at), Frame(k, w, globals))
             \/ cs' = Append(Goes(at), Frame(k, w, Main)),
             k = "exec" \/ UNCHANGED locals
      PROVE  UNCHANGED PromptLocals
  <2>1. PICK d \in Dicts : cs' = Append(Goes(at), Frame(k, w, d))
    BY <1>4, Constants, TopOfChains
  <2> DEFINE f == Frame(k, w, d)
  <2>2. f \in Activation /\ f.kind = k /\ f.locals = locals
    <3>1. k \in Kinds
      BY DEF Kinds
    <3> QED BY <3>1, FrameTyped
  <2>3. cs' = Append(Goes(at), f)
    BY <2>1
  <2> HIDE DEF f
  <2>4. Len(cs') = Depth + 1 /\ cs'[Depth + 1] = f
    BY <1>1, <2>2, <2>3, PushFrames
  <2>5. Depth' = 2 /\ cs'[2].kind = k /\ cs'[2].locals = locals
    BY <2>2, <2>4 DEF Depth
  <2> QED BY <1>4, <2>5 DEF PromptLocals
<1>5. {"ran", "parse", "prompt", "print"} \subseteq Places
  BY DEF Places
<1>6. CASE RunSource
  BY <1>4, <1>5, <1>6 DEF RunSource, Execute
<1>7. CASE PrintException
  BY <1>4, <1>5, <1>7 DEF PrintException, context
<1> QED BY <1>2, <1>3, <1>6, <1>7

(* However a line or the boot script ends, whatever classes it was in the  *)
(* middle of, the next line starts with the same locals; only the printing *)
(* of an exception may change them.                                        *)
THEOREM LinesDoNotMoveTheLocals == Spec => LinesKeepTheLocals
<1>1. ReplInv /\ [Next]_vars => [Printing]_PromptLocals
  <2> SUFFICES ASSUME ReplInv, [Next]_vars, ~Printing PROVE UNCHANGED PromptLocals
    OBVIOUS
  <2>1. Depth = 1 \/ (Depth > 1 /\ cs[2].kind = "exec")
    BY StackBottom, SecondActivation DEF Printing
  <2>2. CASE Raise
    BY <2>1, <2>2, LineRaises
  <2>3. CASE Next /\ ~Raise
    BY <2>1, <2>3, LineRuns, PromptRuns
  <2>4. CASE UNCHANGED vars
    BY <2>4 DEF vars, context, PromptLocals, Depth
  <2> QED BY <2>2, <2>3, <2>4
<1> QED BY <1>1, ReplInvariant, PTL DEF Spec, LinesKeepTheLocals

-----------------------------------------------------------------------------
(* Only an exception raised while another one is printed stops the machine. *)
THEOREM PrintingAloneIsFatal == Spec => []OnlyPrintingIsFatal
<1>1. ReplInv => OnlyPrintingIsFatal
  BY DEF ReplInv
<1> QED BY <1>1, ReplInvariant, PTL

(* MP_STACK_CHECK in fun_bc_call bounds the whole C stack: at most an exec *)
(* and a parser are above the last call it allowed.                        *)
THEOREM StackStaysBounded == Spec => []StackIsBounded
<1>1. ReplInv => StackIsBounded
  <2> SUFFICES ASSUME ReplInv PROVE Depth <= stack_limit + 2
    BY DEF StackIsBounded
  <2>1. /\ Depth \in Nat \ {0} /\ Depth \in 1 .. Depth
        /\ \A p \in 1 .. Depth : cs[p].kind = "repl" => p = 1
    BY StackBottom
  <2>2. cs[Depth].kind \in Kinds
    BY TopTyped DEF Top, Activation
  <2>3. RoomIsLeft
    BY DEF ReplInv
  <2> QED BY <2>1, <2>2, <2>3, Constants DEF RoomIsLeft, Kinds
<1> QED BY <1>1, ReplInvariant, PTL
=============================================================================
