---------------------------- MODULE InputProofs ----------------------------
(***************************************************************************)
(* For every ring size, layout and set of keys.  First the keyboard driver *)
(* by itself: it keeps its types, the slot keyboard_getc reads is never    *)
(* overwritten under it, the ring implements the bounded lossy queue       *)
(* KbdFifo, no modifier key sticks, and on the US layout every character   *)
(* can be typed.  Then character input: it uses the driver within the      *)
(* driver's own specification, so all this holds of the composed system,   *)
(* and what it returns is a signed char.                                   *)
(***************************************************************************)
EXTENDS Stdin, KbdLayout, SequenceTheorems, TLAPS

-----------------------------------------------------------------------------
(* Index arithmetic of the ring. *)

LEMMA RingSize == KBD_BUFFER_SIZE \in Nat /\ KBD_BUFFER_SIZE > 1
BY KeyboardAssumption

LEMMA NextIndex ==
  ASSUME NEW x \in Index
  PROVE  /\ (x + 1) % KBD_BUFFER_SIZE \in Index
         /\ (x + 1) % KBD_BUFFER_SIZE
              = IF x + 1 = KBD_BUFFER_SIZE THEN 0 ELSE x + 1
BY RingSize DEF Index

LEMMA CountFacts ==
  ASSUME NEW h \in Index, NEW t \in Index
  PROVE  Count(h, t) \in Index
BY RingSize DEF Index, Count

LEMMA SlotIndex ==
  ASSUME NEW t \in Index, NEW k \in 1 .. KBD_BUFFER_SIZE
  PROVE  /\ (t + k - 1) % KBD_BUFFER_SIZE \in Index
         /\ (t + k - 1) % KBD_BUFFER_SIZE
              = IF t + k - 1 < KBD_BUFFER_SIZE
                THEN t + k - 1 ELSE t + k - 1 - KBD_BUFFER_SIZE
BY RingSize DEF Index

LEMMA ContentsFacts ==
  ASSUME NEW buf \in [Index -> Char], NEW h \in Index, NEW t \in Index
  PROVE  /\ Contents(buf, h, t) \in Seq(Char)
         /\ Len(Contents(buf, h, t)) = Count(h, t)
         /\ \A k \in 1 .. Count(h, t) :
              Contents(buf, h, t)[k] = buf[(t + k - 1) % KBD_BUFFER_SIZE]
<1>1. Count(h, t) \in Nat /\ Count(h, t) < KBD_BUFFER_SIZE
  <2>1. Count(h, t) \in Index
    BY CountFacts, Zenon
  <2> QED BY <2>1, RingSize DEF Index
<1>2. \A k \in 1 .. Count(h, t) :
        buf[(t + k - 1) % KBD_BUFFER_SIZE] \in Char
  BY <1>1, SlotIndex, RingSize
<1>3. Contents(buf, h, t) \in [1 .. Count(h, t) -> Char]
  BY <1>2 DEF Contents
<1>4. Contents(buf, h, t) \in Seq(Char)
  BY <1>1, <1>3, SeqDef
<1>5. Len(Contents(buf, h, t)) = Count(h, t)
  BY <1>1, <1>3, <1>4
<1> QED
  BY <1>4, <1>5 DEF Contents

-----------------------------------------------------------------------------
(* What kbd_buffer_put does to the ring, seen as a queue. *)

RingType == [buf : [Index -> Char], head : Index]
Queue(r) == Contents(r.buf, r.head, kbd_buffer_tail)

LEMMA PutType ==
  ASSUME kbd_buffer_tail \in Index, NEW r \in RingType, NEW ch \in Char
  PROVE  kbd_buffer_put(r, ch) \in RingType
BY NextIndex DEF RingType, kbd_buffer_put

(* Advancing the head over a freshly written slot appends to the queue. *)
LEMMA PushContents ==
  ASSUME NEW buf \in [Index -> Char], NEW h \in Index, NEW t \in Index,
         NEW ch \in Char,
         (h + 1) % KBD_BUFFER_SIZE # t
  PROVE  Contents([buf EXCEPT ![h] = ch], (h + 1) % KBD_BUFFER_SIZE, t)
           = Append(Contents(buf, h, t), ch)
<1>1. PICK nx \in Index :
        /\ nx = (h + 1) % KBD_BUFFER_SIZE
        /\ nx = IF h + 1 = KBD_BUFFER_SIZE THEN 0 ELSE h + 1
  BY NextIndex
<1>2. PICK n \in Index : n = Count(h, t)
  BY CountFacts
<1>3. PICK new \in [Index -> Char] : new = [buf EXCEPT ![h] = ch]
  OBVIOUS
<1>4. PICK old_q \in Seq(Char) : old_q = Contents(buf, h, t)
  BY ContentsFacts
<1>5. PICK new_q \in Seq(Char) : new_q = Contents(new, nx, t)
  BY ContentsFacts
<1>6. n \in Nat /\ Count(nx, t) = n + 1 /\ n + 1 < KBD_BUFFER_SIZE
  <2>1. nx # t /\ nx = IF h + 1 = KBD_BUFFER_SIZE THEN 0 ELSE h + 1
    BY <1>1
  <2> QED
    BY <1>2, <2>1, RingSize DEF Count, Index
<1>7. /\ Len(old_q) = n
      /\ \A k \in 1 .. n : old_q[k] = buf[(t + k - 1) % KBD_BUFFER_SIZE]
  <2>1. /\ Len(Contents(buf, h, t)) = Count(h, t)
        /\ \A k \in 1 .. Count(h, t) :
             Contents(buf, h, t)[k] = buf[(t + k - 1) % KBD_BUFFER_SIZE]
    BY ContentsFacts, Zenon
  <2> QED BY <1>2, <1>4, <2>1, Zenon
<1>8. /\ Len(new_q) = n + 1
      /\ \A k \in 1 .. n + 1 : new_q[k] = new[(t + k - 1) % KBD_BUFFER_SIZE]
  <2>1. /\ Len(new_q) = Count(nx, t)
        /\ \A k \in 1 .. Count(nx, t) :
             new_q[k] = new[(t + k - 1) % KBD_BUFFER_SIZE]
    <3>1. /\ Len(Contents(new, nx, t)) = Count(nx, t)
          /\ \A k \in 1 .. Count(nx, t) :
               Contents(new, nx, t)[k] = new[(t + k - 1) % KBD_BUFFER_SIZE]
      BY ContentsFacts, Zenon
    <3> QED BY <1>5, <3>1, Zenon
  <2> QED
    BY <1>6, <2>1
<1>9. \A k \in 1 .. n : new_q[k] = old_q[k]
  <2> TAKE k \in 1 .. n
  <2>1. (t + k - 1) % KBD_BUFFER_SIZE \in Index \ {h}
    <3>1. k \in 1 .. KBD_BUFFER_SIZE
      BY <1>6, RingSize
    <3>2. PICK x \in Index : 
            /\ x = (t + k - 1) % KBD_BUFFER_SIZE
            /\ x = IF t + k - 1 < KBD_BUFFER_SIZE
                   THEN t + k - 1 ELSE t + k - 1 - KBD_BUFFER_SIZE
      BY <3>1, SlotIndex
    <3>3. x # h
      <4>1. x = IF t + k - 1 < KBD_BUFFER_SIZE
                   THEN t + k - 1 ELSE t + k - 1 - KBD_BUFFER_SIZE
        BY <3>2
      <4> QED
        BY <1>2, <4>1, RingSize DEF Count, Index
    <3> QED
      BY <3>2, <3>3
  <2>2. new_q[k] = new[(t + k - 1) % KBD_BUFFER_SIZE]
    BY <1>6, <1>8
  <2> QED
    BY <1>3, <1>7, <2>1, <2>2
<1>10. new_q[n + 1] = ch
  <2>1. (t + (n + 1) - 1) % KBD_BUFFER_SIZE = h
    <3>1. n + 1 \in 1 .. KBD_BUFFER_SIZE
      BY <1>6, RingSize
    <3>2. PICK x \in Index : 
            /\ x = (t + (n + 1) - 1) % KBD_BUFFER_SIZE
            /\ x = IF t + (n + 1) - 1 < KBD_BUFFER_SIZE
                   THEN t + (n + 1) - 1 ELSE t + (n + 1) - 1 - KBD_BUFFER_SIZE
      BY <3>1, SlotIndex
    <3>3. x = h
      <4>1. x = IF t + (n + 1) - 1 < KBD_BUFFER_SIZE
                   THEN t + (n + 1) - 1 ELSE t + (n + 1) - 1 - KBD_BUFFER_SIZE
        BY <3>2
      <4> QED
        BY <1>2, <4>1, RingSize DEF Count, Index
    <3> QED
      BY <3>2, <3>3
  <2>2. new_q[n + 1] = new[(t + (n + 1) - 1) % KBD_BUFFER_SIZE]
    BY <1>6, <1>8
  <2> QED
    BY <1>3, <2>1, <2>2
<1>11. PICK app \in Seq(Char) : app = Append(old_q, ch)
  BY AppendProperties
<1>12. /\ Len(app) = n + 1
       /\ \A k \in 1 .. n : app[k] = old_q[k]
       /\ app[n + 1] = ch
  BY <1>7, <1>11, AppendProperties
<1>13. \A k \in 1 .. n + 1 : new_q[k] = app[k]
  <2> TAKE k \in 1 .. n + 1
  <2>1. k \in 1 .. n \/ k = n + 1
    BY <1>6
  <2>2. CASE k \in 1 .. n
    BY <1>9, <1>12, <2>2
  <2>3. CASE k = n + 1
    BY <1>10, <1>12, <2>3
  <2> QED
    BY <2>1, <2>2, <2>3
<1>14. new_q = app
  BY <1>8, <1>12, <1>13, SeqEqual
<1> QED
  BY <1>1, <1>3, <1>4, <1>5, <1>11, <1>14

(* Advancing the tail takes the oldest character off the queue. *)
LEMMA PopContents ==
  ASSUME NEW buf \in [Index -> Char], NEW h \in Index, NEW t \in Index,
         h # t
  PROVE  /\ Contents(buf, h, t) # << >>
         /\ Head(Contents(buf, h, t)) = buf[t]
         /\ Contents(buf, h, (t + 1) % KBD_BUFFER_SIZE)
              = Tail(Contents(buf, h, t))
<1>1. PICK nt \in Index :
        /\ nt = (t + 1) % KBD_BUFFER_SIZE
        /\ nt = IF t + 1 = KBD_BUFFER_SIZE THEN 0 ELSE t + 1
  BY NextIndex
<1>2. PICK n \in Index : n = Count(h, t)
  BY CountFacts
<1>3. PICK old_q \in Seq(Char) : old_q = Contents(buf, h, t)
  BY ContentsFacts
<1>4. PICK new_q \in Seq(Char) : new_q = Contents(buf, h, nt)
  BY ContentsFacts
<1>5. n \in Nat /\ n > 0 /\ n < KBD_BUFFER_SIZE /\ Count(h, nt) = n - 1
  <2>1. nt = IF t + 1 = KBD_BUFFER_SIZE THEN 0 ELSE t + 1
    BY <1>1
  <2> QED
    BY <1>2, <2>1, RingSize DEF Count, Index
<1>6. /\ Len(old_q) = n
      /\ \A k \in 1 .. n : old_q[k] = buf[(t + k - 1) % KBD_BUFFER_SIZE]
  <2>1. /\ Len(Contents(buf, h, t)) = Count(h, t)
        /\ \A k \in 1 .. Count(h, t) :
             Contents(buf, h, t)[k] = buf[(t + k - 1) % KBD_BUFFER_SIZE]
    BY ContentsFacts, Zenon
  <2> QED BY <1>2, <1>3, <2>1, Zenon
<1>7. /\ Len(new_q) = n - 1
      /\ \A k \in 1 .. n - 1 : new_q[k] = buf[(nt + k - 1) % KBD_BUFFER_SIZE]
  <2>1. /\ Len(new_q) = Count(h, nt)
        /\ \A k \in 1 .. Count(h, nt) :
             new_q[k] = buf[(nt + k - 1) % KBD_BUFFER_SIZE]
    <3>1. /\ Len(Contents(buf, h, nt)) = Count(h, nt)
          /\ \A k \in 1 .. Count(h, nt) :
               Contents(buf, h, nt)[k] = buf[(nt + k - 1) % KBD_BUFFER_SIZE]
      BY ContentsFacts, Zenon
    <3> QED BY <1>4, <3>1, Zenon
  <2> QED
    BY <1>5, <2>1
<1>8. old_q # << >>
  BY <1>5, <1>6
<1>9. Head(old_q) = buf[t]
  <2>1. (t + 1 - 1) % KBD_BUFFER_SIZE = t
    BY SlotIndex, RingSize DEF Index
  <2>2. old_q[1] = buf[(t + 1 - 1) % KBD_BUFFER_SIZE]
    BY <1>5, <1>6
  <2> QED
    BY <1>8, <2>1, <2>2
<1>10. PICK tl \in Seq(Char) : tl = Tail(old_q)
  BY <1>8, HeadTailProperties
<1>11. Len(tl) = n - 1 /\ \A k \in 1 .. n - 1 : tl[k] = old_q[k + 1]
  BY <1>6, <1>8, <1>10, HeadTailProperties
<1>12. \A k \in 1 .. n - 1 : new_q[k] = tl[k]
  <2> TAKE k \in 1 .. n - 1
  <2>1. (nt + k - 1) % KBD_BUFFER_SIZE = (t + (k + 1) - 1) % KBD_BUFFER_SIZE
    <3>1. k \in 1 .. KBD_BUFFER_SIZE /\ k + 1 \in 1 .. KBD_BUFFER_SIZE
      BY <1>5, RingSize
    <3>2. (nt + k - 1) % KBD_BUFFER_SIZE
            = IF nt + k - 1 < KBD_BUFFER_SIZE
              THEN nt + k - 1 ELSE nt + k - 1 - KBD_BUFFER_SIZE
      BY <3>1, SlotIndex
    <3>3. (t + (k + 1) - 1) % KBD_BUFFER_SIZE
            = IF t + (k + 1) - 1 < KBD_BUFFER_SIZE
              THEN t + (k + 1) - 1 ELSE t + (k + 1) - 1 - KBD_BUFFER_SIZE
      BY <3>1, SlotIndex
    <3> QED
      <4>1. nt = IF t + 1 = KBD_BUFFER_SIZE THEN 0 ELSE t + 1
        BY <1>1
      <4>2. k \in Nat /\ t \in Nat /\ k < KBD_BUFFER_SIZE
        BY <1>5, RingSize DEF Index
      <4>3. CASE t + 1 = KBD_BUFFER_SIZE
        BY <3>2, <3>3, <4>1, <4>2, <4>3, RingSize
      <4>4. CASE t + 1 # KBD_BUFFER_SIZE
        <5>1. nt + k - 1 = t + (k + 1) - 1
          BY <4>1, <4>2, <4>4
        <5> QED
          BY <5>1
      <4> QED
        BY <4>3, <4>4
  <2>2. old_q[k + 1] = buf[(t + (k + 1) - 1) % KBD_BUFFER_SIZE]
    BY <1>5, <1>6
  <2>3. new_q[k] = buf[(nt + k - 1) % KBD_BUFFER_SIZE]
    BY <1>7
  <2>4. tl[k] = old_q[k + 1]
    BY <1>11
  <2> QED
    BY <2>1, <2>2, <2>3, <2>4
<1>13. new_q = tl
  BY <1>7, <1>11, <1>12, SeqEqual
<1> QED
  BY <1>1, <1>3, <1>4, <1>8, <1>9, <1>10, <1>13

(* A character is queued unless KBD_BUFFER_SIZE - 1 are unread. *)
LEMMA PutQueues ==
  ASSUME kbd_buffer_tail \in Index, NEW r \in RingType, NEW ch \in Char
  PROVE  /\ Queue(r) \in Seq(Char)
         /\ Len(Queue(r)) < KBD_BUFFER_SIZE
         /\ Queue(kbd_buffer_put(r, ch))
              = IF Len(Queue(r)) < KBD_BUFFER_SIZE - 1
                THEN Append(Queue(r), ch) ELSE Queue(r)
<1>1. r.head \in Index /\ r.buf \in [Index -> Char]
  BY DEF RingType
<1>2. /\ Queue(r) \in Seq(Char)
      /\ Len(Queue(r)) = Count(r.head, kbd_buffer_tail)
      /\ Count(r.head, kbd_buffer_tail) \in Index
  <2>1. Count(r.head, kbd_buffer_tail) \in Index
    BY <1>1, CountFacts, Zenon
  <2>2. /\ Contents(r.buf, r.head, kbd_buffer_tail) \in Seq(Char)
        /\ Len(Contents(r.buf, r.head, kbd_buffer_tail)) = Count(r.head, kbd_buffer_tail)
    BY <1>1, ContentsFacts, Zenon
  <2> QED BY <2>1, <2>2, Zenon DEF Queue
<1>3. Len(Queue(r)) = KBD_BUFFER_SIZE - 1
        <=> (r.head + 1) % KBD_BUFFER_SIZE = kbd_buffer_tail
  <2>1. PICK h \in Index : h = r.head
    BY <1>1
  <2>2. (h + 1) % KBD_BUFFER_SIZE = IF h + 1 = KBD_BUFFER_SIZE THEN 0 ELSE h + 1
    BY NextIndex, Zenon
  <2>3. PICK x : x = (h + 1) % KBD_BUFFER_SIZE
    OBVIOUS
  <2>4. x = IF h + 1 = KBD_BUFFER_SIZE THEN 0 ELSE h + 1
    BY <2>2, <2>3, Zenon
  <2>5. Count(h, kbd_buffer_tail) = KBD_BUFFER_SIZE - 1 <=> x = kbd_buffer_tail
    BY <2>4, RingSize DEF Count, Index
  <2> QED BY <1>2, <2>1, <2>3, <2>5, Zenon
<1>4. CASE (r.head + 1) % KBD_BUFFER_SIZE = kbd_buffer_tail
  BY <1>2, <1>3, <1>4, RingSize DEF kbd_buffer_put, Index
<1>5. CASE (r.head + 1) % KBD_BUFFER_SIZE # kbd_buffer_tail
  <2>1. kbd_buffer_put(r, ch)
          = [buf |-> [r.buf EXCEPT ![r.head] = ch],
             head |-> (r.head + 1) % KBD_BUFFER_SIZE]
    BY <1>5 DEF kbd_buffer_put
  <2>2. Queue(kbd_buffer_put(r, ch)) = Append(Queue(r), ch)
    <3>1. Queue(kbd_buffer_put(r, ch))
            = Contents([r.buf EXCEPT ![r.head] = ch],
                       (r.head + 1) % KBD_BUFFER_SIZE, kbd_buffer_tail)
      BY <2>1 DEF Queue
    <3>2. Queue(r) = Contents(r.buf, r.head, kbd_buffer_tail)
      BY DEF Queue
    <3>3. PICK b \in [Index -> Char], h \in Index : b = r.buf /\ h = r.head
      BY <1>1
    <3>4. Contents([b EXCEPT ![h] = ch],
                   (h + 1) % KBD_BUFFER_SIZE, kbd_buffer_tail)
            = Append(Contents(b, h, kbd_buffer_tail), ch)
      BY <1>5, <3>3, PushContents
    <3> QED
      BY <3>1, <3>2, <3>3, <3>4
  <2>3. Len(Queue(r)) < KBD_BUFFER_SIZE - 1
    BY <1>2, <1>3, <1>5, RingSize DEF Index
  <2> QED
    BY <1>2, <2>2, <2>3, RingSize DEF Index
<1> QED
  BY <1>4, <1>5

-----------------------------------------------------------------------------
(* What one key event does: the bursts of keyboard_handler. *)

(* Two puts in a row, and the three of an escape sequence. *)
LEMMA AppendTwo ==
  ASSUME NEW s \in Seq(Char), NEW a \in Char, NEW b \in Char
  PROVE  Append(Append(s, a), b) = s \o <<a, b>>
OBVIOUS

LEMMA AppendThree ==
  ASSUME NEW s \in Seq(Char), NEW a \in Char, NEW b \in Char, NEW d \in Char
  PROVE  Append(Append(Append(s, a), b), d) = s \o <<a, b, d>>
OBVIOUS

LEMMA Prefix ==
  ASSUME NEW s \in Seq(Char), NEW n \in 0 .. Len(s), NEW p \in Seq(Char),
         Len(p) = n, \A i \in 1 .. n : p[i] = s[i]
  PROVE  SubSeq(s, 1, n) = p
<1>1. n \in Int /\ Len(s) \in Nat
  BY LenProperties
<1>2. \A i \in 1 .. n : s[i] \in Char
  BY <1>1, ElementOfSeq
<1>3. /\ SubSeq(s, 1, n) \in Seq(Char)
      /\ Len(SubSeq(s, 1, n)) = IF 1 <= n THEN n - 1 + 1 ELSE 0
      /\ \A i \in 1 .. n - 1 + 1 : SubSeq(s, 1, n)[i] = s[1 + i - 1]
  BY <1>1, <1>2, SubSeqProperties
<1>4. PICK u \in Seq(Char) : u = SubSeq(s, 1, n)
  BY <1>3
<1>5. Len(u) = n
  BY <1>1, <1>3, <1>4
<1>6. \A i \in 1 .. n : u[i] = s[i]
  BY <1>1, <1>3, <1>4
<1> QED
  BY <1>4, <1>5, <1>6, SeqEqual

LEMMA TruncatedBurst ==
  ASSUME NEW a \in Char, NEW b \in Char, NEW d \in Char
  PROVE  /\ SubSeq(<<a, b, d>>, 1, 0) = << >>
         /\ SubSeq(<<a, b, d>>, 1, 1) = <<a>>
         /\ SubSeq(<<a, b, d>>, 1, 2) = <<a, b>>
         /\ SubSeq(<<a, b, d>>, 1, 3) = <<a, b, d>>
         /\ SubSeq(<<a>>, 1, 0) = << >>
         /\ SubSeq(<<a>>, 1, 1) = <<a>>
<1>1. PICK s1 \in Seq(Char) : s1 = <<a>> /\ Len(s1) = 1 /\ s1[1] = a
  <2>1. <<a>> \in Seq(Char) /\ Len(<<a>>) = 1 /\ <<a>>[1] = a
    OBVIOUS
  <2> QED
    BY <2>1, Zenon
<1>2. PICK s2 \in Seq(Char) :
        s2 = <<a, b>> /\ Len(s2) = 2 /\ s2[1] = a /\ s2[2] = b
  <2>1. /\ <<a, b>> \in Seq(Char) /\ Len(<<a, b>>) = 2
        /\ <<a, b>>[1] = a /\ <<a, b>>[2] = b
    OBVIOUS
  <2> QED
    BY <2>1, Zenon
<1>3. PICK s3 \in Seq(Char) :
        /\ s3 = <<a, b, d>> /\ Len(s3) = 3
        /\ s3[1] = a /\ s3[2] = b /\ s3[3] = d
  <2>1. /\ <<a, b, d>> \in Seq(Char) /\ Len(<<a, b, d>>) = 3
        /\ <<a, b, d>>[1] = a /\ <<a, b, d>>[2] = b /\ <<a, b, d>>[3] = d
    OBVIOUS
  <2> QED
    BY <2>1, Zenon
<1>4. SubSeq(s3, 1, 0) = << >> /\ SubSeq(s1, 1, 0) = << >>
  BY SubSeqEmpty
<1>5. SubSeq(s3, 1, 1) = s1
  <2>1. \A i \in 1 .. 1 : s1[i] = s3[i]
    BY <1>1, <1>3
  <2>2. 1 \in 0 .. Len(s3) /\ Len(s1) = 1
    BY <1>1, <1>3
  <2> QED
    BY <2>1, <2>2, Prefix
<1>6. SubSeq(s3, 1, 2) = s2
  <2>1. \A i \in 1 .. 2 : s2[i] = s3[i]
    BY <1>2, <1>3
  <2>2. 2 \in 0 .. Len(s3) /\ Len(s2) = 2
    BY <1>2, <1>3
  <2> QED
    BY <2>1, <2>2, Prefix
<1>7. SubSeq(s3, 1, 3) = s3 /\ SubSeq(s1, 1, 1) = s1
  BY <1>1, <1>3, SubSeqFull
<1> QED
  BY <1>1, <1>2, <1>3, <1>4, <1>5, <1>6, <1>7

(* The ring takes as much of a burst as KbdFifo does. *)
LEMMA PutAccepted ==
  ASSUME kbd_buffer_tail \in Index, NEW r \in RingType, NEW ch \in Char,
         NEW room, room = KBD_BUFFER_SIZE - 1 - Len(Queue(r))
  PROVE  Queue(kbd_buffer_put(r, ch))
           = Queue(r) \o SubSeq(<<ch>>, 1, IF 1 <= room THEN 1 ELSE room)
<1>1. /\ Queue(r) \in Seq(Char)
      /\ Len(Queue(r)) \in Nat
      /\ Len(Queue(r)) < KBD_BUFFER_SIZE
      /\ Queue(kbd_buffer_put(r, ch))
           = IF Len(Queue(r)) < KBD_BUFFER_SIZE - 1
             THEN Append(Queue(r), ch) ELSE Queue(r)
  BY PutQueues, LenProperties
<1>2. PICK s \in Seq(Char) : s = Queue(r)
  BY <1>1
<1>3. CASE room >= 1
  <2>1. Queue(kbd_buffer_put(r, ch)) = Append(s, ch)
    BY <1>1, <1>2, <1>3, RingSize
  <2>2. Append(s, ch) = s \o <<ch>>
    BY AppendIsConcat
  <2> QED
    BY <1>2, <1>3, <2>1, <2>2, TruncatedBurst
<1>4. CASE room < 1
  <2>1. room = 0 /\ Queue(kbd_buffer_put(r, ch)) = s
    BY <1>1, <1>2, <1>4, RingSize
  <2>2. s \o << >> = s
    BY ConcatEmptySeq
  <2> QED
    BY <1>2, <2>1, <2>2, TruncatedBurst
<1> QED
  BY <1>1, <1>3, <1>4, RingSize

LEMMA BurstPrefixes ==
  ASSUME NEW f \in Char
  PROVE  /\ SubSeq(<<ESC, 91, f>>, 1, 0) = << >>
         /\ SubSeq(<<ESC, 91, f>>, 1, 1) = <<ESC>>
         /\ SubSeq(<<ESC, 91, f>>, 1, 2) = <<ESC, 91>>
         /\ SubSeq(<<ESC, 91, f>>, 1, 3) = <<ESC, 91, f>>
<1>1. PICK a \in Char, b \in Char : a = ESC /\ b = 91
  BY DEF ESC, Char
<1>2. /\ SubSeq(<<a, b, f>>, 1, 0) = << >>
      /\ SubSeq(<<a, b, f>>, 1, 1) = <<a>>
      /\ SubSeq(<<a, b, f>>, 1, 2) = <<a, b>>
      /\ SubSeq(<<a, b, f>>, 1, 3) = <<a, b, f>>
  BY TruncatedBurst, Zenon
<1> QED BY <1>1, <1>2, Zenon

LEMMA PutsAccepted ==
  ASSUME kbd_buffer_tail \in Index, NEW r \in RingType, NEW f \in Char,
         NEW room, room = KBD_BUFFER_SIZE - 1 - Len(Queue(r))
  PROVE  /\ kbd_buffer_puts(r, f) \in RingType
         /\ Queue(kbd_buffer_puts(r, f))
              = Queue(r) \o
                SubSeq(<<ESC, 91, f>>, 1, IF 3 <= room THEN 3 ELSE room)
<1>1. ESC \in Char /\ 91 \in Char
  BY DEF ESC, Char
<1>2. PICK r1 \in RingType : r1 = kbd_buffer_put(r, ESC)
  BY <1>1, PutType
<1>3. PICK r2 \in RingType : r2 = kbd_buffer_put(r1, 91)
  BY <1>1, PutType
<1>4. PICK r3 \in RingType : r3 = kbd_buffer_put(r2, f)
  BY PutType
<1>5. r3 = kbd_buffer_puts(r, f)
  BY <1>2, <1>3, <1>4 DEF kbd_buffer_puts
<1>6. PICK q0 \in Seq(Char), n \in Nat :
        q0 = Queue(r) /\ n = Len(q0) /\ n < KBD_BUFFER_SIZE
  BY PutQueues, LenProperties
<1>7. Queue(r1) = IF n < KBD_BUFFER_SIZE - 1 THEN Append(q0, ESC) ELSE q0
  BY <1>1, <1>2, <1>6, PutQueues
<1>8. Queue(r2) = IF Len(Queue(r1)) < KBD_BUFFER_SIZE - 1
                  THEN Append(Queue(r1), 91) ELSE Queue(r1)
  BY <1>1, <1>3, PutQueues
<1>9. Queue(r3) = IF Len(Queue(r2)) < KBD_BUFFER_SIZE - 1
                  THEN Append(Queue(r2), f) ELSE Queue(r2)
  BY <1>4, PutQueues
<1>10. /\ Append(q0, ESC) \in Seq(Char)
       /\ Len(Append(q0, ESC)) = n + 1
       /\ Append(Append(q0, ESC), 91) \in Seq(Char)
       /\ Len(Append(Append(q0, ESC), 91)) = n + 2
  BY <1>1, <1>6
<1>11. room = KBD_BUFFER_SIZE - 1 - n
  BY <1>6
<1>12. CASE room = 0
  <2>1. Queue(r3) = q0
    BY <1>6, <1>7, <1>8, <1>9, <1>11, <1>12, RingSize
  <2>2. SubSeq(<<ESC, 91, f>>, 1, 0) = << >>
    BY BurstPrefixes, Zenon
  <2> QED
    BY <1>5, <1>6, <1>12, <2>1, <2>2, ConcatEmptySeq
<1>13. CASE room = 1
  <2>1. Queue(r3) = Append(q0, ESC)
    BY <1>6, <1>7, <1>8, <1>9, <1>10, <1>11, <1>13, RingSize
  <2>2. SubSeq(<<ESC, 91, f>>, 1, 1) = <<ESC>>
    BY BurstPrefixes, Zenon
  <2>3. Append(q0, ESC) = q0 \o <<ESC>>
    BY <1>1, AppendIsConcat
  <2>4. (IF 3 <= room THEN 3 ELSE room) = 1
    BY <1>13
  <2> QED
    BY <1>5, <1>6, <2>1, <2>2, <2>3, <2>4, Zenon
<1>14. CASE room = 2
  <2>1. Queue(r3) = Append(Append(q0, ESC), 91)
    <3>1. n + 1 < KBD_BUFFER_SIZE - 1 /\ ~(n + 2 < KBD_BUFFER_SIZE - 1)
             /\ n < KBD_BUFFER_SIZE - 1
      BY <1>11, <1>14, RingSize
    <3>2. Queue(r1) = Append(q0, ESC)
      BY <1>7, <3>1
    <3>3. Queue(r2) = Append(Append(q0, ESC), 91)
      BY <1>8, <1>10, <3>1, <3>2
    <3> QED
      BY <1>9, <1>10, <3>1, <3>3
  <2>2. SubSeq(<<ESC, 91, f>>, 1, 2) = <<ESC, 91>>
    BY BurstPrefixes, Zenon
  <2>3. Append(Append(q0, ESC), 91) = q0 \o <<ESC, 91>>
    BY <1>1, AppendTwo
  <2>4. (IF 3 <= room THEN 3 ELSE room) = 2
    BY <1>14
  <2> QED
    BY <1>5, <1>6, <2>1, <2>2, <2>3, <2>4, Zenon
<1>15. CASE room >= 3
  <2>1. Queue(r3) = Append(Append(Append(q0, ESC), 91), f)
    <3>1. n < KBD_BUFFER_SIZE - 1 /\ n + 1 < KBD_BUFFER_SIZE - 1
             /\ n + 2 < KBD_BUFFER_SIZE - 1
      BY <1>11, <1>15, RingSize
    <3>2. Queue(r1) = Append(q0, ESC)
      BY <1>7, <3>1
    <3>3. Queue(r2) = Append(Append(q0, ESC), 91)
      BY <1>8, <1>10, <3>1, <3>2
    <3> QED
      BY <1>9, <1>10, <3>1, <3>3
  <2>2. SubSeq(<<ESC, 91, f>>, 1, 3) = <<ESC, 91, f>>
    BY BurstPrefixes, Zenon
  <2>3. Append(Append(Append(q0, ESC), 91), f) = q0 \o <<ESC, 91, f>>
    BY <1>1, AppendThree
  <2>4. (IF 3 <= room THEN 3 ELSE room) = 3
    BY <1>15
  <2> QED
    BY <1>5, <1>6, <2>1, <2>2, <2>3, <2>4, Zenon
<1>16. room \in Nat
  BY <1>6, <1>11, RingSize
<1>17. room = 0 \/ room = 1 \/ room = 2 \/ room >= 3
  BY <1>16
<1> QED
  BY <1>12, <1>13, <1>14, <1>15, <1>17

-----------------------------------------------------------------------------
(* The slots keyboard_getc may still have to read are left alone: the tail *)
(* slot while there is something to read, and the slot before the tail,    *)
(* which has been given back early and stays free.                         *)

Keeps(r, s) ==
  /\ s \in RingType
  /\ r.head # kbd_buffer_tail =>
       s.head # kbd_buffer_tail /\ s.buf[kbd_buffer_tail] = r.buf[kbd_buffer_tail]
  /\ \A i \in Index :
       (i + 1) % KBD_BUFFER_SIZE = kbd_buffer_tail => s.buf[i] = r.buf[i]

LEMMA PutKeeps ==
  ASSUME kbd_buffer_tail \in Index, NEW r \in RingType, NEW ch \in Char
  PROVE  Keeps(r, kbd_buffer_put(r, ch))
<1>1. kbd_buffer_put(r, ch) \in RingType
  BY PutType
<1>2. CASE (r.head + 1) % KBD_BUFFER_SIZE = kbd_buffer_tail
  BY <1>1, <1>2 DEF Keeps, kbd_buffer_put
<1>3. CASE (r.head + 1) % KBD_BUFFER_SIZE # kbd_buffer_tail
  <2>1. kbd_buffer_put(r, ch)
          = [buf |-> [r.buf EXCEPT ![r.head] = ch],
             head |-> (r.head + 1) % KBD_BUFFER_SIZE]
    BY <1>3 DEF kbd_buffer_put
  <2>2. r.buf \in [Index -> Char] /\ r.head \in Index
    BY DEF RingType
  <2>3. \A i \in Index : i # r.head => kbd_buffer_put(r, ch).buf[i] = r.buf[i]
    BY <2>1, <2>2
  <2> QED
    BY <1>1, <1>3, <2>1, <2>3 DEF Keeps
<1> QED
  BY <1>2, <1>3

LEMMA PutsKeeps ==
  ASSUME kbd_buffer_tail \in Index, NEW r \in RingType, NEW f \in Char
  PROVE  Keeps(r, kbd_buffer_puts(r, f))
<1>1. ESC \in Char /\ 91 \in Char
  BY DEF ESC, Char
<1>2. PICK r1 \in RingType : r1 = kbd_buffer_put(r, ESC) /\ Keeps(r, r1)
  BY <1>1, PutType, PutKeeps
<1>3. PICK r2 \in RingType : r2 = kbd_buffer_put(r1, 91) /\ Keeps(r1, r2)
  BY <1>1, PutType, PutKeeps
<1>4. PICK r3 \in RingType : r3 = kbd_buffer_put(r2, f) /\ Keeps(r2, r3)
  BY PutType, PutKeeps
<1>5. Keeps(r, r3)
  BY <1>2, <1>3, <1>4 DEF Keeps
<1> QED
  BY <1>2, <1>3, <1>4, <1>5 DEF kbd_buffer_puts

-----------------------------------------------------------------------------
(* keyboard_handler as the ring sees it: nothing, one character, or one    *)
(* escape sequence.                                                        *)

LEMMA FinalType ==
  ASSUME NEW sc \in ExtSequence
  PROVE  Final(sc) \in 1 .. 127
BY DEF ExtSequence, Arrow, Final

LEMMA KeyCharType ==
  ASSUME NEW sc \in 0 .. 127, NEW ctrl, NEW shift, NEW caps
  PROVE  KeyChar(sc, ctrl, shift, caps) \in 0 .. 127
<1>1. kbd_us[sc] \in 0 .. 127 /\ kbd_us_shift[sc] \in 0 .. 127
  BY KeyboardAssumption
<1> QED
  BY <1>1 DEF KeyChar, IsLetter

RingChange ==
  \/ UNCHANGED ringVars
  \/ \E ch \in 1 .. 127 : Store(kbd_buffer_put(Ring, ch))
  \/ \E sc \in ExtSequence : Store(kbd_buffer_puts(Ring, Final(sc)))

LEMMA DecodeStep ==
  ASSUME TypeOK, NEW sc \in Byte, Decode(sc)
  PROVE  /\ RingChange
         /\ shift_pressed' \in BOOLEAN /\ caps_lock' \in BOOLEAN
         /\ ctrl_pressed' \in BOOLEAN /\ ext_scancode' \in BOOLEAN
<1>0. /\ shift_pressed \in BOOLEAN /\ caps_lock \in BOOLEAN
      /\ ctrl_pressed \in BOOLEAN /\ ext_scancode \in BOOLEAN
  BY DEF TypeOK
<1>1. CASE ExtPrefix(sc)
  BY <1>0, <1>1 DEF ExtPrefix, RingChange, modVars
<1>2. CASE ExtendedKey(sc)
  <2>1. RingChange
    <3>1. CASE sc \in ExtSequence /\ Store(kbd_buffer_puts(Ring, Final(sc)))
      BY <3>1, Zenon DEF RingChange
    <3>2. CASE sc = 83 /\ Store(kbd_buffer_put(Ring, 127))
      <4>1. 127 \in 1 .. 127
        OBVIOUS
      <4> QED
        BY <3>2, <4>1, Zenon DEF RingChange
    <3>3. CASE UNCHANGED ringVars
      BY <3>3 DEF RingChange
    <3> QED
      BY <1>2, <3>1, <3>2, <3>3, Zenon DEF ExtendedKey
  <2> QED
    BY <1>0, <1>2, <2>1 DEF ExtendedKey, modVars
<1>3. CASE KeyRelease(sc)
  <2>1. UNCHANGED ringVars /\ UNCHANGED <<caps_lock, ext_scancode>>
    BY <1>3 DEF KeyRelease
  <2>2. shift_pressed' \in BOOLEAN /\ ctrl_pressed' \in BOOLEAN
    BY <1>3, Zenon DEF KeyRelease
  <2> QED
    BY <1>0, <2>1, <2>2 DEF RingChange
<1>4. CASE ModifierPress(sc)
  <2>1. UNCHANGED ringVars /\ UNCHANGED ext_scancode
    BY <1>4 DEF ModifierPress
  <2>2. /\ shift_pressed' \in BOOLEAN /\ ctrl_pressed' \in BOOLEAN
        /\ caps_lock' \in BOOLEAN
    BY <1>4, Zenon DEF ModifierPress
  <2> QED
    BY <1>0, <2>1, <2>2 DEF RingChange
<1>5. CASE CharPress(sc)
  <2>1. PICK ch : ch = KeyChar(sc, ctrl_pressed, shift_pressed, caps_lock)
    OBVIOUS
  <2>2. sc \in 0 .. 127
    BY <1>5 DEF CharPress, Byte
  <2>3. ch \in 0 .. 127
    BY <2>1, <2>2, KeyCharType
  <2>4. RingChange
    <3>1. CASE sc \in Arrow /\ Store(kbd_buffer_puts(Ring, Final(sc)))
      <4>1. sc \in ExtSequence
        BY <3>1 DEF ExtSequence
      <4> QED
        BY <3>1, <4>1, Zenon DEF RingChange
    <3>2. CASE ch # 0 /\ Store(kbd_buffer_put(Ring, ch))
      <4>1. ch \in 1 .. 127
        BY <2>3, <3>2
      <4> QED
        BY <3>2, <4>1, Zenon DEF RingChange
    <3>3. CASE UNCHANGED ringVars
      BY <3>3 DEF RingChange
    <3> QED
      BY <1>5, <2>1, <3>1, <3>2, <3>3, Zenon DEF CharPress
  <2> QED
    BY <1>0, <1>5, <2>4 DEF CharPress, modVars
<1> QED
  BY <1>1, <1>2, <1>3, <1>4, <1>5 DEF Decode

(* Whatever the handler stored, the ring is a ring and what keyboard_getc  *)
(* has yet to read is where it was.                                        *)
LEMMA RingChangeKeeps ==
  ASSUME TypeOK, RingChange
  PROVE  Keeps(Ring, [buf |-> kbd_buffer', head |-> kbd_buffer_head'])
<1>1. Ring \in RingType /\ kbd_buffer_tail \in Index
  BY DEF TypeOK, Ring, RingType
<1>2. CASE UNCHANGED ringVars
  <2>1. [buf |-> kbd_buffer', head |-> kbd_buffer_head'] = Ring
    BY <1>2 DEF ringVars, Ring
  <2> QED
    BY <1>1, <2>1 DEF Keeps
<1>3. ASSUME NEW r \in RingType, Keeps(Ring, r), Store(r)
      PROVE  Keeps(Ring, [buf |-> kbd_buffer', head |-> kbd_buffer_head'])
  <2>1. [buf |-> kbd_buffer', head |-> kbd_buffer_head'] = r
    BY <1>3 DEF Store, RingType
  <2> QED
    BY <1>3, <2>1
<1>4. ASSUME NEW ch \in 1 .. 127, Store(kbd_buffer_put(Ring, ch))
      PROVE  Keeps(Ring, [buf |-> kbd_buffer', head |-> kbd_buffer_head'])
  <2>1. ch \in Char
    BY DEF Char
  <2> QED
    BY <1>1, <1>3, <1>4, <2>1, PutType, PutKeeps
<1>5. ASSUME NEW sc \in ExtSequence, Store(kbd_buffer_puts(Ring, Final(sc)))
      PROVE  Keeps(Ring, [buf |-> kbd_buffer', head |-> kbd_buffer_head'])
  <2>1. Final(sc) \in Char
    BY FinalType DEF Char
  <2>2. kbd_buffer_puts(Ring, Final(sc)) \in RingType
    BY <1>1, <2>1, PutsKeeps DEF Keeps
  <2> QED
    BY <1>1, <1>3, <1>5, <2>1, <2>2, PutsKeeps
<1> QED
  BY <1>2, <1>4, <1>5 DEF RingChange

-----------------------------------------------------------------------------
(* The invariant. *)

LEMMA InitGetcInv == Init => GetcInv
<1> SUFFICES ASSUME Init PROVE GetcInv
  OBVIOUS
<1>1. 0 \in Index /\ 0 \in Char
  BY RingSize DEF Index, Char
<1>2. scancodes \in Seq(Byte) /\ Len(scancodes) <= MaxPending
  <2>1. scancodes = << >>
    BY Zenon DEF Init
  <2>2. << >> \in Seq(Byte) /\ Len(<< >>) = 0
    OBVIOUS
  <2>3. MaxPending \in Nat
    BY Zenon, KeyboardAssumption
  <2> QED BY <2>1, <2>2, <2>3
<1>3. TypeOK
  BY <1>1, <1>2 DEF Init, TypeOK
<1> QED
  BY <1>3 DEF Init, GetcInv

LEMMA HandlerGetcInv ==
  ASSUME GetcInv, keyboard_handler
  PROVE  GetcInv'
<1>1. TypeOK
  BY DEF GetcInv
<1>2. Head(scancodes) \in Byte /\ scancodes' \in Seq(Byte)
        /\ Len(scancodes') <= MaxPending
  <2>1. scancodes \in Seq(Byte) /\ scancodes # << >>
          /\ scancodes' = Tail(scancodes) /\ Len(scancodes) <= MaxPending
    BY <1>1 DEF TypeOK, keyboard_handler
  <2>2. /\ Head(scancodes) \in Byte /\ Tail(scancodes) \in Seq(Byte)
        /\ Len(Tail(scancodes)) = Len(scancodes) - 1
        /\ Len(scancodes) \in Nat
    BY <2>1, HeadTailProperties, LenProperties
  <2>3. MaxPending \in Nat
    BY KeyboardAssumption
  <2> QED
    BY <2>1, <2>2, <2>3
<1>3. /\ RingChange
      /\ shift_pressed' \in BOOLEAN /\ caps_lock' \in BOOLEAN
      /\ ctrl_pressed' \in BOOLEAN /\ ext_scancode' \in BOOLEAN
  BY <1>1, <1>2, DecodeStep DEF keyboard_handler
<1>4. PICK s \in RingType : /\ s = [buf |-> kbd_buffer', head |-> kbd_buffer_head']
                            /\ Keeps(Ring, s)
  BY <1>1, <1>3, RingChangeKeeps DEF Keeps
<1>5. kbd_buffer' \in [Index -> Char] /\ kbd_buffer_head' \in Index
  BY <1>4 DEF RingType
<1>6. UNCHANGED <<down, kbd_buffer_tail, pc, slot, c, ret>>
  BY DEF keyboard_handler, getcVars
<1>7. TypeOK'
  BY <1>1, <1>2, <1>3, <1>5, <1>6 DEF TypeOK
<1>8. keyboard_has_data => /\ keyboard_has_data'
                           /\ kbd_buffer'[kbd_buffer_tail] = kbd_buffer[kbd_buffer_tail]
  BY <1>4, <1>6 DEF Keeps, Ring, keyboard_has_data
<1> QED
  BY <1>6, <1>7, <1>8 DEF GetcInv

LEMMA GetcGetcInv ==
  ASSUME GetcInv, CallGetc \/ keyboard_getc
  PROVE  GetcInv'
<1>1. UNCHANGED <<ringVars, modVars, ext_scancode, envVars>>
  BY DEF CallGetc, keyboard_getc, GetcTest, GetcRead, GetcAdvance,
         GetcAdvanceEarly, GetcReadLate
<1>2. NextTail \in Index
  BY NextIndex DEF GetcInv, TypeOK, NextTail
<1>3. CASE CallGetc
  BY <1>1, <1>3 DEF CallGetc, GetcInv, TypeOK, keyboard_has_data,
                    ringVars, modVars, envVars
<1>4. CASE GetcTest
  BY <1>1, <1>4 DEF GetcTest, GetcInv, TypeOK, keyboard_has_data,
                    ringVars, modVars, envVars
<1>5. CASE GetcRead
  BY <1>1, <1>5 DEF GetcRead, GetcInv, TypeOK, keyboard_has_data,
                    ringVars, modVars, envVars
<1>6. CASE GetcAdvance
  BY <1>1, <1>2, <1>6 DEF GetcAdvance, GetcInv, TypeOK, keyboard_has_data,
                          ringVars, modVars, envVars
<1>7. CASE GetcAdvanceEarly
  BY <1>1, <1>2, <1>7 DEF GetcAdvanceEarly, GetcInv, TypeOK, NextTail,
                          ringVars, modVars, envVars
<1>8. CASE GetcReadLate
  BY <1>1, <1>8 DEF GetcReadLate, GetcInv, TypeOK, keyboard_has_data,
                    ringVars, modVars, envVars
<1> QED
  BY <1>3, <1>4, <1>5, <1>6, <1>7, <1>8 DEF keyboard_getc

LEMMA UserGetcInv ==
  ASSUME GetcInv, User
  PROVE  GetcInv'
<1>1. PICK k \in Keys : KeyDown(k) \/ KeyUp(k)
  BY DEF User
<1>2. k.ext \in BOOLEAN /\ k.sc \in 1 .. 127
  BY KeyboardAssumption
<1>3. MakeCodes(k) \in Seq(Byte) /\ BreakCodes(k) \in Seq(Byte)
  <2>1. {k.sc, k.sc + 128, E0} \subseteq Byte
    BY <1>2 DEF Byte, E0
  <2> QED
    BY <2>1 DEF MakeCodes, BreakCodes
<1>4. down' \subseteq Keys
  BY <1>1 DEF GetcInv, TypeOK, KeyDown, KeyUp
<1>5. PICK codes \in Seq(Byte) : Send(codes)
  BY <1>1, <1>3 DEF KeyDown, KeyUp
<1>6. scancodes' \in Seq(Byte) /\ Len(scancodes') <= MaxPending
  <2>1. /\ scancodes \in Seq(Byte) /\ scancodes' = scancodes \o codes
        /\ Len(scancodes) + Len(codes) <= MaxPending
    BY <1>5 DEF GetcInv, TypeOK, Send
  <2> QED
    BY <2>1
<1>7. UNCHANGED <<ringVars, modVars, ext_scancode, getcVars>>
  BY <1>5 DEF Send
<1> QED
  BY <1>4, <1>6, <1>7 DEF GetcInv, TypeOK, keyboard_has_data,
                          ringVars, modVars, getcVars

(***************************************************************************)
(* For every ring size: the interrupt handler never touches the slot       *)
(* keyboard_getc is reading, in either order of its last two steps, and    *)
(* the hlt inside keyboard_getc is never reached.                          *)
(***************************************************************************)
THEOREM GetcInvariant == Spec => []GetcInv
<1>1. Init => GetcInv
  BY InitGetcInv
<1>2. GetcInv /\ [Next]_vars => GetcInv'
  <2> SUFFICES ASSUME GetcInv, [Next]_vars PROVE GetcInv'
    OBVIOUS
  <2>1. CASE UNCHANGED vars
    BY <2>1 DEF vars, ringVars, modVars, envVars, getcVars, GetcInv, TypeOK,
                keyboard_has_data
  <2> QED
    BY <2>1, HandlerGetcInv, GetcGetcInv, UserGetcInv DEF Next
<1> QED
  BY <1>1, <1>2, PTL DEF Spec

-----------------------------------------------------------------------------
(* The refinement. *)

FifoQ == Contents(kbd_buffer, kbd_buffer_head, kbd_buffer_tail)
FifoOut == IF pc = "late" THEN kbd_buffer[slot] ELSE ret

LEMMA InitFifo == Init => Fifo!Init
<1> SUFFICES ASSUME Init PROVE Fifo!Init
  OBVIOUS
<1>1. FifoOut = 0
  BY DEF Init, FifoOut
<1>2. /\ kbd_buffer \in [Index -> Char]
      /\ kbd_buffer_head = 0 /\ kbd_buffer_tail = 0 /\ 0 \in Index
  BY InitGetcInv, RingSize DEF Init, GetcInv, TypeOK, Index
<1>3. FifoQ \in Seq(Char) /\ Len(FifoQ) = Count(0, 0)
  BY <1>2, ContentsFacts DEF FifoQ
<1>4. Count(0, 0) = 0
  BY DEF Count
<1>5. FifoQ = << >>
  BY <1>3, <1>4, EmptySeq
<1> QED
  BY <1>1, <1>5 DEF Fifo!Init, FifoQ, FifoOut

(* A key event is one Key step or, when it queues nothing, a stutter. *)
LEMMA HandlerFifo ==
  ASSUME GetcInv, keyboard_handler
  PROVE  /\ FifoOut' = FifoOut
         /\ \/ FifoQ' = FifoQ
            \/ \E burst \in AllBursts : Fifo!Key(burst)
<1>1. TypeOK
  BY DEF GetcInv
<1>2. UNCHANGED <<kbd_buffer_tail, pc, slot, ret>>
  BY DEF keyboard_handler, getcVars
<1>3. RingChange
  <2>1. scancodes \in Seq(Byte) /\ scancodes # << >>
    BY <1>1 DEF TypeOK, keyboard_handler
  <2>2. Head(scancodes) \in Byte
    BY <2>1, HeadTailProperties
  <2> QED
    BY <1>1, <2>2, DecodeStep DEF keyboard_handler
<1>4. FifoOut' = FifoOut
  <2>1. Keeps(Ring, [buf |-> kbd_buffer', head |-> kbd_buffer_head'])
    BY <1>1, <1>3, RingChangeKeeps
  <2>2. \A i \in Index : (i + 1) % KBD_BUFFER_SIZE = kbd_buffer_tail
                            => kbd_buffer'[i] = kbd_buffer[i]
    BY <2>1 DEF Keeps, Ring
  <2>3. CASE pc = "late"
    <3>1. slot \in Index /\ (slot + 1) % KBD_BUFFER_SIZE = kbd_buffer_tail
      BY <1>1, <2>3 DEF GetcInv, TypeOK
    <3> QED
      BY <1>2, <2>2, <2>3, <3>1 DEF FifoOut
  <2>4. CASE pc # "late"
    BY <1>2, <2>4 DEF FifoOut
  <2> QED
    BY <2>3, <2>4
<1>5. Ring \in RingType /\ kbd_buffer_tail \in Index
  BY <1>1 DEF TypeOK, Ring, RingType
<1>6. Queue(Ring) = FifoQ
  BY DEF Queue, Ring, FifoQ
<1>7. ASSUME NEW r \in RingType, Store(r)
      PROVE  FifoQ' = Queue(r)
  BY <1>2, <1>7 DEF Store, Queue, FifoQ
<1>8. CASE UNCHANGED ringVars
  BY <1>2, <1>4, <1>8 DEF ringVars, FifoQ
<1>9. ASSUME NEW ch \in 1 .. 127, Store(kbd_buffer_put(Ring, ch))
      PROVE  \E burst \in AllBursts : Fifo!Key(burst)
  <2>1. ch \in Char
    BY DEF Char
  <2>2. FifoQ' = Queue(kbd_buffer_put(Ring, ch))
    BY <1>5, <1>7, <1>9, <2>1, PutType
  <2>3. PICK room : room = KBD_BUFFER_SIZE - 1 - Len(FifoQ)
    OBVIOUS
  <2>4. FifoQ' = FifoQ \o SubSeq(<<ch>>, 1, IF 1 <= room THEN 1 ELSE room)
    BY <1>5, <1>6, <2>1, <2>2, <2>3, PutAccepted
  <2>5. Len(<<ch>>) = 1
    OBVIOUS
  <2>6. <<ch>> \in AllBursts
    BY DEF AllBursts
  <2>7. Fifo!Key(<<ch>>)
    BY <1>4, <2>3, <2>4, <2>5
    DEF Fifo!Key, Fifo!Accepted, Fifo!Room, FifoQ, FifoOut
  <2> QED
    BY <2>6, <2>7
<1>10. ASSUME NEW sc \in ExtSequence, Store(kbd_buffer_puts(Ring, Final(sc)))
       PROVE  \E burst \in AllBursts : Fifo!Key(burst)
  <2>1. PICK f \in Char : f = Final(sc)
    BY FinalType DEF Char
  <2>2. PICK room : room = KBD_BUFFER_SIZE - 1 - Len(FifoQ)
    OBVIOUS
  <2>3. /\ kbd_buffer_puts(Ring, f) \in RingType
        /\ Queue(kbd_buffer_puts(Ring, f))
             = FifoQ \o SubSeq(<<ESC, 91, f>>, 1, IF 3 <= room THEN 3 ELSE room)
    <3>1. room = KBD_BUFFER_SIZE - 1 - Len(Queue(Ring))
      BY <1>6, <2>2, Zenon
    <3>2. /\ kbd_buffer_puts(Ring, f) \in RingType
          /\ Queue(kbd_buffer_puts(Ring, f))
               = Queue(Ring) \o SubSeq(<<ESC, 91, f>>, 1, IF 3 <= room THEN 3 ELSE room)
      BY <1>5, <3>1, PutsAccepted, SMTT(60)
    <3> QED BY <1>6, <3>2, Zenon
  <2>4. FifoQ' = Queue(kbd_buffer_puts(Ring, f))
    BY <1>7, <1>10, <2>1, <2>3
  <2>5. Len(<<ESC, 91, f>>) = 3
    OBVIOUS
  <2>6. <<ESC, 91, f>> \in AllBursts
    BY <2>1 DEF AllBursts
  <2>7. Fifo!Key(<<ESC, 91, f>>)
    BY <1>4, <2>2, <2>3, <2>4, <2>5
    DEF Fifo!Key, Fifo!Accepted, Fifo!Room, FifoQ, FifoOut
  <2> QED
    BY <2>6, <2>7
<1> QED
  BY <1>3, <1>4, <1>8, <1>9, <1>10 DEF RingChange

(* Giving the slot back is the Read step; the rest of keyboard_getc         *)
(* changes nothing the abstract queue shows.                               *)
LEMMA GetcFifo ==
  ASSUME GetcInv, CallGetc \/ keyboard_getc
  PROVE  \/ FifoQ' = FifoQ /\ FifoOut' = FifoOut
         \/ Fifo!Read
<1>1. UNCHANGED <<kbd_buffer, kbd_buffer_head>>
  BY DEF CallGetc, keyboard_getc, GetcTest, GetcRead, GetcAdvance,
         GetcAdvanceEarly, GetcReadLate, ringVars
<1>2. TypeOK
  BY DEF GetcInv
<1>3. CASE CallGetc \/ GetcTest \/ GetcRead
  <2>1. UNCHANGED <<kbd_buffer_tail, ret>> /\ pc # "late" /\ pc' # "late"
    BY <1>3 DEF CallGetc, GetcTest, GetcRead
  <2> QED
    BY <1>1, <2>1 DEF FifoQ, FifoOut
<1>4. CASE GetcReadLate
  <2>1. /\ kbd_buffer_tail' = kbd_buffer_tail
        /\ pc = "late" /\ pc' = "caller" /\ ret' = kbd_buffer[slot]
    BY <1>4 DEF GetcReadLate
  <2> QED
    BY <1>1, <2>1 DEF FifoQ, FifoOut
<1>5. CASE GetcAdvance \/ GetcAdvanceEarly
  <2>1. /\ kbd_buffer_tail' = NextTail
        /\ kbd_buffer_head # kbd_buffer_tail
        /\ slot = kbd_buffer_tail /\ slot' = slot
    BY <1>5 DEF GetcAdvance, GetcAdvanceEarly, GetcInv, keyboard_has_data
  <2>2. FifoOut' = kbd_buffer[kbd_buffer_tail]
    <3>1. CASE GetcAdvance
      BY <3>1, <2>1 DEF GetcAdvance, GetcInv, FifoOut
    <3>2. CASE GetcAdvanceEarly
      BY <3>2, <1>1, <2>1 DEF GetcAdvanceEarly, FifoOut
    <3> QED
      BY <1>5, <3>1, <3>2
  <2>3. /\ FifoQ # << >>
        /\ Head(FifoQ) = kbd_buffer[kbd_buffer_tail]
        /\ Contents(kbd_buffer, kbd_buffer_head, NextTail) = Tail(FifoQ)
    BY <1>2, <2>1, PopContents DEF TypeOK, FifoQ, NextTail
  <2>4. FifoQ' = Tail(FifoQ)
    BY <1>1, <2>1, <2>3 DEF FifoQ
  <2> QED
    BY <2>2, <2>3, <2>4 DEF Fifo!Read, FifoQ, FifoOut
<1> QED
  BY <1>3, <1>4, <1>5 DEF keyboard_getc

(***************************************************************************)
(* For every ring size, layout and set of keys, kbd_buffer is the bounded  *)
(* lossy queue of KbdFifo: keyboard_getc returns what was typed, in order, *)
(* once, and only a burst for which fewer than its length slots are free   *)
(* is cut.                                                                 *)
(***************************************************************************)
THEOREM KeyboardImplementsFifo == Spec => RingIsFifo
<1>1. Init => Fifo!Init
  BY InitFifo
<1>2. GetcInv /\ [Next]_vars
        => [Fifo!Next]_<<FifoQ, FifoOut>>
  <2> SUFFICES ASSUME GetcInv, [Next]_vars
               PROVE  \/ Fifo!Next
                      \/ FifoQ' = FifoQ /\ FifoOut' = FifoOut
    OBVIOUS
  <2>1. CASE keyboard_handler
    BY <2>1, HandlerFifo DEF Fifo!Next
  <2>2. CASE CallGetc \/ keyboard_getc
    BY <2>2, GetcFifo DEF Fifo!Next
  <2>3. CASE User \/ UNCHANGED vars
    <3>1. UNCHANGED <<ringVars, getcVars>>
      BY <2>3 DEF User, KeyDown, KeyUp, Send, vars
    <3> QED
      BY <3>1 DEF ringVars, getcVars, FifoQ, FifoOut
  <2> QED
    BY <2>1, <2>2, <2>3 DEF Next
<1>3. GetcInv /\ [Next]_vars
        => [Fifo!Next]_<<Contents(kbd_buffer, kbd_buffer_head, kbd_buffer_tail),
                         IF pc = "late" THEN kbd_buffer[slot] ELSE ret>>
  BY <1>2 DEF FifoQ, FifoOut
<1> QED
  BY <1>1, <1>3, GetcInvariant, PTL DEF Spec, RingIsFifo, Fifo!Spec

-----------------------------------------------------------------------------
(* The decoder *)

Modifiers == {LSHIFT, RSHIFT, CTRL}

LEMMA ModifierCodes ==
  \A sc \in Modifiers : /\ sc \in 1 .. 127 /\ sc # E0 /\ sc + 128 # E0 /\ sc + 128 \in Nat
                        /\ PlainKey(sc) \in [ext : BOOLEAN, sc : 1 .. 127]
  BY DEF Modifiers, LSHIFT, RSHIFT, CTRL, E0, PlainKey

(* The handler takes the first code: what follows moves up by one place,   *)
(* and stays behind the prefix it was behind.                              *)
LEMMA HandlerMovesUp ==
  ASSUME TypeOK, PrefixesPair, keyboard_handler
  PROVE  /\ Len(scancodes) \in Nat \ {0} /\ Len(scancodes') = Len(scancodes) - 1
         /\ \A j \in 1 .. Len(scancodes') : scancodes'[j] = scancodes[j + 1]
         /\ ext_scancode' = (scancodes[1] = E0)
         /\ \A j \in 1 .. Len(scancodes') : Prefixed(j)' <=> Prefixed(j + 1)
         /\ \A code : \A j \in 1 .. Len(scancodes') : Queued(code, j)' <=> Queued(code, j + 1)
<1>1. /\ scancodes \in Seq(Byte) /\ scancodes # << >> /\ scancodes' = Tail(scancodes)
      /\ Decode(scancodes[1])
  BY DEF TypeOK, keyboard_handler
<1>2. /\ Len(scancodes) \in Nat \ {0} /\ Len(scancodes') = Len(scancodes) - 1
      /\ \A j \in 1 .. Len(scancodes') : scancodes'[j] = scancodes[j + 1]
      /\ scancodes[1] \in Byte
  BY <1>1, HeadTailProperties, LenProperties, EmptySeq
<1>3. ext_scancode' = (scancodes[1] = E0)
  <2>1. ext_scancode \in BOOLEAN
    BY DEF TypeOK
  <2>2. CASE ExtPrefix(scancodes[1])
    BY <2>2 DEF ExtPrefix
  <2>3. CASE ExtendedKey(scancodes[1])
    BY <2>3 DEF ExtendedKey
  <2>4. CASE KeyRelease(scancodes[1])
    BY <2>1, <2>4 DEF KeyRelease
  <2>5. CASE ModifierPress(scancodes[1])
    <3>1. scancodes[1] # E0
      BY <2>5 DEF ModifierPress, LSHIFT, RSHIFT, CTRL, CAPS, E0
    <3> QED BY <2>1, <2>5, <3>1 DEF ModifierPress
  <2>6. CASE CharPress(scancodes[1])
    <3>1. scancodes[1] # E0
      BY <1>2, <2>6 DEF CharPress, E0, Byte
    <3> QED BY <2>1, <2>6, <3>1 DEF CharPress
  <2> QED BY <1>1, <2>2, <2>3, <2>4, <2>5, <2>6 DEF Decode
<1>4. ASSUME NEW j \in 1 .. Len(scancodes') PROVE Prefixed(j)' <=> Prefixed(j + 1)
  <2>1. CASE j = 1
    <3>1. j + 1 # 1 /\ (j + 1) - 1 = 1
      BY <2>1
    <3>2. Prefixed(j + 1) <=> scancodes[1] = E0
      BY <3>1 DEF Prefixed
    <3>3. Prefixed(j)' <=> ext_scancode'
      BY <2>1 DEF Prefixed
    <3> QED BY <1>3, <3>2, <3>3
  <2>2. CASE j # 1
    <3>1. j - 1 \in 1 .. Len(scancodes') /\ (j - 1) + 1 = (j + 1) - 1 /\ j + 1 # 1
      BY <1>2, <2>2
    <3>2. scancodes'[j - 1] = scancodes[(j + 1) - 1]
      BY <1>2, <3>1
    <3> QED BY <2>2, <3>1, <3>2 DEF Prefixed
  <2> QED BY <2>1, <2>2
<1>5. ASSUME NEW code, NEW j \in 1 .. Len(scancodes')
      PROVE  Queued(code, j)' <=> Queued(code, j + 1)
  <2>1. j + 1 \in 1 .. Len(scancodes)
    BY <1>2
  <2>2. scancodes'[j] = scancodes[j + 1] /\ (Prefixed(j)' <=> Prefixed(j + 1))
    BY <1>2, <1>4
  <2> QED BY <2>1, <2>2 DEF Queued
<1> QED BY <1>2, <1>3, <1>4, <1>5

LEMMA HandlerDecoder ==
  ASSUME TypeOK, DecoderInv, keyboard_handler
  PROVE  DecoderInv'
<1>1. /\ PrefixesPair /\ \A sc \in Modifiers : ReleaseFollows(sc)
      /\ ReleaseIsQueued(shift_pressed, {LSHIFT, RSHIFT})
      /\ ReleaseIsQueued(ctrl_pressed, {CTRL})
  BY DEF DecoderInv, Modifiers
<1>2. /\ Len(scancodes) \in Nat \ {0} /\ Len(scancodes') = Len(scancodes) - 1
      /\ \A j \in 1 .. Len(scancodes') : scancodes'[j] = scancodes[j + 1]
      /\ ext_scancode' = (scancodes[1] = E0)
      /\ \A j \in 1 .. Len(scancodes') : Prefixed(j)' <=> Prefixed(j + 1)
      /\ \A code : \A j \in 1 .. Len(scancodes') : Queued(code, j)' <=> Queued(code, j + 1)
  BY <1>1, HandlerMovesUp
<1>3. down' = down /\ Decode(scancodes[1])
  BY DEF keyboard_handler
<1>4. PrefixesPair'
  <2>1. ext_scancode' => scancodes' # << >>
    <3> SUFFICES ASSUME scancodes[1] = E0 PROVE scancodes' # << >>
      BY <1>2
    <3>1. 1 < Len(scancodes)
      BY <1>1, <1>2 DEF PrefixesPair
    <3>2. Len(scancodes') # 0
      BY <1>2, <3>1
    <3> QED BY <3>2
  <2>2. ASSUME NEW j \in 1 .. Len(scancodes'), scancodes'[j] = E0
        PROVE  j < Len(scancodes') /\ ~Prefixed(j)'
    <3>1. j + 1 \in 1 .. Len(scancodes) /\ scancodes[j + 1] = E0
      BY <1>2, <2>2
    <3>2. j + 1 < Len(scancodes) /\ ~Prefixed(j + 1)
      BY <1>1, <3>1 DEF PrefixesPair
    <3> QED BY <1>2, <3>2
  <2> QED BY <2>1, <2>2 DEF PrefixesPair
<1>5. ASSUME NEW code, NEW k \in 2 .. Len(scancodes), Queued(code, k)
      PROVE  k - 1 \in 1 .. Len(scancodes') /\ Queued(code, k - 1)'
  <2>1. k - 1 \in 1 .. Len(scancodes') /\ (k - 1) + 1 = k
    BY <1>2
  <2> QED BY <1>2, <1>5, <2>1
<1>6. ASSUME NEW sc \in Modifiers PROVE ReleaseFollows(sc)'
  <2> SUFFICES ASSUME PlainKey(sc) \notin down, NEW j \in 1 .. Len(scancodes'), Queued(sc, j)'
               PROVE  \E k \in j + 1 .. Len(scancodes') : Queued(sc + 128, k)'
    BY <1>3 DEF ReleaseFollows, PlainKey
  <2>1. Queued(sc, j + 1) /\ j + 1 \in 1 .. Len(scancodes)
    BY <1>2
  <2>2. PICK k \in j + 2 .. Len(scancodes) : Queued(sc + 128, k)
    <3>1. \E k \in (j + 1) + 1 .. Len(scancodes) : Queued(sc + 128, k)
      BY <1>1, <2>1 DEF ReleaseFollows
    <3> QED BY <1>2, <3>1
  <2>3. k \in 2 .. Len(scancodes) /\ k - 1 \in j + 1 .. Len(scancodes')
    BY <1>2, <2>2
  <2> QED BY <1>5, <2>2, <2>3
<1>7. ASSUME NEW S \in SUBSET Modifiers, NEW old, NEW new,
             ReleaseIsQueued(old, S),
             new => old \/ \E sc \in S : Queued(sc, 1),
             new => \A sc \in S : ~Queued(sc + 128, 1),
             new, \A sc \in S : PlainKey(sc) \notin down
      PROVE  \E sc \in S, k \in 1 .. Len(scancodes') : Queued(sc + 128, k)'
  <2>1. PICK sc \in S, k \in 1 .. Len(scancodes) : Queued(sc + 128, k) /\ k # 1
    <3>1. CASE old
      BY <1>7, <3>1 DEF ReleaseIsQueued
    <3>2. ASSUME NEW sc \in S, Queued(sc, 1)
          PROVE  \E k \in 1 .. Len(scancodes) : Queued(sc + 128, k) /\ k # 1
      <4>1. PICK k \in 1 + 1 .. Len(scancodes) : Queued(sc + 128, k)
        BY <1>1, <1>2, <1>7, <3>2 DEF ReleaseFollows
      <4> QED BY <1>2, <4>1
    <3> QED BY <1>7, <3>1, <3>2
  <2>2. k \in 2 .. Len(scancodes)
    BY <1>2, <2>1
  <2> QED BY <1>5, <2>1, <2>2
<1>8. ASSUME NEW sc \in Modifiers, ~ext_scancode, scancodes[1] = sc PROVE Queued(sc, 1)
  BY <1>2, <1>8 DEF Queued, Prefixed
<1>9. ASSUME NEW sc \in Modifiers, Queued(sc + 128, 1)
      PROVE  KeyRelease(scancodes[1]) /\ scancodes[1] - 128 = sc
  <2>1. ~ext_scancode /\ scancodes[1] = sc + 128
    BY <1>9 DEF Queued, Prefixed
  <2>2. sc \in 1 .. 127 /\ scancodes[1] # E0
    BY <2>1, ModifierCodes
  <2>3. ~ExtPrefix(scancodes[1]) /\ ~ExtendedKey(scancodes[1])
        /\ ~ModifierPress(scancodes[1]) /\ ~CharPress(scancodes[1])
    BY <2>1, <2>2 DEF ExtPrefix, ExtendedKey, ModifierPress, CharPress,
                      LSHIFT, RSHIFT, CTRL, CAPS
  <2> QED BY <1>3, <2>1, <2>2, <2>3 DEF Decode
<1>10. ReleaseIsQueued(shift_pressed, {LSHIFT, RSHIFT})'
  <2>1. shift_pressed' => shift_pressed \/ \E sc \in {LSHIFT, RSHIFT} : Queued(sc, 1)
    <3> SUFFICES ASSUME shift_pressed', ~shift_pressed
                 PROVE  \E sc \in {LSHIFT, RSHIFT} : Queued(sc, 1)
      OBVIOUS
    <3>1. ModifierPress(scancodes[1])
      BY <1>3 DEF Decode, ExtPrefix, ExtendedKey, KeyRelease, CharPress, modVars
    <3>2. ~ext_scancode /\ scancodes[1] \in {LSHIFT, RSHIFT}
      BY <3>1, Zenon DEF ModifierPress
    <3> QED BY <1>8, <3>2 DEF Modifiers
  <2>2. shift_pressed' => \A sc \in {LSHIFT, RSHIFT} : ~Queued(sc + 128, 1)
    <3> SUFFICES ASSUME NEW sc \in {LSHIFT, RSHIFT}, Queued(sc + 128, 1)
                 PROVE  ~shift_pressed'
      OBVIOUS
    <3>1. KeyRelease(scancodes[1]) /\ scancodes[1] - 128 = sc
      BY <1>9 DEF Modifiers
    <3> QED BY <3>1, Zenon DEF KeyRelease
  <2>3. {LSHIFT, RSHIFT} \in SUBSET Modifiers
    BY DEF Modifiers
  <2>4. shift_pressed' /\ (\A sc \in {LSHIFT, RSHIFT} : PlainKey(sc) \notin down)
          => \E sc \in {LSHIFT, RSHIFT}, k \in 1 .. Len(scancodes') : Queued(sc + 128, k)'
    BY <1>1, <1>7, <2>1, <2>2, <2>3
  <2> QED BY <1>3, <2>4 DEF ReleaseIsQueued, PlainKey
<1>11. ReleaseIsQueued(ctrl_pressed, {CTRL})'
  <2>1. ctrl_pressed' => ctrl_pressed \/ \E sc \in {CTRL} : Queued(sc, 1)
    <3> SUFFICES ASSUME ctrl_pressed', ~ctrl_pressed
                 PROVE  Queued(CTRL, 1)
      OBVIOUS
    <3>1. ModifierPress(scancodes[1])
      BY <1>3 DEF Decode, ExtPrefix, ExtendedKey, KeyRelease, CharPress, modVars
    <3>2. ~ext_scancode /\ scancodes[1] = CTRL
      BY <3>1, Zenon DEF ModifierPress
    <3> QED BY <1>8, <3>2 DEF Modifiers
  <2>2. ctrl_pressed' => \A sc \in {CTRL} : ~Queued(sc + 128, 1)
    <3> SUFFICES ASSUME Queued(CTRL + 128, 1)
                 PROVE  ~ctrl_pressed'
      OBVIOUS
    <3>1. KeyRelease(scancodes[1]) /\ scancodes[1] - 128 = CTRL
      BY <1>9 DEF Modifiers
    <3> QED BY <3>1, Zenon DEF KeyRelease
  <2>3. {CTRL} \in SUBSET Modifiers
    BY DEF Modifiers
  <2>4. ctrl_pressed' /\ (\A sc \in {CTRL} : PlainKey(sc) \notin down)
          => \E sc \in {CTRL}, k \in 1 .. Len(scancodes') : Queued(sc + 128, k)'
    BY <1>1, <1>7, <2>1, <2>2, <2>3
  <2> QED BY <1>3, <2>4 DEF ReleaseIsQueued, PlainKey
<1> QED BY <1>4, <1>6, <1>10, <1>11 DEF DecoderInv, Modifiers

(* What the controller appends stands behind no prefix that was there       *)
(* before, and moves nothing.                                              *)
LEMMA SendAppends ==
  ASSUME TypeOK, PrefixesPair, UNCHANGED ext_scancode,
         NEW n \in Nat, n = Len(scancodes), NEW a \in Byte \ {E0}, NEW ext \in BOOLEAN,
         scancodes' = scancodes \o (IF ext THEN <<E0, a>> ELSE <<a>>)
  PROVE  /\ Len(scancodes') = n + (IF ext THEN 2 ELSE 1)
         /\ \A code : \A j \in 1 .. n : Queued(code, j)' <=> Queued(code, j)
         /\ \A code : \A j \in n + 1 .. Len(scancodes') :
              Queued(code, j)' => code = E0 \/ (~ext /\ code = a)
         /\ ~ext => Queued(a, n + 1)'
         /\ PrefixesPair'
<1>1. /\ scancodes \in Seq(Byte) /\ n = Len(scancodes) /\ ext_scancode \in BOOLEAN
      /\ ext_scancode' = ext_scancode
  BY DEF TypeOK
<1>2. /\ Len(scancodes') = n + (IF ext THEN 2 ELSE 1)
      /\ \A j \in 1 .. n : scancodes'[j] = scancodes[j]
      /\ ext => scancodes'[n + 1] = E0 /\ scancodes'[n + 2] = a
      /\ ~ext => scancodes'[n + 1] = a
  BY <1>1
<1>3. ASSUME NEW j \in 1 .. n PROVE Prefixed(j)' <=> Prefixed(j)
  <2>1. CASE j = 1
    BY <1>1, <2>1 DEF Prefixed
  <2>2. CASE j # 1
    <3>1. j - 1 \in 1 .. n
      BY <1>1, <2>2
    <3> QED BY <1>2, <2>2, <3>1 DEF Prefixed
  <2> QED BY <2>1, <2>2
<1>4. ASSUME NEW code, NEW j \in 1 .. n PROVE Queued(code, j)' <=> Queued(code, j)
  BY <1>1, <1>2, <1>3 DEF Queued
<1>5. ~Prefixed(n + 1)'
  <2>1. CASE n = 0
    <3>1. ~ext_scancode
      BY <1>1, <2>1, EmptySeq DEF PrefixesPair
    <3> QED BY <1>1, <2>1, <3>1 DEF Prefixed
  <2>2. CASE n # 0
    <3>1. n \in 1 .. n /\ n + 1 # 1 /\ (n + 1) - 1 = n
      BY <1>1, <2>2
    <3>2. scancodes'[n] # E0
      BY <1>1, <1>2, <3>1 DEF PrefixesPair
    <3> QED BY <3>1, <3>2 DEF Prefixed
  <2> QED BY <2>1, <2>2
<1>6. ext => Prefixed(n + 2)'
  <2>1. n + 2 # 1 /\ (n + 2) - 1 = n + 1
    BY <1>1
  <2> QED BY <1>2, <2>1 DEF Prefixed
<1>7. ASSUME NEW code, NEW j \in n + 1 .. Len(scancodes'), Queued(code, j)'
      PROVE  code = E0 \/ (~ext /\ code = a)
  <2>1. scancodes'[j] = code /\ ~Prefixed(j)'
    BY <1>7 DEF Queued
  <2>2. j = n + 1 \/ (ext /\ j = n + 2)
    BY <1>1, <1>2
  <2> QED BY <1>2, <1>6, <2>1, <2>2
<1>8. ~ext => Queued(a, n + 1)'
  BY <1>1, <1>2, <1>5 DEF Queued
<1>9. PrefixesPair'
  <2>1. ext_scancode' => scancodes' # << >>
    <3>1. Len(scancodes') # 0
      BY <1>1, <1>2
    <3> QED BY <3>1
  <2>2. ASSUME NEW j \in 1 .. Len(scancodes'), scancodes'[j] = E0
        PROVE  j < Len(scancodes') /\ ~Prefixed(j)'
    <3>1. CASE j \in 1 .. n
      <4>1. j < n /\ ~Prefixed(j)
        BY <1>2, <2>2, <3>1 DEF PrefixesPair
      <4> QED BY <1>1, <1>2, <1>3, <3>1, <4>1
    <3>2. CASE j \notin 1 .. n
      <4>1. j = n + 1 \/ (ext /\ j = n + 2)
        BY <1>1, <1>2, <3>2
      <4>2. ext /\ j = n + 1
        BY <1>2, <2>2, <4>1
      <4> QED BY <1>1, <1>2, <1>5, <4>2
    <3> QED BY <3>1, <3>2
  <2> QED BY <2>1, <2>2 DEF PrefixesPair
<1> QED BY <1>1, <1>2, <1>4, <1>7, <1>8, <1>9

LEMMA UserDecoder ==
  ASSUME TypeOK, DecoderInv, User
  PROVE  DecoderInv'
<1>1. /\ PrefixesPair /\ \A sc \in Modifiers : ReleaseFollows(sc)
      /\ ReleaseIsQueued(shift_pressed, {LSHIFT, RSHIFT})
      /\ ReleaseIsQueued(ctrl_pressed, {CTRL})
  BY DEF DecoderInv, Modifiers
<1> PICK n \in Nat : n = Len(scancodes)
  BY LenProperties DEF TypeOK
<1>2. PICK key \in Keys : KeyDown(key) \/ KeyUp(key)
  BY DEF User
<1>3. PICK up \in BOOLEAN, a \in Byte \ {E0} :
        /\ a = (IF up THEN key.sc + 128 ELSE key.sc)
        /\ scancodes' = scancodes \o (IF key.ext THEN <<E0, a>> ELSE <<a>>)
        /\ down' = (IF up THEN down \ {key} ELSE down \cup {key})
  <2>1. key.sc \in 1 .. 127 /\ key.sc # 96
    BY KeyboardAssumption
  <2>2. key.sc \in Byte \ {E0} /\ key.sc + 128 \in Byte \ {E0}
    <3>1. \A x \in 1 .. 127 : x # 96 => x \in Byte \ {E0} /\ x + 128 \in Byte \ {E0}
      BY DEF Byte, E0
    <3> QED BY <2>1, <3>1
  <2>3. CASE KeyDown(key)
    BY <2>2, <2>3 DEF KeyDown, Send, MakeCodes
  <2>4. CASE KeyUp(key)
    BY <2>2, <2>4 DEF KeyUp, Send, BreakCodes
  <2> QED BY <1>2, <2>3, <2>4
<1>4. key \in [ext : BOOLEAN, sc : 1 .. 127] /\ key.ext \in BOOLEAN /\ key.sc \in 1 .. 127
  <2>1. key \in [ext : BOOLEAN, sc : 1 .. 127 \ {96}]
    BY KeyboardAssumption, Zenon
  <2> QED BY <2>1
<1>5. UNCHANGED <<ext_scancode, shift_pressed, ctrl_pressed>>
  BY <1>2 DEF KeyDown, KeyUp, Send, modVars
<1>6. /\ Len(scancodes') = n + (IF key.ext THEN 2 ELSE 1)
      /\ \A code : \A j \in 1 .. n : Queued(code, j)' <=> Queued(code, j)
      /\ \A code : \A j \in n + 1 .. Len(scancodes') :
           Queued(code, j)' => code = E0 \/ (~key.ext /\ code = a)
      /\ ~key.ext => Queued(a, n + 1)'
      /\ PrefixesPair'
  <2> PICK ext \in BOOLEAN : ext = key.ext
    BY <1>4
  <2>1. scancodes' = scancodes \o (IF ext THEN <<E0, a>> ELSE <<a>>) /\ UNCHANGED ext_scancode
    BY <1>3, <1>5
  <2>2. /\ Len(scancodes') = n + (IF ext THEN 2 ELSE 1)
        /\ \A code : \A j \in 1 .. n : Queued(code, j)' <=> Queued(code, j)
        /\ \A code : \A j \in n + 1 .. Len(scancodes') :
             Queued(code, j)' => code = E0 \/ (~ext /\ code = a)
        /\ ~ext => Queued(a, n + 1)'
        /\ PrefixesPair'
    BY <1>1, <2>1, SendAppends
  <2> QED BY <2>2
(* A modifier that was down and is not any more has just sent its break.   *)
<1>7. ASSUME NEW sc \in Modifiers, PlainKey(sc) \notin down', PlainKey(sc) \in down
      PROVE  Queued(sc + 128, n + 1)'
  <2>1. up /\ key = PlainKey(sc)
    BY <1>3, <1>7
  <2>2. ~key.ext /\ a = sc + 128
    BY <1>3, <2>1 DEF PlainKey
  <2> QED BY <1>6, <2>2
<1>8. ASSUME NEW sc \in Modifiers PROVE ReleaseFollows(sc)'
  <2>1. sc \in 1 .. 127 /\ sc # E0
    BY ModifierCodes
  <2> SUFFICES ASSUME PlainKey(sc) \notin down', NEW j \in 1 .. Len(scancodes'), Queued(sc, j)'
               PROVE  \E k \in j + 1 .. Len(scancodes') : Queued(sc + 128, k)'
    BY DEF ReleaseFollows, PlainKey
  <2>2. j \in 1 .. n
    <3> SUFFICES ASSUME j \notin 1 .. n PROVE FALSE
      OBVIOUS
    <3>1. ~key.ext /\ sc = a
      <4>1. j \in n + 1 .. Len(scancodes')
        BY <1>6
      <4> QED BY <1>6, <2>1, <4>1
    <3>2. ~up /\ key.sc = sc
      <4>1. up => sc = key.sc + 128
        BY <1>3, <3>1
      <4>2. \A x, y \in 1 .. 127 : x # y + 128
        OBVIOUS
      <4>3. ~up
        BY <1>4, <2>1, <4>1, <4>2
      <4> QED BY <1>3, <3>1, <4>3
    <3>3. key = PlainKey(sc)
      BY <1>4, <3>1, <3>2 DEF PlainKey
    <3> QED BY <1>3, <3>2, <3>3
  <2>3. CASE PlainKey(sc) \in down
    <3>1. Queued(sc + 128, n + 1)'
      BY <1>7, <2>3
    <3>2. n + 1 \in j + 1 .. Len(scancodes')
      BY <1>6, <2>2
    <3> QED BY <3>1, <3>2
  <2>4. CASE PlainKey(sc) \notin down
    <3>1. PICK k \in j + 1 .. n : Queued(sc + 128, k)
      BY <1>1, <1>6, <2>2, <2>4 DEF ReleaseFollows
    <3>2. k \in 1 .. n /\ k \in j + 1 .. Len(scancodes')
      BY <1>6, <2>2
    <3> QED BY <1>6, <3>1, <3>2
  <2> QED BY <2>3, <2>4
<1>9. ASSUME NEW S \in SUBSET Modifiers, NEW old, ReleaseIsQueued(old, S), old,
             \A sc \in S : PlainKey(sc) \notin down'
      PROVE  \E sc \in S, k \in 1 .. Len(scancodes') : Queued(sc + 128, k)'
  <2>1. CASE \A sc \in S : PlainKey(sc) \notin down
    <3>1. PICK sc \in S, k \in 1 .. n : Queued(sc + 128, k)
      BY <1>9, <2>1 DEF ReleaseIsQueued
    <3>2. k \in 1 .. Len(scancodes')
      BY <1>6
    <3> QED BY <1>6, <3>1, <3>2
  <2>2. ASSUME NEW sc \in S, PlainKey(sc) \in down
        PROVE  \E k \in 1 .. Len(scancodes') : Queued(sc + 128, k)'
    <3>1. Queued(sc + 128, n + 1)'
      BY <1>7, <1>9, <2>2
    <3>2. n + 1 \in 1 .. Len(scancodes')
      BY <1>6
    <3> QED BY <3>1, <3>2
  <2> QED BY <2>1, <2>2
<1>10. ReleaseIsQueued(shift_pressed, {LSHIFT, RSHIFT})'
  <2>1. {LSHIFT, RSHIFT} \in SUBSET Modifiers
    BY DEF Modifiers
  <2>2. shift_pressed /\ (\A sc \in {LSHIFT, RSHIFT} : PlainKey(sc) \notin down')
          => \E sc \in {LSHIFT, RSHIFT}, k \in 1 .. Len(scancodes') : Queued(sc + 128, k)'
    BY <1>1, <1>9, <2>1
  <2> QED BY <1>5, <2>2 DEF ReleaseIsQueued, PlainKey
<1>11. ReleaseIsQueued(ctrl_pressed, {CTRL})'
  <2>1. {CTRL} \in SUBSET Modifiers
    BY DEF Modifiers
  <2>2. ctrl_pressed /\ (\A sc \in {CTRL} : PlainKey(sc) \notin down')
          => \E sc \in {CTRL}, k \in 1 .. Len(scancodes') : Queued(sc + 128, k)'
    BY <1>1, <1>9, <2>1
  <2> QED BY <1>5, <2>2 DEF ReleaseIsQueued, PlainKey
<1> QED BY <1>6, <1>8, <1>10, <1>11 DEF DecoderInv, Modifiers

LEMMA OthersDecoder ==
  ASSUME DecoderInv, UNCHANGED <<scancodes, ext_scancode, shift_pressed, ctrl_pressed, down>>
  PROVE  DecoderInv'
BY DEF DecoderInv, PrefixesPair, ReleaseFollows, ReleaseIsQueued, Queued, Prefixed, PlainKey

(***************************************************************************)
(* For every set of keys, however presses, repeats and releases are queued *)
(* and whenever the interrupt falls: prefixes pair with their codes, and a *)
(* modifier that counts as pressed is held or has its release queued.      *)
(***************************************************************************)
THEOREM DecoderInvariant == Spec => []DecoderInv
<1>1. Init => DecoderInv
  BY DEF Init, DecoderInv, PrefixesPair, ReleaseFollows, ReleaseIsQueued
<1>2. TypeOK /\ DecoderInv /\ [Next]_vars => DecoderInv'
  <2> SUFFICES ASSUME TypeOK, DecoderInv, [Next]_vars PROVE DecoderInv'
    OBVIOUS
  <2>1. CASE keyboard_handler
    BY <2>1, HandlerDecoder
  <2>2. CASE User
    BY <2>2, UserDecoder
  <2>3. CASE CallGetc \/ keyboard_getc \/ UNCHANGED vars
    <3>1. UNCHANGED <<scancodes, ext_scancode, shift_pressed, ctrl_pressed, down>>
      BY <2>3 DEF CallGetc, keyboard_getc, GetcTest, GetcRead, GetcAdvance, GetcAdvanceEarly,
                  GetcReadLate, modVars, envVars, vars
    <3> QED BY <3>1, OthersDecoder
  <2> QED BY <2>1, <2>2, <2>3 DEF Next
<1>3. GetcInv => TypeOK
  BY DEF GetcInv
<1> QED BY <1>1, <1>2, <1>3, GetcInvariant, PTL DEF Spec

(***************************************************************************)
(* keyboard_handler never leaves shift or ctrl stuck: when every scancode  *)
(* has been read, no prefix is pending and a modifier that counts as       *)
(* pressed is held down, for every set of keys and any number of them.     *)
(***************************************************************************)
THEOREM ModifiersNeverStick == Spec => []NoStuckModifier
<1>1. DecoderInv => NoStuckModifier
  <2> SUFFICES ASSUME DecoderInv, scancodes = << >> PROVE NoStuckModifier
    BY DEF NoStuckModifier
  <2>1. 1 .. Len(scancodes) = {}
    OBVIOUS
  <2>2. ~ext_scancode
    BY DEF DecoderInv, PrefixesPair
  <2>3. shift_pressed => \E sc \in {LSHIFT, RSHIFT} : PlainKey(sc) \in down
    BY <2>1 DEF DecoderInv, ReleaseIsQueued
  <2>4. ctrl_pressed => PlainKey(CTRL) \in down
    BY <2>1 DEF DecoderInv, ReleaseIsQueued
  <2> QED BY <2>2, <2>3, <2>4 DEF NoStuckModifier
<1> QED BY <1>1, DecoderInvariant, PTL

-----------------------------------------------------------------------------
(* What can be typed on the layout of keyboard.c. *)

UsLayout == kbd_us = KbdUs /\ kbd_us_shift = KbdUsShift

(* The layout is one that KeyboardAssumption admits.                       *)
LEMMA UsLayoutIsLayout ==
  KbdUs \in [0 .. 127 -> 0 .. 127] /\ KbdUsShift \in [0 .. 127 -> 0 .. 127]
<1>1. \A sc \in 0 .. 127 : KbdUs[sc] \in 0 .. 127
  <2> SUFFICES ASSUME NEW sc \in 0 .. 127 PROVE KbdUs[sc] \in 0 .. 127
    OBVIOUS
  <2>1. PICK b : b = KbdUs[sc]
    OBVIOUS
  <2>2. b \in 0 .. 127
    BY <2>1, SMTT(30) DEF KbdUs, Pad
  <2> QED BY <2>1, <2>2
<1>2. \A sc \in 0 .. 127 : KbdUsShift[sc] \in 0 .. 127
  <2> SUFFICES ASSUME NEW sc \in 0 .. 127 PROVE KbdUsShift[sc] \in 0 .. 127
    OBVIOUS
  <2>1. PICK b : b = KbdUsShift[sc]
    OBVIOUS
  <2>2. b \in 0 .. 127
    BY <2>1, SMTT(30) DEF KbdUsShift, Pad
  <2> QED BY <2>1, <2>2
<1>3. /\ KbdUs = [sc \in 0 .. 127 |-> KbdUs[sc]]
      /\ KbdUsShift = [sc \in 0 .. 127 |-> KbdUsShift[sc]]
  BY DEF KbdUs, KbdUsShift, Pad
<1> QED BY <1>1, <1>2, <1>3

(* The scancodes of the letters a to z. *)
LetterKeys == << 30, 48, 46, 32, 18, 33, 34, 35, 23, 36, 37, 38, 50,
                 49, 24, 25, 16, 19, 31, 20, 22, 47, 17, 45, 21, 44 >>

Capitals == 65 .. 90
Letters == 97 .. 122
Symbols == (32 .. 64) \cup (91 .. 96)

(* The keys that give a symbol, a digit or the space without shift.        *)
SymbolKeys == (2 .. 13) \cup (39 .. 41) \cup (51 .. 53) \cup {26, 27, 43, 55, 57}

(* The scancodes of the others: space to @, [ to backquote, { to ~.        *)
OtherKeys1 == << 57,  2, 40,  4,  5,  6,  8, 40, 10, 11, 55, 13, 51, 12, 52, 53, 11,
                  2,  3,  4,  5,  6,  7,  8,  9, 10, 39, 39, 51, 13, 52, 53,  3 >>
OtherKeys2 == << 26, 43, 27,  7, 12, 41 >>
OtherKeys3 == << 26, 43, 27, 41 >>

LEMMA LetterHasKey ==
  ASSUME NEW ch \in Letters
  PROVE  \E sc \in 1 .. 127 : KbdUs[sc] = ch
<1>1. /\ LetterKeys[ch - 96] \in 1 .. 127
      /\ KbdUs[LetterKeys[ch - 96]] = ch
  BY SMTT(30) DEF KbdUs, Pad, LetterKeys, Letters
<1> QED BY <1>1

LEMMA SymbolKey ==
  ASSUME NEW sc \in SymbolKeys
  PROVE  /\ sc \in 1 .. 127
         /\ KbdUs[sc] \in Symbols
<1>1. sc \in 1 .. 57
  BY DEF SymbolKeys
<1>2. PICK b : b = KbdUs[sc]
  OBVIOUS
<1>3. b \in Symbols
  BY <1>2, SMTT(30) DEF SymbolKeys, KbdUs, Pad, Symbols
<1> QED BY <1>1, <1>2, <1>3

(* Every other printable character is on a key that is no letter's, with   *)
(* or without shift.                                                       *)
LEMMA OtherHasKey ==
  ASSUME NEW ch \in (32 .. 126) \ (Letters \cup Capitals)
  PROVE  \E sc \in 1 .. 127 :
           KbdUs[sc] \in Symbols /\ (KbdUs[sc] = ch \/ KbdUsShift[sc] = ch)
<1>1. CASE ch \in 32 .. 64
  <2> DEFINE sc == OtherKeys1[ch - 31]
  <2>1. sc \in SymbolKeys
    BY <1>1, SMTT(30) DEF OtherKeys1, SymbolKeys
  <2>2. KbdUs[sc] = ch \/ KbdUsShift[sc] = ch
    BY <1>1, SMTT(30) DEF OtherKeys1, KbdUs, KbdUsShift, Pad
  <2> HIDE DEF sc
  <2> QED BY <2>1, <2>2, SymbolKey, Zenon
<1>2. CASE ch \in 91 .. 96
  <2> DEFINE sc == OtherKeys2[ch - 90]
  <2>1. sc \in SymbolKeys
    BY <1>2, SMTT(30) DEF OtherKeys2, SymbolKeys
  <2>2. KbdUs[sc] = ch \/ KbdUsShift[sc] = ch
    BY <1>2, SMTT(30) DEF OtherKeys2, KbdUs, KbdUsShift, Pad
  <2> HIDE DEF sc
  <2> QED BY <2>1, <2>2, SymbolKey, Zenon
<1>3. CASE ch \in 123 .. 126
  <2> DEFINE sc == OtherKeys3[ch - 122]
  <2>1. sc \in SymbolKeys
    BY <1>3, SMTT(30) DEF OtherKeys3, SymbolKeys
  <2>2. KbdUs[sc] = ch \/ KbdUsShift[sc] = ch
    BY <1>3, SMTT(30) DEF OtherKeys3, KbdUs, KbdUsShift, Pad
  <2> HIDE DEF sc
  <2> QED BY <2>1, <2>2, SymbolKey, Zenon
<1>4. ch \in 32 .. 64 \/ ch \in 91 .. 96 \/ ch \in 123 .. 126
  BY DEF Letters, Capitals
<1> QED BY <1>1, <1>2, <1>3, <1>4, Zenon

(* Without ctrl: a letter needs shift or caps lock but not both when it is *)
(* a capital, another character needs shift when it is in the shifted row. *)
LEMMA PrintableTypeable ==
  ASSUME UsLayout, NEW caps \in BOOLEAN, NEW ch \in 32 .. 126
  PROVE  \E sc \in 1 .. 127, shift \in BOOLEAN :
           KeyChar(sc, FALSE, shift, caps) = ch
<1>1. CASE ch \in Letters
  <2>1. PICK sc \in 1 .. 127 : kbd_us[sc] = ch
    BY <1>1, LetterHasKey DEF UsLayout
  <2>2. KeyChar(sc, FALSE, caps, caps) = ch
    BY <1>1, <2>1 DEF KeyChar, IsLetter, Letters
  <2> QED BY <2>2
<1>2. CASE ch \in Capitals
  <2>1. ch + 32 \in Letters
    BY <1>2 DEF Letters, Capitals
  <2>2. PICK sc \in 1 .. 127 : kbd_us[sc] = ch + 32
    BY <2>1, LetterHasKey DEF UsLayout
  <2>3. PICK shift \in BOOLEAN : shift # caps
    <3>1. CASE caps = TRUE
      BY <3>1
    <3>2. CASE caps = FALSE
      BY <3>2
    <3> QED BY <3>1, <3>2
  <2>4. KeyChar(sc, FALSE, shift, caps) = ch
    BY <2>1, <2>2, <2>3 DEF KeyChar, IsLetter, Letters
  <2> QED BY <2>4
<1>3. CASE ch \notin Letters \cup Capitals
  <2>1. PICK sc \in 1 .. 127 :
          kbd_us[sc] \in Symbols /\ (kbd_us[sc] = ch \/ kbd_us_shift[sc] = ch)
    BY <1>3, OtherHasKey DEF UsLayout
  <2>2. kbd_us[sc] # 0 /\ ~IsLetter(kbd_us[sc])
    BY <2>1 DEF IsLetter, Symbols
  <2>3. /\ KeyChar(sc, FALSE, FALSE, caps) = kbd_us[sc]
        /\ KeyChar(sc, FALSE, TRUE, caps) = kbd_us_shift[sc]
    BY <2>2, Zenon DEF KeyChar
  <2> QED BY <2>1, <2>3, Zenon
<1> QED BY <1>1, <1>2, <1>3

(* With ctrl held the letter keys give the control codes, whatever shift   *)
(* and caps lock are.                                                      *)
LEMMA ControlTypeable ==
  ASSUME UsLayout, NEW ch \in 1 .. 26, NEW shift, NEW caps
  PROVE  \E sc \in 1 .. 127 : KeyChar(sc, TRUE, shift, caps) = ch
<1>1. ch + 96 \in Letters
  BY DEF Letters
<1>2. PICK sc \in 1 .. 127 : kbd_us[sc] = ch + 96
  BY <1>1, LetterHasKey DEF UsLayout
<1>3. KeyChar(sc, TRUE, shift, caps) = ch
  BY <1>1, <1>2 DEF KeyChar, IsLetter, Letters
<1> QED BY <1>3

(***************************************************************************)
(* With the tables of keyboard.c, no sequence of keys that keyboard_handler *)
(* decodes, however many keys and scancodes there are, leaves a printable  *)
(* character without a key once every scancode has been read, or a control *)
(* code while ctrl is held: ctrl does not stick, and neither caps lock nor *)
(* shift takes a character away.                                           *)
(***************************************************************************)
THEOREM EveryCharacterStaysTypeable ==
  UsLayout => (Spec => []EveryCharacterTypeable)
<1> SUFFICES ASSUME UsLayout PROVE Spec => []EveryCharacterTypeable
  OBVIOUS
<1>1. TypeOK /\ NoStuckModifier => EveryCharacterTypeable
  <2> SUFFICES ASSUME TypeOK, NoStuckModifier, scancodes = << >>
               PROVE  EveryCharacterTypeable
    BY DEF EveryCharacterTypeable
  <2>1. CASE PlainKey(CTRL) \notin down
    <3>1. ctrl_pressed = FALSE
      BY <2>1 DEF NoStuckModifier, TypeOK
    <3>2. caps_lock \in BOOLEAN
      BY DEF TypeOK
    <3>3. \A ch \in 32 .. 126 :
            \E sc \in 1 .. 127, shift \in BOOLEAN :
              KeyChar(sc, FALSE, shift, caps_lock) = ch
      BY <3>2, PrintableTypeable, Zenon
    <3> QED BY <2>1, <3>1, <3>3, Zenon DEF EveryCharacterTypeable
  <2>2. CASE PlainKey(CTRL) \in down
    <3>1. \A ch \in 1 .. 26 : \E sc \in 1 .. 127 :
            KeyChar(sc, TRUE, shift_pressed, caps_lock) = ch
      BY ControlTypeable, Zenon
    <3> QED BY <2>2, <3>1, Zenon DEF EveryCharacterTypeable
  <2> QED BY <2>1, <2>2
<1>2. GetcInv => TypeOK
  BY DEF GetcInv
<1> QED BY <1>1, <1>2, GetcInvariant, ModifiersNeverStick, PTL

-----------------------------------------------------------------------------
(* Character input. *)

LEMMA MainThreadStep ==
  ASSUME mp_hal_stdin_rx_chr
  PROVE  [Next]_vars
<1>1. CASE RxKbdTest
  BY <1>1 DEF RxKbdTest, Next
<1>2. CASE RxKbdGetc
  BY <1>2 DEF RxKbdGetc, Next
<1>3. CASE RxSerialTest \/ RxSerialGetc \/ RxHlt
  BY <1>3 DEF RxSerialTest, RxSerialGetc, RxHlt
<1> QED
  BY <1>1, <1>2, <1>3 DEF mp_hal_stdin_rx_chr

(***************************************************************************)
(* Every step of the main thread, the interrupts and the devices is a step *)
(* of the keyboard driver as Keyboard specifies it, or does not touch it:  *)
(* in particular keyboard_getc is entered only when it will not halt.      *)
(***************************************************************************)
THEOREM StdinImplementsKeyboard == StdinSpec => DriverUsedAsAssumed
<1>1. StdinInit => Init
  BY DEF StdinInit
<1>2. [StdinNext]_stdinVars => [Next]_vars
  <2> SUFFICES ASSUME [StdinNext]_stdinVars PROVE [Next]_vars
    OBVIOUS
  <2>1. CASE mp_hal_stdin_rx_chr
    BY <2>1, MainThreadStep
  <2>2. CASE RxCall \/ TimerIrq \/ SerialArrives
    BY <2>2 DEF RxCall, TimerIrq, SerialArrives
  <2>3. CASE KeyboardIrq
    BY <2>3 DEF KeyboardIrq, Next
  <2>4. CASE User
    BY <2>4 DEF Next
  <2>5. CASE UNCHANGED stdinVars
    BY <2>5 DEF stdinVars
  <2> QED
    BY <2>1, <2>2, <2>3, <2>4, <2>5 DEF StdinNext
<1> QED
  BY <1>1, <1>2, PTL DEF StdinSpec, DriverUsedAsAssumed, Spec

(***************************************************************************)
(* Hence mp_hal_stdin_rx_chr reads the keyboard through a bounded lossy    *)
(* queue, whatever the timer and the serial port do meanwhile.             *)
(***************************************************************************)
THEOREM StdinReadsFifo == StdinSpec => RingIsFifo
BY StdinImplementsKeyboard, KeyboardImplementsFifo, PTL DEF DriverUsedAsAssumed

(* serial_getc returns a signed char. *)
LEMMA SerialIsSigned ==
  ASSUME NEW b \in Byte
  PROVE  SerialResult(b) \in -128 .. 127
BY DEF SerialResult, Byte, CR, LF

RxTypeOK ==
  /\ rx \in {"idle", "kbd_test", "kbd_getc", "serial_test", "serial_getc",
             "hlt", "halted"}
  /\ rx_ret \in -128 .. 127
  /\ serial_rx \in Seq(SerialChars) /\ Len(serial_rx) <= UART_FIFO
  /\ timer_ticks \in 0 .. TICKS - 1

(* One call of mp_hal_stdin_rx_chr, and the interrupts that fall into it. *)
LEMMA RxStepTypes ==
  ASSUME TypeOK, RxTypeOK, [StdinNext]_stdinVars
  PROVE  RxTypeOK'
<1> USE DEF RxTypeOK
<1>1. CASE RxCall \/ RxKbdTest \/ RxSerialTest \/ RxHlt
  BY <1>1 DEF RxCall, RxKbdTest, RxSerialTest, RxHlt, devVars
<1>2. CASE RxKbdGetc
  <2>1. ret \in -128 .. 127
    BY DEF TypeOK, Char
  <2> QED BY <1>2, <2>1 DEF RxKbdGetc, devVars
<1>3. CASE RxSerialGetc
  <2>1. serial_rx # << >> /\ Head(serial_rx) \in SerialChars
    BY <1>3, HeadTailProperties DEF RxSerialGetc, serial_has_data
  <2>2. SerialResult(Head(serial_rx)) \in -128 .. 127
    BY <2>1, StdinAssumption, SerialIsSigned
  <2>3. Tail(serial_rx) \in Seq(SerialChars) /\ Len(Tail(serial_rx)) <= UART_FIFO
    BY <2>1, HeadTailProperties, StdinAssumption, LenProperties
  <2> QED BY <1>3, <2>2, <2>3 DEF RxSerialGetc, vars
<1>4. CASE KeyboardIrq
  BY <1>4 DEF KeyboardIrq, Resume, devVars
<1>5. CASE TimerIrq
  <2>1. (timer_ticks + 1) % TICKS \in 0 .. TICKS - 1
    BY StdinAssumption
  <2> QED BY <1>5, <2>1 DEF TimerIrq, Resume
<1>6. CASE SerialArrives
  <2>1. PICK b \in SerialChars : /\ Len(serial_rx) < UART_FIFO
                                 /\ serial_rx' = Append(serial_rx, b)
                                 /\ UNCHANGED <<rx, rx_ret, timer_ticks>>
    BY <1>6 DEF SerialArrives
  <2>2. serial_rx' \in Seq(SerialChars) /\ Len(serial_rx') <= UART_FIFO
    BY <2>1, AppendProperties, LenProperties, StdinAssumption
  <2> QED BY <2>1, <2>2
<1>7. CASE User /\ UNCHANGED <<rx, rx_ret, devVars>>
  BY <1>7 DEF devVars
<1>8. CASE UNCHANGED stdinVars
  BY <1>8 DEF stdinVars, devVars
<1> QED BY <1>1, <1>2, <1>3, <1>4, <1>5, <1>6, <1>7, <1>8
        DEF StdinNext, mp_hal_stdin_rx_chr

(***************************************************************************)
(* mp_hal_stdin_rx_chr returns a value of a signed char whichever device   *)
(* the character came from: 0 .. 127 from the ring, whose slots hold       *)
(* nothing else, and -128 .. 127 from the serial port.  The line editor's  *)
(* Input is assumed to be such values.                                     *)
(***************************************************************************)
THEOREM ReturnsASignedChar == StdinSpec => []StdinTypeOK
<1>1. StdinInit => RxTypeOK
  BY StdinAssumption, EmptySeq DEF StdinInit, RxTypeOK
<1>2. TypeOK /\ RxTypeOK /\ [StdinNext]_stdinVars => RxTypeOK'
  BY RxStepTypes
<1>3. GetcInv => TypeOK
  BY DEF GetcInv
<1>4. TypeOK /\ RxTypeOK => StdinTypeOK
  BY DEF RxTypeOK, StdinTypeOK
<1>5. StdinSpec => []GetcInv
  BY StdinImplementsKeyboard, GetcInvariant, PTL DEF DriverUsedAsAssumed
<1>6. StdinSpec => []RxTypeOK
  BY <1>1, <1>2, <1>3, <1>5, PTL DEF StdinSpec
<1> QED BY <1>3, <1>4, <1>5, <1>6, PTL

(***************************************************************************)
(* The modifier keys do not stick either when the timer and the serial     *)
(* port share the main thread with the keyboard.                           *)
(***************************************************************************)
THEOREM StdinModifiersNeverStick == StdinSpec => []NoStuckModifier
BY StdinImplementsKeyboard, ModifiersNeverStick, PTL DEF DriverUsedAsAssumed

(***************************************************************************)
(* Nor does mp_hal_stdin_rx_chr, which shares the main thread with the     *)
(* serial port, leave the keyboard unable to type.                         *)
(***************************************************************************)
THEOREM StdinEveryCharacterTypeable ==
  UsLayout => (StdinSpec => []EveryCharacterTypeable)
BY StdinImplementsKeyboard, EveryCharacterStaysTypeable, PTL DEF DriverUsedAsAssumed
=============================================================================
