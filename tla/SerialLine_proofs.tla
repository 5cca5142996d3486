------------------------- MODULE SerialLine_proofs -------------------------
(***************************************************************************)
(* Proofs about SerialToHost.tla and SerialLine.tla, for rings of any      *)
(* size, messages of any lengths and any number of lost bytes.             *)
(*                                                                         *)
(* TransmitterOn is about one ring and send_buffer only, and its invariant *)
(* leaves the bytes and the host aside.  StreamIntact and OrdersIntact are *)
(* about one sequence of bytes each, Stream to the host and RStream to the *)
(* board: the invariants say what its last byte is, so that the next one   *)
(* put follows it, and that what the receiver has of a message is the      *)
(* beginning of one of the length it expects, so that the byte after the   *)
(* last of them starts the next.  With the number of the message the       *)
(* stream begins with, both directions are MessageLink.                    *)
(***************************************************************************)
EXTENDS SerialLine, SequenceTheorems, TLAPS

RingInv ==
    /\ tx_in \in 0 .. BufSize - 1 /\ tx_out \in 0 .. BufSize - 1
    /\ txeie \in BOOLEAN
    /\ sender \in {"idle", "put", "unmasked", "spin"}

IInv == RingInv /\ TransmitterOn

\* The next slot is another one: a full ring is not empty.
LEMMA NextSlotMoves ==
    ASSUME NEW x \in 0 .. BufSize - 1
    PROVE  NextSlot(x) \in 0 .. BufSize - 1 /\ NextSlot(x) # x
<1> USE BufSizeAssumption
<1>1. CASE x + 1 = BufSize
  <2>1. (x + 1) % BufSize = 0
    BY <1>1, SMT
  <2> QED
    BY <1>1, <2>1, SMT DEF NextSlot
<1>2. CASE x + 1 # BufSize
  <2>1. x + 1 \in 0 .. BufSize - 1
    BY <1>2, SMT
  <2>2. (x + 1) % BufSize = x + 1
    BY <2>1, SMT
  <2> QED
    BY <2>1, <2>2, SMT DEF NextSlot
<1> QED
  BY <1>1, <1>2

\* The ring as it is to begin with.
LEMMA InitOn == Init => IInv
<1> SUFFICES ASSUME Init PROVE IInv
  OBVIOUS
<1>1. tx_in = 0 /\ tx_out = 0 /\ txeie = FALSE /\ sender = "idle"
  BY DEF Init
<1>2. 0 \in 0 .. BufSize - 1
  BY BufSizeAssumption, SMT
<1> QED
  BY <1>1, <1>2 DEF IInv, RingInv, TransmitterOn, Empty

\* Nothing outside the ring and send_buffer matters.
LEMMA RingUntouched ==
    ASSUME IInv, UNCHANGED <<tx_in, tx_out, txeie, sender>>
    PROVE  IInv'
BY DEF IInv, RingInv, TransmitterOn, Empty, Full, NextSlot

LEMMA NextOn == IInv /\ [Next]_vars => IInv'
<1> SUFFICES ASSUME IInv, [Next]_vars PROVE IInv'
  OBVIOUS
<1> USE DEF IInv, RingInv
<1>1. CASE PutByte
  <2>1. NextSlot(tx_in) \in 0 .. BufSize - 1
    BY NextSlotMoves
  <2> QED
    BY <1>1, <2>1 DEF PutByte, TransmitterOn
<1>2. CASE Unmask
  BY <1>2 DEF Unmask, TransmitterOn
<1>3. CASE EnableTx
  BY <1>3 DEF EnableTx, TransmitterOn
<1>4. CASE SpinEnd
  BY <1>4 DEF SpinEnd, TransmitterOn
<1>5. CASE Tx_interrupt
  <2>1. CASE Empty
    <3>1. ~Full
      BY <2>1, NextSlotMoves DEF Empty, Full
    <3>2. ~Full' /\ Empty'
      BY <1>5, <2>1, <3>1 DEF Tx_interrupt, Empty, Full, NextSlot
    <3> QED
      BY <1>5, <2>1, <3>2 DEF Tx_interrupt, TransmitterOn
  <2>2. CASE ~Empty
    <3>1. NextSlot(tx_out) \in 0 .. BufSize - 1
      BY NextSlotMoves
    <3> QED
      BY <1>5, <2>2, <3>1 DEF Tx_interrupt, TransmitterOn
  <2> QED
    BY <2>1, <2>2
<1>6. ASSUME NEW size \in Lengths, SendMessage(size)
      PROVE  IInv'
  BY <1>6 DEF SendMessage, TransmitterOn
<1>7. CASE LoseByte
  BY <1>7, RingUntouched DEF LoseByte, boardVars
<1>8. CASE Host
  <2>1. UNCHANGED boardVars
    BY <1>8 DEF Host, Discard, DiscardEnd, ReadUnknown, Read
  <2> QED
    BY <2>1, RingUntouched DEF boardVars
<1>9. CASE UNCHANGED vars
  BY <1>9, RingUntouched DEF vars, boardVars
<1> QED
  BY <1>1, <1>2, <1>3, <1>4, <1>5, <1>6, <1>7, <1>8, <1>9 DEF Next, Sender

\* TransmitterOn of SerialToHost: Tx_interrupt switches itself off, and
\* send_buffer switches it on, without ever leaving bytes behind with it off.
THEOREM TransmitterStaysOn == Spec => []TransmitterOn
<1>1. IInv => TransmitterOn
  BY DEF IInv
<1> QED
  BY <1>1, InitOn, NextOn, PTL DEF Spec

-----------------------------------------------------------------------------
(* The ring as a sequence, without the remainder.                          *)

Slots == 0 .. BufSize - 1
CountOf(a, o) == (a + BufSize - o) % BufSize
RingOf(r, a, o) == [k \in 1 .. CountOf(a, o) |-> r[(o + k - 1) % BufSize]]
SlotOf(o, k) == IF o + k - 1 < BufSize THEN o + k - 1 ELSE o + k - 1 - BufSize

LEMMA ModSmall == ASSUME NEW x \in Nat, x < BufSize PROVE x % BufSize = x
  BY BufSizeAssumption

LEMMA ModOnce ==
  ASSUME NEW x \in Nat, x >= BufSize, x < 2 * BufSize
  PROVE  x % BufSize = x - BufSize
  BY BufSizeAssumption

LEMMA NextSlotIs ==
  ASSUME NEW x \in Slots
  PROVE  NextSlot(x) \in Slots /\ NextSlot(x) = IF x = BufSize - 1 THEN 0 ELSE x + 1
<1>1. CASE x = BufSize - 1
  BY <1>1, BufSizeAssumption, ModOnce DEF Slots, NextSlot
<1>2. CASE x # BufSize - 1
  BY <1>2, BufSizeAssumption, ModSmall DEF Slots, NextSlot
<1> QED BY <1>1, <1>2

\* The number of bytes between two slots.
LEMMA CountIs ==
  ASSUME NEW a \in Slots, NEW o \in Slots
  PROVE  /\ CountOf(a, o) = IF a >= o THEN a - o ELSE a + BufSize - o
         /\ CountOf(a, o) \in 0 .. BufSize - 1
<1>1. CASE a >= o
  <2>1. a + BufSize - o \in Nat /\ a + BufSize - o >= BufSize /\ a + BufSize - o < 2 * BufSize
    BY <1>1, BufSizeAssumption DEF Slots
  <2>2. CountOf(a, o) = a - o
    BY <1>1, <2>1, ModOnce, BufSizeAssumption DEF Slots, CountOf
  <2> QED BY <1>1, <2>2, BufSizeAssumption DEF Slots
<1>2. CASE a < o
  <2>1. a + BufSize - o \in Nat /\ a + BufSize - o < BufSize
    BY <1>2, BufSizeAssumption DEF Slots
  <2>2. CountOf(a, o) = a + BufSize - o
    BY <1>2, <2>1, ModSmall, BufSizeAssumption DEF Slots, CountOf
  <2> QED BY <1>2, <2>1, <2>2, BufSizeAssumption DEF Slots
<1> QED BY <1>1, <1>2, BufSizeAssumption DEF Slots

\* The slot of the k-th oldest byte, when the oldest is in slot o.
LEMMA SlotOfIs ==
  ASSUME NEW o \in Slots, NEW k \in 1 .. BufSize
  PROVE  (o + k - 1) % BufSize = SlotOf(o, k) /\ SlotOf(o, k) \in Slots
<1>1. o + k - 1 \in Nat /\ o + k - 1 < 2 * BufSize
  BY BufSizeAssumption DEF Slots
<1>2. CASE o + k - 1 < BufSize
  <2>1. (o + k - 1) % BufSize = o + k - 1
    BY <1>1, <1>2, ModSmall
  <2> QED BY <1>1, <1>2, <2>1, BufSizeAssumption DEF SlotOf, Slots
<1>3. CASE o + k - 1 >= BufSize
  <2>1. PICK x \in Nat : x = o + k - 1
    BY <1>1
  <2>2. x >= BufSize /\ x < 2 * BufSize
    BY <2>1, <1>1, <1>3, BufSizeAssumption
  <2>3. x % BufSize = x - BufSize
    BY <2>1, <2>2, ModOnce
  <2> QED BY <2>1, <2>2, <2>3, <1>3, BufSizeAssumption DEF SlotOf, Slots
<1> QED BY <1>1, <1>2, <1>3, BufSizeAssumption DEF Slots

LEMMA RingOfIs ==
  ASSUME NEW S, NEW r \in [Slots -> S], NEW a \in Slots, NEW o \in Slots
  PROVE  /\ RingOf(r, a, o) \in Seq(S)
         /\ Len(RingOf(r, a, o)) = CountOf(a, o)
         /\ \A k \in 1 .. CountOf(a, o) : RingOf(r, a, o)[k] = r[SlotOf(o, k)]
<1>1. CountOf(a, o) \in Nat /\ 1 .. CountOf(a, o) \subseteq 1 .. BufSize
  BY CountIs, BufSizeAssumption
<1>2. \A k \in 1 .. CountOf(a, o) :
         (o + k - 1) % BufSize = SlotOf(o, k) /\ r[SlotOf(o, k)] \in S
  BY <1>1, SlotOfIs
<1>3. RingOf(r, a, o) = [k \in 1 .. CountOf(a, o) |-> r[SlotOf(o, k)]]
  BY <1>2 DEF RingOf
<1> QED BY <1>1, <1>2, <1>3

\* send_buffer appends to a ring that is not full.
LEMMA PutAppends ==
  ASSUME NEW S, NEW r \in [Slots -> S], NEW a \in Slots, NEW o \in Slots,
         NEW b \in S, NextSlot(a) # o
  PROVE  RingOf([r EXCEPT ![a] = b], NextSlot(a), o) = Append(RingOf(r, a, o), b)
<1> DEFINE w == [r EXCEPT ![a] = b]
           c == CountOf(a, o)
           before == RingOf(r, a, o)
           after == RingOf(w, NextSlot(a), o)
<1>1. NextSlot(a) \in Slots /\ NextSlot(a) = IF a = BufSize - 1 THEN 0 ELSE a + 1
  BY NextSlotIs
<1>2. c = (IF a >= o THEN a - o ELSE a + BufSize - o) /\ c \in 0 .. BufSize - 1
  BY CountIs
<1> HIDE DEF c
<1>3. c \in Nat /\ c < BufSize - 1 /\ CountOf(NextSlot(a), o) = c + 1
  <2>1. CountOf(NextSlot(a), o) =
          IF NextSlot(a) >= o THEN NextSlot(a) - o ELSE NextSlot(a) + BufSize - o
    BY <1>1, CountIs
  <2> QED BY <1>1, <1>2, <2>1, BufSizeAssumption DEF Slots
<1>4. SlotOf(o, c + 1) = a
  BY <1>3, <1>2, BufSizeAssumption DEF SlotOf, Slots
<1>5. \A k \in 1 .. c : SlotOf(o, k) # a /\ SlotOf(o, k) \in Slots
  BY <1>3, <1>2, BufSizeAssumption DEF SlotOf, Slots
<1>6. w \in [Slots -> S] /\ w[a] = b /\ \A s \in Slots \ {a} : w[s] = r[s]
  OBVIOUS
<1>7. before \in Seq(S) /\ Len(before) = c /\ \A k \in 1 .. c : before[k] = r[SlotOf(o, k)]
  BY RingOfIs DEF c
<1>8. /\ after \in Seq(S) /\ Len(after) = c + 1
      /\ \A k \in 1 .. c + 1 : after[k] = w[SlotOf(o, k)]
  <2> HIDE DEF w
  <2>1. /\ after \in Seq(S) /\ Len(after) = CountOf(NextSlot(a), o)
        /\ \A k \in 1 .. CountOf(NextSlot(a), o) : after[k] = w[SlotOf(o, k)]
    <3>1. w \in [Slots -> S] /\ NextSlot(a) \in Slots
      BY <1>1, <1>6
    <3> QED BY <3>1, RingOfIs
  <2> QED BY <1>3, <2>1
<1> HIDE DEF w, before, after
<1>9. Append(before, b) \in Seq(S) /\ Len(Append(before, b)) = c + 1
  BY <1>7
<1>10. ASSUME NEW k \in 1 .. c + 1 PROVE after[k] = Append(before, b)[k]
  <2>1. CASE k = c + 1
    <3>1. after[k] = b
      BY <1>3, <1>4, <1>6, <1>8, <2>1
    <3>2. Append(before, b)[k] = b
      BY <1>7, <2>1, AppendProperties
    <3> QED BY <3>1, <3>2
  <2>2. CASE k \in 1 .. c
    BY <1>3, <1>5, <1>6, <1>7, <1>8, <2>2
  <2>3. k = c + 1 \/ k \in 1 .. c
    BY <1>3
  <2> QED BY <2>1, <2>2, <2>3
<1>11. after = Append(before, b)
  BY <1>3, <1>8, <1>9, <1>10, SeqEqual
<1> QED BY <1>11 DEF w, before, after

\* Tx_interrupt takes the head of a ring that is not empty.
LEMMA TakeIsHead ==
  ASSUME NEW S, NEW r \in [Slots -> S], NEW a \in Slots, NEW o \in Slots, a # o
  PROVE  /\ RingOf(r, a, o) # <<>>
         /\ r[o] = Head(RingOf(r, a, o))
         /\ RingOf(r, a, NextSlot(o)) = Tail(RingOf(r, a, o))
<1> DEFINE c == CountOf(a, o)
           before == RingOf(r, a, o)
           after == RingOf(r, a, NextSlot(o))
<1>1. NextSlot(o) \in Slots /\ NextSlot(o) = IF o = BufSize - 1 THEN 0 ELSE o + 1
  BY NextSlotIs
<1>2. c = (IF a >= o THEN a - o ELSE a + BufSize - o) /\ c \in 0 .. BufSize - 1
  BY CountIs
<1> HIDE DEF c
<1>3. c \in Nat /\ c >= 1 /\ c < BufSize /\ CountOf(a, NextSlot(o)) = c - 1
  <2>1. CountOf(a, NextSlot(o)) =
          IF a >= NextSlot(o) THEN a - NextSlot(o) ELSE a + BufSize - NextSlot(o)
    BY <1>1, CountIs
  <2> QED BY <1>1, <1>2, <2>1, BufSizeAssumption DEF Slots
<1>4. SlotOf(o, 1) = o /\ \A k \in 1 .. c - 1 : SlotOf(NextSlot(o), k) = SlotOf(o, k + 1)
  BY <1>1, <1>3, BufSizeAssumption DEF SlotOf, Slots
<1>5. before \in Seq(S) /\ Len(before) = c /\ \A k \in 1 .. c : before[k] = r[SlotOf(o, k)]
  BY RingOfIs DEF c
<1>6. /\ after \in Seq(S) /\ Len(after) = c - 1
      /\ \A k \in 1 .. c - 1 : after[k] = r[SlotOf(NextSlot(o), k)]
  <2>1. /\ after \in Seq(S) /\ Len(after) = CountOf(a, NextSlot(o))
        /\ \A k \in 1 .. CountOf(a, NextSlot(o)) : after[k] = r[SlotOf(NextSlot(o), k)]
    BY <1>1, RingOfIs
  <2> QED BY <1>3, <2>1
<1> HIDE DEF before, after
<1>7. before # <<>> /\ Head(before) = before[1]
  BY <1>3, <1>5
<1>8. /\ Tail(before) \in Seq(S) /\ Len(Tail(before)) = c - 1
      /\ \A k \in 1 .. c - 1 : Tail(before)[k] = before[k + 1]
  BY <1>3, <1>5, <1>7, HeadTailProperties
<1>9. ASSUME NEW k \in 1 .. c - 1 PROVE after[k] = Tail(before)[k]
  <2>1. after[k] = r[SlotOf(o, k + 1)]
    BY <1>4, <1>6
  <2>2. Tail(before)[k] = r[SlotOf(o, k + 1)]
    BY <1>3, <1>5, <1>8
  <2> QED BY <2>1, <2>2
<1>10. after = Tail(before)
  BY <1>3, <1>6, <1>8, <1>9, SeqEqual
<1> QED BY <1>3, <1>4, <1>5, <1>7, <1>10 DEF before, after

-----------------------------------------------------------------------------
(* Sequences of bytes that follow each other.                              *)

\* Concatenation is associative, as a quantified fact.
LEMMA Regroup ==
  ASSUME NEW S
  PROVE  \A s, t, u \in Seq(S) : s \o (t \o u) = (s \o t) \o u
BY ConcatAssociative

\* The head of the second sequence becomes the last of the first.
LEMMA HeadMoves ==
  ASSUME NEW S, NEW s \in Seq(S), NEW t \in Seq(S), NEW u \in Seq(S), t # <<>>
  PROVE  /\ Head(t) \in S /\ Tail(t) \in Seq(S) /\ Append(s, Head(t)) \in Seq(S)
         /\ s \o (t \o u) = Append(s, Head(t)) \o (Tail(t) \o u)
<1>1. Head(t) \in S /\ Tail(t) \in Seq(S) /\ Append(s, Head(t)) \in Seq(S)
  BY HeadTailProperties, AppendProperties
<1>2. t = <<Head(t)>> \o Tail(t) /\ <<Head(t)>> \in Seq(S)
  BY <1>1
<1>3. Append(s, Head(t)) = s \o <<Head(t)>>
  BY <1>1, AppendIsConcat
<1>4. Tail(t) \o u \in Seq(S) /\ t \o u \in Seq(S)
  BY <1>1, ConcatProperties
<1> DEFINE h == <<Head(t)>>
           rest == Tail(t)
<1>5. h \in Seq(S) /\ rest \in Seq(S) /\ t = h \o rest
  BY <1>1, <1>2
<1>9. rest \o u \in Seq(S)
  BY <1>4
<1> HIDE DEF h, rest
<1>6. t \o u = h \o (rest \o u)
  BY <1>5, Regroup
<1>7. s \o (h \o (rest \o u)) = (s \o h) \o (rest \o u)
  <2> DEFINE x == rest \o u
  <2>1. x \in Seq(S)
    BY <1>9
  <2> HIDE DEF x
  <2>2. s \o (h \o x) = (s \o h) \o x
    <3>1. \A a, b, c \in Seq(S) : a \o (b \o c) = (a \o b) \o c
      BY Regroup
    <3>2. s \in Seq(S) /\ h \in Seq(S) /\ x \in Seq(S)
      BY <1>5, <2>1
    <3> QED BY <3>1, <3>2
  <2> QED BY <2>2 DEF x
<1>8. Append(s, Head(t)) \o (Tail(t) \o u) = (s \o h) \o (rest \o u)
  BY <1>3 DEF h, rest
<1> QED BY <1>1, <1>6, <1>7, <1>8

\* What is appended to the last of three sequences is appended to them all.
LEMMA AppendOutside ==
  ASSUME NEW S, NEW s \in Seq(S), NEW t \in Seq(S), NEW u \in Seq(S), NEW e \in S
  PROVE  s \o (t \o Append(u, e)) = Append(s \o (t \o u), e)
<1>1. <<e>> \in Seq(S) /\ t \o u \in Seq(S) /\ s \o (t \o u) \in Seq(S)
  BY ConcatProperties
<1>2. Append(u, e) = u \o <<e>> /\ Append(s \o (t \o u), e) = (s \o (t \o u)) \o <<e>>
  BY <1>1, AppendIsConcat
<1> DEFINE x == <<e>>
<1>3. x \in Seq(S)
  BY <1>1
<1> HIDE DEF x
<1>4. t \o (u \o x) = (t \o u) \o x
  BY <1>3, ConcatAssociative
<1>5. s \o ((t \o u) \o x) = (s \o (t \o u)) \o x
  BY <1>1, <1>3, ConcatAssociative
<1> QED BY <1>2, <1>4, <1>5 DEF x

ByteType == [message : Nat, place : Nat, size : Nat]
Chain(s) == \A k \in 1 .. Len(s) - 1 : Follows(s[k + 1], s[k])

LEMMA ChainAppend ==
  ASSUME NEW s \in Seq(ByteType), NEW e \in ByteType, Chain(s),
         s # <<>> => Follows(e, s[Len(s)])
  PROVE  Chain(Append(s, e))
<1>1. Len(s) \in Nat /\ Len(Append(s, e)) = Len(s) + 1
      /\ (\A k \in 1 .. Len(s) : Append(s, e)[k] = s[k]) /\ Append(s, e)[Len(s) + 1] = e
  BY AppendProperties, LenProperties
<1> DEFINE a == Append(s, e)
<1> HIDE DEF a
<1>2. ASSUME NEW k \in 1 .. Len(s) PROVE Follows(a[k + 1], a[k])
  <2>1. CASE k = Len(s)
    <3>1. s # <<>>
      BY <2>1, <1>1
    <3> QED BY <3>1, <2>1, <1>1 DEF a
  <2>2. CASE k # Len(s)
    <3>1. k \in 1 .. Len(s) - 1 /\ k + 1 \in 1 .. Len(s)
      BY <2>2, <1>1
    <3> QED BY <3>1, <1>1 DEF a, Chain
  <2> QED BY <2>1, <2>2
<1> QED BY <1>1, <1>2 DEF a, Chain

\* A chain cut in two: the parts, and what is where they meet.
LEMMA ChainCut ==
  ASSUME NEW s \in Seq(ByteType), NEW t \in Seq(ByteType), Chain(s \o t)
  PROVE  /\ Chain(t)
         /\ s # <<>> /\ t # <<>> => Follows(t[1], s[Len(s)])
         /\ t # <<>> => t[Len(t)] = (s \o t)[Len(s \o t)]
         /\ t = <<>> => s \o t = s
         /\ s # <<>> => s \o t # <<>> /\ (s \o t)[1] = s[1]
<1> DEFINE c == s \o t
<1>1. /\ c \in Seq(ByteType) /\ Len(s) \in Nat /\ Len(t) \in Nat /\ Len(c) = Len(s) + Len(t)
      /\ \A k \in 1 .. Len(s) + Len(t) : c[k] = IF k <= Len(s) THEN s[k] ELSE t[k - Len(s)]
  BY ConcatProperties, LenProperties
<1>2. (s # <<>> => Len(s) >= 1) /\ (t # <<>> => Len(t) >= 1)
  BY EmptySeq
<1>3. Chain(c)
  OBVIOUS
<1> HIDE DEF c
<1>4. Chain(t)
  <2> SUFFICES ASSUME NEW k \in 1 .. Len(t) - 1 PROVE Follows(t[k + 1], t[k])
    BY DEF Chain
  <2> DEFINE p == Len(s) + k
  <2>1. p \in 1 .. Len(c) - 1 /\ p \in 1 .. Len(s) + Len(t) /\ p + 1 \in 1 .. Len(s) + Len(t)
        /\ ~(p <= Len(s)) /\ ~(p + 1 <= Len(s)) /\ p - Len(s) = k /\ p + 1 - Len(s) = k + 1
    BY <1>1
  <2> HIDE DEF p
  <2>2. c[p] = t[k] /\ c[p + 1] = t[k + 1]
    <3>1. c[p] = t[p - Len(s)]
      BY <2>1, <1>1
    <3>2. c[p + 1] = t[p + 1 - Len(s)]
      BY <2>1, <1>1
    <3> QED BY <3>1, <3>2, <2>1
  <2> QED BY <2>1, <2>2, <1>3 DEF Chain
<1>5. ASSUME s # <<>>, t # <<>> PROVE Follows(t[1], s[Len(s)])
  <2> DEFINE p == Len(s)
  <2>2. /\ p \in 1 .. Len(c) - 1 /\ p \in 1 .. Len(s) + Len(t) /\ p + 1 \in 1 .. Len(s) + Len(t)
        /\ p <= Len(s) /\ ~(p + 1 <= Len(s)) /\ p + 1 - Len(s) = 1
    BY <1>1, <1>2, <1>5
  <2>1. p \in 1 .. Len(c) - 1 /\ c[p] = s[p] /\ c[p + 1] = t[1]
    BY <1>1, <2>2
  <2> QED BY <2>1, <1>3 DEF Chain
<1>6. ASSUME t # <<>> PROVE t[Len(t)] = c[Len(c)]
  BY <1>1, <1>2, <1>6
<1>7. t = <<>> => c = s
  BY ConcatEmptySeq DEF c
<1>8. ASSUME s # <<>> PROVE c # <<>> /\ c[1] = s[1]
  BY <1>1, <1>2, <1>8
<1> QED BY <1>4, <1>5, <1>6, <1>7, <1>8 DEF c

-----------------------------------------------------------------------------
(* The stream of bytes from the host's buffer to the ring.                 *)

Stream == msg_buf \o (wire \o Ring)

Types ==
    /\ tx_in \in Slots /\ tx_out \in Slots
    /\ tx_buffer \in [Slots -> ByteType]
    /\ wire \in Seq(ByteType) /\ msg_buf \in Seq(ByteType)
    /\ sent \in Nat /\ n \in Lengths /\ i \in 0 .. n /\ lost \in Nat

\* send_buffer has more to put until it returns; the host keeps bytes only
\* while it reads.
Progress ==
    /\ sender = "idle" => i = n
    /\ sender # "idle" => i < n
    /\ host # "read" => msg_buf = <<>>

\* What the last byte of the stream is: the one put last, or the end of the
\* message before.
Ends(b) == IF i > 0 THEN b = Byte(sent, i - 1, n)
                    ELSE b.message + 1 = sent /\ b.place + 1 >= b.size

\* The first byte the host reads starts a message, and so will the next one
\* to be put when there is none.
Starts == host = "read" => IF Stream = <<>> THEN i \in {0, n} ELSE Stream[1].place = 0

\* What the host has read of a message is the beginning of one of len bytes.
Partial ==
    msg_buf # <<>> =>
      /\ len \in Nat /\ Len(msg_buf) < len
      /\ \A k \in 1 .. Len(msg_buf) : msg_buf[k] = Byte(msg_buf[1].message, k - 1, len)

Flowing ==
    /\ Chain(Stream)
    /\ Stream # <<>> => Ends(Stream[Len(Stream)])
    /\ Starts
    /\ Partial

SInv == Types /\ Progress /\ (lost = 0 => Flowing)

LEMMA StreamIs ==
  ASSUME Types
  PROVE  /\ Ring = RingOf(tx_buffer, tx_in, tx_out)
         /\ Ring \in Seq(ByteType) /\ wire \o Ring \in Seq(ByteType) /\ Stream \in Seq(ByteType)
<1>1. Ring = RingOf(tx_buffer, tx_in, tx_out)
  BY DEF Ring, RingOf, CountOf
<1>2. Ring \in Seq(ByteType)
  BY <1>1, RingOfIs DEF Types
<1>3. wire \o Ring \in Seq(ByteType)
  BY <1>2, ConcatProperties DEF Types
<1> DEFINE f == wire \o Ring
<1>4. f \in Seq(ByteType)
  BY <1>3
<1> HIDE DEF f
<1>5. msg_buf \o f \in Seq(ByteType)
  BY <1>4, ConcatProperties DEF Types
<1> QED BY <1>1, <1>2, <1>3, <1>5 DEF f, Stream

LEMMA LengthIs == ASSUME NEW x \in Lengths PROVE x \in Nat /\ x >= 2
  BY LengthAssumption

LEMMA ByteIs ==
  ASSUME NEW m \in Nat, NEW k \in Nat, NEW size \in Nat
  PROVE  /\ Byte(m, k, size) \in ByteType
         /\ Byte(m, k, size).message = m
         /\ Byte(m, k, size).place = k /\ Byte(m, k, size).size = size
  BY DEF Byte, ByteType

\* With nothing in the buffer, on the wire and in the ring, the stream is empty.
LEMMA QuietIsEmpty ==
  ASSUME Types, msg_buf = <<>>, wire = <<>>, tx_in = tx_out
  PROVE  Stream = <<>>
<1>1. Ring = RingOf(tx_buffer, tx_in, tx_out) /\ Ring \in Seq(ByteType)
  BY StreamIs
<1>2. tx_buffer \in [Slots -> ByteType] /\ tx_in \in Slots /\ tx_out \in Slots
  BY DEF Types
<1>3. Len(Ring) = CountOf(tx_in, tx_out)
  BY <1>1, <1>2, RingOfIs
<1>4. CountOf(tx_in, tx_out) = 0
  <2>1. CountOf(tx_in, tx_out) = IF tx_in >= tx_out THEN tx_in - tx_out
                                                    ELSE tx_in + BufSize - tx_out
    BY <1>2, CountIs
  <2> QED BY <2>1, <1>2, BufSizeAssumption DEF Slots
<1>5. Ring = <<>>
  BY <1>1, <1>3, <1>4, EmptySeq
<1>6. <<>> \o (<<>> \o <<>>) = <<>>
  BY ConcatEmptySeq, EmptySeq
<1> QED BY <1>5, <1>6 DEF Stream

LEMMA InitFlowing == Init => SInv
<1> SUFFICES ASSUME Init PROVE SInv
  OBVIOUS
<1>1. 0 \in Slots /\ NoByte \in ByteType
  BY BufSizeAssumption, ByteIs DEF Slots, NoByte
<1>2. Types
  <2>1. tx_buffer \in [Slots -> ByteType]
    BY <1>1 DEF Init, Slots
  <2>2. n \in Lengths /\ i \in 0 .. n
    BY LengthIs DEF Init
  <2>3. wire \in Seq(ByteType) /\ msg_buf \in Seq(ByteType)
    BY EmptySeq DEF Init
  <2> QED BY <1>1, <2>1, <2>2, <2>3 DEF Init, Types
<1>3. Progress
  BY DEF Init, Progress
<1>4. Stream = <<>>
  BY <1>2, QuietIsEmpty DEF Init
<1>5. Chain(Stream)
  BY <1>4 DEF Chain
<1>6. Starts /\ Partial
  BY DEF Init, Starts, Partial
<1> QED BY <1>2, <1>3, <1>4, <1>5, <1>6 DEF SInv, Flowing

\* One byte put is one byte more at the end of the stream.
LEMMA PutExtends ==
  ASSUME Types, PutByte
  PROVE  /\ Byte(sent, i, n) \in ByteType
         /\ Stream' = Append(Stream, Byte(sent, i, n))
         /\ tx_in' \in Slots /\ tx_buffer' \in [Slots -> ByteType]
<1>1. Byte(sent, i, n) \in ByteType
  BY ByteIs, LengthIs DEF Types
<1>2. tx_in' \in Slots
  BY NextSlotIs DEF Types, PutByte
<1>3. Ring' = Append(Ring, Byte(sent, i, n))
  <2>1. Ring' = RingOf([tx_buffer EXCEPT ![tx_in] = Byte(sent, i, n)], NextSlot(tx_in), tx_out)
    BY DEF Ring, RingOf, CountOf, PutByte
  <2>2. NextSlot(tx_in) # tx_out
    BY DEF PutByte, Full
  <2>3. tx_buffer \in [Slots -> ByteType] /\ tx_in \in Slots /\ tx_out \in Slots
    BY DEF Types
  <2>4. RingOf([tx_buffer EXCEPT ![tx_in] = Byte(sent, i, n)], NextSlot(tx_in), tx_out)
          = Append(RingOf(tx_buffer, tx_in, tx_out), Byte(sent, i, n))
    BY <1>1, <2>2, <2>3, PutAppends
  <2> QED BY <2>1, <2>4, StreamIs
<1>4. Stream' = msg_buf \o (wire \o Append(Ring, Byte(sent, i, n)))
  BY <1>3 DEF Stream, PutByte, hostVars
<1>5. Stream' = Append(Stream, Byte(sent, i, n))
  <2>1. msg_buf \in Seq(ByteType) /\ wire \in Seq(ByteType) /\ Ring \in Seq(ByteType)
    BY StreamIs DEF Types
  <2>2. msg_buf \o (wire \o Append(Ring, Byte(sent, i, n)))
          = Append(msg_buf \o (wire \o Ring), Byte(sent, i, n))
    BY <1>1, <2>1, AppendOutside
  <2> QED BY <1>4, <2>2 DEF Stream
<1>6. tx_buffer' \in [Slots -> ByteType]
  BY <1>1 DEF PutByte, Types
<1> QED BY <1>1, <1>2, <1>5, <1>6

\* A byte goes from the ring to the wire, if there is one.
LEMMA TransmitKeeps ==
  ASSUME Types, Tx_interrupt
  PROVE  Stream' = Stream /\ tx_out' \in Slots /\ wire' \in Seq(ByteType)
<1>1. CASE Empty
  BY <1>1 DEF Tx_interrupt, Types, Stream, Ring, hostVars
<1>2. CASE ~Empty
  <2>1. tx_out' = NextSlot(tx_out) /\ tx_out' \in Slots
    BY <1>2, NextSlotIs DEF Tx_interrupt, Types
  <2>2. Ring' = RingOf(tx_buffer, tx_in, NextSlot(tx_out))
    BY <2>1 DEF Ring, RingOf, CountOf, Tx_interrupt
  <2>3. Ring # <<>> /\ tx_buffer[tx_out] = Head(Ring) /\ Ring' = Tail(Ring)
    BY <1>2, <2>2, TakeIsHead, StreamIs DEF Types, Empty
  <2>4. /\ Append(wire, Head(Ring)) \in Seq(ByteType) /\ Tail(Ring) \in Seq(ByteType)
        /\ wire \o (Ring \o <<>>) = Append(wire, Head(Ring)) \o (Tail(Ring) \o <<>>)
    BY <2>3, StreamIs, EmptySeq, HeadMoves DEF Types
  <2>5. Ring \o <<>> = Ring /\ Tail(Ring) \o <<>> = Tail(Ring)
    BY <2>4, StreamIs, ConcatEmptySeq
  <2>6. wire' = Append(wire, Head(Ring))
    BY <1>2, <2>3 DEF Tx_interrupt
  <2> QED BY <2>1, <2>3, <2>4, <2>5, <2>6 DEF Stream, Tx_interrupt, hostVars
<1> QED BY <1>1, <1>2

\* The host takes a byte: it is the first after those it has.
LEMMA TakenFromStream ==
  ASSUME Types, wire # <<>>
  PROVE  /\ Head(wire) \in ByteType /\ Tail(wire) \in Seq(ByteType)
         /\ Append(msg_buf, Head(wire)) \in Seq(ByteType) /\ Tail(wire) \o Ring \in Seq(ByteType)
         /\ Stream = Append(msg_buf, Head(wire)) \o (Tail(wire) \o Ring)
<1>1. /\ Head(wire) \in ByteType /\ Tail(wire) \in Seq(ByteType)
      /\ Append(msg_buf, Head(wire)) \in Seq(ByteType)
      /\ Stream = Append(msg_buf, Head(wire)) \o (Tail(wire) \o Ring)
  BY HeadMoves, StreamIs DEF Types, Stream
<1>2. Tail(wire) \o Ring \in Seq(ByteType)
  BY <1>1, StreamIs, ConcatProperties
<1> QED BY <1>1, <1>2

\* What holds of the rest of the stream when the host has emptied its buffer.
LEMMA Dropped ==
  ASSUME Types, Flowing, wire # <<>>, wire' = Tail(wire), msg_buf' = <<>>, UNCHANGED boardVars
  PROVE  /\ Chain(Stream)'
         /\ Stream' # <<>> => Ends(Stream[Len(Stream)])' /\ Follows(Stream'[1], Head(wire))
         /\ Stream' = <<>> => Ends(Head(wire))
         /\ msg_buf = <<>> => Stream # <<>> /\ Stream[1] = Head(wire)
<1> DEFINE s == Append(msg_buf, Head(wire))
           t == Tail(wire) \o Ring
<1>1. /\ Head(wire) \in ByteType /\ s \in Seq(ByteType) /\ t \in Seq(ByteType)
      /\ Stream = s \o t
  BY TakenFromStream
<1>2. Stream' = t
  <2>1. Stream' = <<>> \o t
    BY DEF Stream, Ring, boardVars
  <2> HIDE DEF t
  <2> QED BY <1>1, <2>1, ConcatEmptySeq
<1>3. /\ s # <<>> /\ s[Len(s)] = Head(wire)
      /\ msg_buf = <<>> => s[1] = Head(wire)
  <2>1. /\ msg_buf \in Seq(ByteType) /\ Len(msg_buf) \in Nat
        /\ s # <<>> /\ Len(s) = Len(msg_buf) + 1 /\ s[Len(msg_buf) + 1] = Head(wire)
    BY <1>1, AppendProperties, LenProperties DEF Types
  <2>2. msg_buf = <<>> => Len(msg_buf) = 0
    BY EmptySeq
  <2> QED BY <2>1, <2>2
<1> HIDE DEF s, t
<1>4. Chain(s \o t)
  BY <1>1 DEF Flowing
<1>5. /\ Chain(t)
      /\ t # <<>> => Follows(t[1], Head(wire))
      /\ t # <<>> => t[Len(t)] = Stream[Len(Stream)]
      /\ t = <<>> => Stream = s
      /\ Stream # <<>> /\ Stream[1] = s[1]
  BY <1>1, <1>3, <1>4, ChainCut
<1>6. Ends(Stream[Len(Stream)])
  BY <1>5 DEF Flowing
<1>7. t # <<>> => Ends(Stream[Len(Stream)])'
  BY <1>2, <1>5, <1>6 DEF Ends, boardVars
<1>8. t = <<>> => Ends(Head(wire))
  BY <1>3, <1>5, <1>6
<1>9. Chain(Stream)'
  BY <1>2, <1>5 DEF Chain
<1> QED BY <1>2, <1>3, <1>5, <1>7, <1>8, <1>9

LEMMA PutFlows == ASSUME SInv, PutByte PROVE SInv'
<1> USE DEF SInv
<1> DEFINE b == Byte(sent, i, n)
<1>1. /\ b \in ByteType /\ Stream' = Append(Stream, b)
      /\ tx_in' \in Slots /\ tx_buffer' \in [Slots -> ByteType]
  BY PutExtends
<1>2. /\ sent \in Nat /\ n \in Nat /\ i \in Nat /\ i < n /\ i' = i + 1 /\ n' = n /\ sent' = sent
      /\ sender = "put"
  BY LengthIs DEF Types, Progress, PutByte
<1>3. Types'
  BY <1>1, <1>2 DEF Types, PutByte, hostVars
<1>4. Progress'
  BY <1>2 DEF Progress, PutByte, hostVars
<1>5. ASSUME lost' = 0 PROVE Flowing'
  <2>1. lost = 0 /\ Flowing
    BY <1>5 DEF PutByte
  <2>2. b.message = sent /\ b.place = i /\ b.size = n
    BY <1>2, ByteIs
  <2>3. Stream \in Seq(ByteType) /\ Len(Stream) \in Nat
    BY StreamIs, LenProperties
  <2> DEFINE z == Stream[Len(Stream)]
  <2>4. ASSUME Stream # <<>> PROVE Follows(b, z)
    <3>1. z \in ByteType /\ Ends(z)
      <4>1. Len(Stream) \in 1 .. Len(Stream)
        BY <2>3, <2>4, EmptySeq
      <4> QED BY <2>1, <2>3, <2>4, <4>1, ElementOfSeq DEF Flowing
    <3> HIDE DEF z
    <3>2. CASE i > 0
      <4>1. z = Byte(sent, i - 1, n) /\ i - 1 \in Nat
        BY <3>1, <3>2, <1>2 DEF Ends
      <4>2. z.message = sent /\ z.place = i - 1 /\ z.size = n
        BY <4>1, <1>2, ByteIs
      <4> QED BY <4>2, <1>2 DEF Follows
    <3>3. CASE ~(i > 0)
      <4>1. z.message + 1 = sent /\ z.place + 1 >= z.size /\ i = 0
        BY <3>1, <3>3, <1>2 DEF Ends
      <4>2. z.place \in Nat /\ z.size \in Nat
        BY <3>1 DEF ByteType
      <4>3. ~(z.place + 1 < z.size)
        BY <4>1, <4>2
      <4> QED BY <4>1, <4>3, <2>2 DEF Follows
    <3> QED BY <3>2, <3>3
  <2> HIDE DEF b, z
  <2>5. Chain(Stream)'
    <3>1. Chain(Append(Stream, b))
      BY <2>1, <2>3, <2>4, <1>1, ChainAppend DEF Flowing, z
    <3> QED BY <3>1, <1>1 DEF Chain
  <2>6. /\ Stream' # <<>> /\ Stream'[Len(Stream')] = b
        /\ Stream'[1] = IF Stream = <<>> THEN b ELSE Stream[1]
    <3>1. /\ Append(Stream, b) # <<>> /\ Len(Append(Stream, b)) = Len(Stream) + 1
          /\ \A k \in 1 .. Len(Stream) : Append(Stream, b)[k] = Stream[k]
          /\ Append(Stream, b)[Len(Stream) + 1] = b
      BY <2>3, <1>1, AppendProperties
    <3>2. Stream = <<>> => Len(Stream) = 0
      BY EmptySeq
    <3>3. Stream # <<>> => 1 \in 1 .. Len(Stream)
      BY <2>3, EmptySeq
    <3> QED BY <3>1, <3>2, <3>3, <1>1
  <2>7. Ends(Stream[Len(Stream)])'
    <3>1. i' > 0 /\ i' - 1 = i
      BY <1>2
    <3> QED BY <3>1, <2>6, <1>2 DEF Ends, b
  <2>8. Starts'
    <3> SUFFICES ASSUME host' = "read" PROVE Stream'[1].place = 0
      BY <2>6 DEF Starts
    <3>1. CASE Stream = <<>>
      <4>1. host = "read"
        BY DEF PutByte, hostVars
      <4>2. i \in {0, n}
        BY <2>1, <3>1, <4>1 DEF Flowing, Starts
      <4>3. i = 0
        BY <4>2, <1>2
      <4> QED BY <4>3, <3>1, <2>6, <2>2
    <3>2. CASE Stream # <<>>
      BY <3>2, <2>1, <2>6 DEF Flowing, Starts, PutByte, hostVars
    <3> QED BY <3>1, <3>2
  <2>9. Partial'
    BY <2>1 DEF Flowing, Partial, PutByte, hostVars
  <2> QED BY <2>5, <2>7, <2>8, <2>9 DEF Flowing
<1> QED BY <1>3, <1>4, <1>5

LEMMA SendFlows == ASSUME SInv, NEW size \in Lengths, SendMessage(size) PROVE SInv'
<1> USE DEF SInv
<1>1. /\ sent \in Nat /\ n \in Nat /\ n >= 2 /\ i = n /\ sender = "idle"
      /\ sent' = sent + 1 /\ n' = size /\ i' = 0 /\ sender' = "put" /\ size \in Nat /\ size >= 2
  BY LengthIs DEF Types, Progress, SendMessage
<1>2. Types'
  BY <1>1 DEF Types, SendMessage, hostVars
<1>3. Progress'
  BY <1>1 DEF Progress, SendMessage, hostVars
<1>4. Stream' = Stream
  BY DEF Stream, Ring, SendMessage, hostVars
<1>5. ASSUME lost' = 0 PROVE Flowing'
  <2>1. lost = 0 /\ Flowing
    BY <1>5 DEF SendMessage
  <2>2. Chain(Stream)'
    BY <1>4, <2>1 DEF Flowing, Chain
  <2> DEFINE z == Stream[Len(Stream)]
  <2>3. Stream # <<>> => z = Byte(sent, n - 1, n)
    BY <1>1, <2>1 DEF Flowing, Ends
  <2> HIDE DEF z
  <2>4. ASSUME Stream # <<>> PROVE z.message + 1 = sent' /\ z.place + 1 >= z.size
    <3>1. n - 1 \in Nat
      BY <1>1
    <3>2. z.message = sent /\ z.place = n - 1 /\ z.size = n
      BY <2>3, <2>4, <3>1, <1>1, ByteIs
    <3> QED BY <3>2, <1>1
  <2>5. Stream' # <<>> => Ends(Stream[Len(Stream)])'
    <3>1. ~(i' > 0)
      BY <1>1
    <3> QED BY <3>1, <2>4, <1>4 DEF Ends, z
  <2>6. Starts'
    BY <1>1, <1>4, <2>1 DEF Flowing, Starts, SendMessage, hostVars
  <2>7. Partial'
    BY <2>1 DEF Flowing, Partial, SendMessage, hostVars
  <2> QED BY <2>2, <2>5, <2>6, <2>7 DEF Flowing
<1> QED BY <1>2, <1>3, <1>5

\* The stream stays as it is, and so does all it is compared with.
LEMMA SameFlow ==
  ASSUME SInv, Types', Stream' = Stream, UNCHANGED <<sent, n, i, host, msg_buf, len, lost>>,
         sender = "idle" <=> sender' = "idle"
  PROVE  SInv'
<1> USE DEF SInv
<1>1. Progress'
  BY DEF Progress
<1>2. ASSUME lost' = 0 PROVE Flowing'
  <2>1. Flowing
    BY <1>2
  <2>2. Chain(Stream)'
    BY <2>1 DEF Flowing, Chain
  <2>3. Starts' /\ Partial'
    BY <2>1 DEF Flowing, Starts, Partial
  <2>4. Stream' # <<>> => Ends(Stream[Len(Stream)])'
    BY <2>1 DEF Flowing, Ends
  <2> QED BY <2>2, <2>3, <2>4 DEF Flowing
<1> QED BY <1>1, <1>2

\* The host throws away a byte.
LEMMA DropFlows ==
  ASSUME SInv, wire # <<>>, wire' = Tail(wire), msg_buf = <<>>, msg_buf' = <<>>,
         host' # "read", UNCHANGED <<boardVars, lost>>
  PROVE  SInv'
<1> USE DEF SInv
<1>1. Types'
  BY TakenFromStream DEF Types, boardVars
<1>2. Progress'
  BY DEF Progress, boardVars
<1>3. ASSUME lost' = 0 PROVE Flowing'
  <2>1. Flowing
    BY <1>3
  <2>2. Chain(Stream)' /\ (Stream' # <<>> => Ends(Stream[Len(Stream)])')
    BY <2>1, Dropped
  <2>3. Starts' /\ Partial'
    BY DEF Starts, Partial
  <2> QED BY <2>2, <2>3 DEF Flowing
<1> QED BY <1>1, <1>2, <1>3

LEMMA DiscardEndFlows == ASSUME SInv, DiscardEnd PROVE SInv'
<1> USE DEF SInv
<1>1. /\ msg_buf = <<>> /\ wire = <<>> /\ tx_in = tx_out /\ i = n /\ host' = "read"
      /\ UNCHANGED <<boardVars, wire, msg_buf, len, lost>>
  BY DEF DiscardEnd, Progress, Empty
<1>2. Types' /\ Progress'
  BY <1>1 DEF Types, Progress, boardVars
<1>3. Stream' = Stream
  BY <1>1 DEF Stream, Ring, boardVars
<1>4. Stream = <<>>
  BY <1>1, QuietIsEmpty
<1>5. ASSUME lost' = 0 PROVE Flowing'
  <2>1. Chain(Stream)' /\ Partial'
    BY <1>1, <1>3, <1>4 DEF Chain, Partial
  <2>2. Starts'
    BY <1>1, <1>3, <1>4 DEF Starts, boardVars
  <2> QED BY <2>1, <2>2, <1>3, <1>4 DEF Flowing
<1> QED BY <1>2, <1>5

\* The first bytes of a message of ln bytes, and a buffer with some of them.
FirstOf(s, ln) == \A k \in 1 .. Len(s) : s[k] = Byte(s[1].message, k - 1, ln)
OfOne(buf, ln) == buf # <<>> => ln \in Nat /\ Len(buf) < ln /\ FirstOf(buf, ln)

\* t, which goes on with such a buffer, begins with h, and size is the length
\* that is expected of the message.
GoesOn(buf, t, h, ln, size) ==
    /\ t # <<>> /\ t[1] = h /\ Chain(buf \o t)
    /\ buf = <<>> => h.place = 0 /\ size \in Recognised(h)
    /\ buf # <<>> => size = ln
    /\ OfOne(buf, ln)

\* Then h is the next byte of the message.
LEMMA MessageGrows ==
  ASSUME NEW buf \in Seq(ByteType), NEW t \in Seq(ByteType), NEW h \in ByteType,
         NEW ln, NEW size \in Lengths, GoesOn(buf, t, h, ln, size)
  PROVE  FirstOf(Append(buf, h), size)
<1> DEFINE s == Append(buf, h)
<1>0. /\ t # <<>> /\ t[1] = h /\ Chain(buf \o t)
      /\ buf = <<>> => h.place = 0 /\ size \in Recognised(h)
      /\ buf # <<>> => size = ln
      /\ OfOne(buf, ln)
  BY DEF GoesOn
<1> DEFINE L == Len(buf)
<1>1. /\ s \in Seq(ByteType) /\ s # <<>> /\ L \in Nat /\ Len(s) = L + 1
      /\ s[L + 1] = h /\ \A k \in 1 .. L : s[k] = buf[k]
  BY AppendProperties, LenProperties
<1> HIDE DEF s
<1>3. CASE buf = <<>>
  <2>1. h.place = 0
    BY <1>0, <1>3
  <2>2. size = h.size
    BY <1>0, <2>1, <1>3 DEF Recognised
  <2>3. h = Byte(h.message, 0, size)
    BY <2>1, <2>2 DEF ByteType, Byte
  <2>4. L = 0
    BY <1>3, EmptySeq
  <2> HIDE DEF L
  <2> QED BY <1>1, <2>3, <2>4 DEF L, FirstOf
<1>4. CASE buf # <<>>
  <2>1. /\ size = ln /\ ln \in Nat /\ L < ln /\ L \in 1 .. L /\ 1 \in 1 .. L
        /\ \A k \in 1 .. L : buf[k] = Byte(buf[1].message, k - 1, ln)
    <3>1. L > 0
      BY <1>4, <1>1, EmptySeq
    <3> QED BY <1>0, <3>1, <1>1, <1>4 DEF OfOne, FirstOf
  <2> DEFINE m == buf[1].message
             z == buf[L]
  <2>2. m \in Nat /\ z = Byte(m, L - 1, ln) /\ L - 1 \in Nat
    <3>1. buf[1] \in ByteType
      BY <2>1, ElementOfSeq
    <3>2. m \in Nat
      BY <3>1 DEF ByteType
    <3>3. z = Byte(m, L - 1, ln)
      BY <2>1
    <3>4. L - 1 \in Nat
      BY <2>1, <1>1
    <3> QED BY <3>2, <3>3, <3>4
  <2>3. Follows(h, z)
    BY <1>0, <1>4, ChainCut
  <2> HIDE DEF L, m, z
  <2>4. h = Byte(m, L, ln)
    <3>1. z.message = m /\ z.place = L - 1 /\ z.size = ln
      BY <2>2 DEF Byte
    <3>2. z.place + 1 = L /\ z.place + 1 < z.size
      BY <3>1, <2>1, <1>1
    <3> QED BY <3>1, <3>2, <2>3 DEF Follows
  <2>5. s[1].message = m
    BY <1>1, <2>1 DEF m
  <2>6. ASSUME NEW k \in 1 .. L + 1 PROVE s[k] = Byte(m, k - 1, size)
    <3>1. CASE k = L + 1
      BY <3>1, <1>1, <2>1, <2>4
    <3>2. CASE k # L + 1
      <4>1. k \in 1 .. L
        BY <3>2, <1>1
      <4> QED BY <4>1, <1>1, <2>1 DEF m
    <3> QED BY <3>1, <3>2
  <2> QED BY <1>1, <2>5, <2>6 DEF L, FirstOf
<1> HIDE DEF L
<1> QED BY <1>3, <1>4 DEF s

\* A byte that begins a sequence begins what it is put in front of.
LEMMA HeadOfBoth ==
  ASSUME NEW s \in Seq(ByteType), NEW t \in Seq(ByteType), s # <<>>
  PROVE  s \o t # <<>> /\ (s \o t)[1] = Head(s)
<1> DEFINE c == s \o t
<1>1. /\ Len(c) = Len(s) + Len(t) /\ Len(s) \in Nat /\ Len(t) \in Nat
      /\ \A k \in 1 .. Len(s) + Len(t) : c[k] = IF k <= Len(s) THEN s[k] ELSE t[k - Len(s)]
  BY ConcatProperties, LenProperties
<1>2. Len(s) >= 1 /\ Head(s) = s[1]
  BY EmptySeq
<1>3. Len(c) >= 1 /\ c[1] = s[1]
  BY <1>1, <1>2
<1> HIDE DEF c
<1>4. c # <<>>
  BY <1>3, EmptySeq
<1> QED BY <1>2, <1>3, <1>4 DEF c

\* The byte the host reads goes on with the message in its buffer.
LEMMA OneMore ==
  ASSUME Types, Flowing, wire # <<>>, host = "read", NEW size \in Lengths,
         size \in IF msg_buf = <<>> THEN Recognised(Head(wire)) ELSE {len},
         NEW s, s = Append(msg_buf, Head(wire))
  PROVE  /\ s \in Seq(ByteType) /\ s # <<>> /\ Len(s) = Len(msg_buf) + 1 /\ s[Len(s)] = Head(wire)
         /\ \A k \in 1 .. Len(s) : s[k] = Byte(s[1].message, k - 1, size)
<1> DEFINE h == Head(wire)
           t == wire \o Ring
<1>1. /\ h \in ByteType /\ msg_buf \in Seq(ByteType) /\ t \in Seq(ByteType)
      /\ t # <<>> /\ t[1] = h /\ Stream = msg_buf \o t
  BY TakenFromStream, StreamIs, HeadOfBoth DEF Types, Stream
<1> HIDE DEF t
<1>2. msg_buf = <<>> => h.place = 0
  <2>1. msg_buf = <<>> => Stream = t
    BY <1>1, ConcatEmptySeq
  <2> QED BY <1>1, <2>1 DEF Flowing, Starts
<1>3. Chain(msg_buf \o t)
  BY <1>1 DEF Flowing
<1>4. OfOne(msg_buf, len)
  BY DEF Flowing, Partial, OfOne, FirstOf
<1>5. h = Head(wire)
  OBVIOUS
<1> HIDE DEF h
<1>6. /\ msg_buf = <<>> => size \in Recognised(h)
      /\ msg_buf # <<>> => size = len
      /\ s = Append(msg_buf, h)
  BY <1>5
<1>7. FirstOf(Append(msg_buf, h), size)
  <2>1. GoesOn(msg_buf, t, h, len, size)
    BY <1>1, <1>2, <1>3, <1>4, <1>6 DEF GoesOn
  <2> QED BY <1>1, <2>1, MessageGrows
<1>8. s \in Seq(ByteType) /\ s # <<>> /\ Len(s) = Len(msg_buf) + 1 /\ s[Len(s)] = h
  <2>1. s \in Seq(ByteType) /\ s # <<>> /\ Len(s) = Len(msg_buf) + 1 /\ s[Len(msg_buf) + 1] = h
    BY <1>1, <1>6, AppendProperties
  <2> QED BY <2>1
<1> QED BY <1>5, <1>6, <1>7, <1>8 DEF FirstOf

LEMMA ReadFlows == ASSUME SInv, NEW size \in Lengths, Read(size) PROVE SInv'
<1> USE DEF SInv
<1>1. /\ wire # <<>> /\ wire' = Tail(wire) /\ host = "read" /\ host' = "read" /\ len' = size
      /\ UNCHANGED <<boardVars, lost>>
      /\ size \in IF msg_buf = <<>> THEN Recognised(Head(wire)) ELSE {len}
  BY DEF Read
<1> DEFINE h == Head(wire)
           s == Append(msg_buf, Head(wire))
<1>2. /\ msg_buf' = IF size <= Len(s) THEN <<>> ELSE s
      /\ s \in Seq(ByteType) /\ h \in ByteType /\ Tail(wire) \in Seq(ByteType)
  BY <1>1, TakenFromStream DEF Read
<1>3. Types'
  <2>1. msg_buf' \in Seq(ByteType) /\ wire' \in Seq(ByteType)
    BY <1>1, <1>2, EmptySeq
  <2> QED BY <1>1, <2>1 DEF Types, boardVars
<1>4. Progress'
  BY <1>1 DEF Progress, boardVars
<1>5. ASSUME lost' = 0 PROVE Flowing'
  <2>1. Flowing
    BY <1>1, <1>5
  <2>2. /\ s # <<>> /\ Len(s) = Len(msg_buf) + 1 /\ s[Len(s)] = h /\ Len(s) \in Nat
        /\ \A k \in 1 .. Len(s) : s[k] = Byte(s[1].message, k - 1, size)
    <3>1. Types
      OBVIOUS
    <3> DEFINE o == s
    <3>2. o = Append(msg_buf, Head(wire))
      OBVIOUS
    <3> HIDE DEF o
    <3>3. /\ o \in Seq(ByteType) /\ o # <<>> /\ Len(o) = Len(msg_buf) + 1 /\ o[Len(o)] = Head(wire)
          /\ \A k \in 1 .. Len(o) : o[k] = Byte(o[1].message, k - 1, size)
      BY <3>1, <3>2, <2>1, <1>1, OneMore
    <3>4. Len(o) \in Nat
      BY <3>3, LenProperties
    <3> QED BY <3>3, <3>4 DEF o
  <2>3. CASE ~(size <= Len(s))
    <3>1. msg_buf' = s
      BY <1>2, <2>3
    <3>2. Stream' = Stream
      <4>1. Stream = Append(msg_buf, Head(wire)) \o (Tail(wire) \o Ring)
        BY <1>1, TakenFromStream
      <4> QED BY <3>1, <4>1, <1>1 DEF Stream, Ring, boardVars
    <3>3. Chain(Stream)' /\ (Stream' # <<>> => Ends(Stream[Len(Stream)])')
      BY <2>1, <3>2, <1>1 DEF Flowing, Chain, Ends, boardVars
    <3>4. Starts'
      BY <2>1, <3>2, <1>1 DEF Flowing, Starts, boardVars
    <3>5. Partial'
      <4> HIDE DEF s
      <4>1. size \in Nat /\ Len(s) < size
        BY <2>2, <2>3, LengthIs
      <4> QED BY <3>1, <4>1, <2>2, <1>1 DEF Partial
    <3> QED BY <3>3, <3>4, <3>5 DEF Flowing
  <2>4. CASE size <= Len(s)
    <3>1. msg_buf' = <<>>
      BY <1>2, <2>4
    <3>2. /\ Chain(Stream)'
          /\ Stream' # <<>> => Ends(Stream[Len(Stream)])' /\ Follows(Stream'[1], h)
          /\ Stream' = <<>> => Ends(h)
      BY <2>1, <3>1, <1>1, Dropped
    <3>3. h.place + 1 = Len(s) /\ h.size = size /\ h.place + 1 >= h.size
      <4> DEFINE m == s[1].message
                 c == Len(s)
      <4>1. c \in 1 .. c /\ c - 1 \in Nat /\ 1 \in 1 .. c
        BY <2>2, <1>2, EmptySeq
      <4>2. m \in Nat /\ h = Byte(m, c - 1, size) /\ size \in Nat
        <5>1. s[1] \in ByteType
          BY <4>1, <1>2, ElementOfSeq
        <5>2. m \in Nat
          BY <5>1 DEF ByteType
        <5> HIDE DEF h, s
        <5>3. h = Byte(m, c - 1, size)
          BY <4>1, <2>2
        <5> QED BY <5>2, <5>3, LengthIs
      <4> HIDE DEF m, c, h
      <4>3. h.place = c - 1 /\ h.size = size
        BY <4>1, <4>2, ByteIs
      <4> QED BY <4>1, <4>3, <2>2, <2>4 DEF c
    <3> HIDE DEF h, s
    <3>4. Starts'
      <4>1. CASE Stream' # <<>>
        <5>1. Stream'[1].place = 0
          BY <4>1, <3>2, <3>3, <2>2, LengthIs DEF Follows
        <5> QED BY <4>1, <5>1 DEF Starts
      <4>2. CASE Stream' = <<>>
        <5>1. Ends(h) /\ i \in Nat /\ n \in Nat /\ i <= n /\ sent \in Nat /\ i' = i /\ n' = n
          BY <4>2, <3>2, <1>1, LengthIs DEF Types, boardVars
        <5>2. CASE i > 0
          <6>1. h = Byte(sent, i - 1, n) /\ i - 1 \in Nat
            BY <5>1, <5>2 DEF Ends
          <6>2. h.place = i - 1 /\ h.size = n
            BY <6>1, <5>1, ByteIs
          <6>3. i = n
            BY <6>2, <3>3, <5>1
          <6> QED BY <6>3, <5>1, <4>2 DEF Starts
        <5>3. CASE ~(i > 0)
          BY <5>1, <5>3, <4>2 DEF Starts
        <5> QED BY <5>2, <5>3
      <4> QED BY <4>1, <4>2
    <3>5. Partial'
      BY <3>1 DEF Partial
    <3> QED BY <3>2, <3>4, <3>5 DEF Flowing
  <2> QED BY <2>3, <2>4
<1> QED BY <1>3, <1>4, <1>5

LEMMA NextFlows == SInv /\ [Next]_vars => SInv'
<1> SUFFICES ASSUME SInv, [Next]_vars PROVE SInv'
  OBVIOUS
<1>1. CASE PutByte
  BY <1>1, PutFlows
<1>2. ASSUME NEW size \in Lengths, SendMessage(size) PROVE SInv'
  BY <1>2, SendFlows
<1>3. CASE Unmask \/ EnableTx \/ SpinEnd
  <2>1. /\ UNCHANGED <<tx_buffer, tx_in, tx_out, sent, n, i, wire, hostVars, lost>>
        /\ sender # "idle" /\ sender' # "idle"
    BY <1>3 DEF Unmask, EnableTx, SpinEnd
  <2>2. Types' /\ Stream' = Stream
    BY <2>1 DEF SInv, Types, Stream, Ring, hostVars
  <2> QED BY <2>1, <2>2, SameFlow DEF hostVars
<1>4. CASE Tx_interrupt
  <2>1. Stream' = Stream /\ tx_out' \in Slots /\ wire' \in Seq(ByteType)
    BY <1>4, TransmitKeeps DEF SInv
  <2>2. UNCHANGED <<tx_buffer, tx_in, sender, sent, n, i, host, msg_buf, len, lost>>
    BY <1>4 DEF Tx_interrupt, hostVars
  <2>3. Types'
    BY <2>1, <2>2 DEF SInv, Types
  <2> QED BY <2>1, <2>2, <2>3, SameFlow
<1>5. CASE LoseByte
  <2>1. lost' # 0 /\ lost' \in Nat
    BY <1>5 DEF LoseByte, SInv, Types
  <2>2. wire' \in Seq(ByteType)
    BY <1>5, TakenFromStream DEF LoseByte, SInv
  <2> QED BY <1>5, <2>1, <2>2 DEF LoseByte, SInv, Types, Progress, boardVars, hostVars
<1>6. CASE Discard
  <2>1. msg_buf = <<>>
    BY <1>6 DEF Discard, SInv, Progress
  <2> QED BY <1>6, <2>1, DropFlows DEF Discard
<1>7. CASE ReadUnknown
  <2>1. host' # "read" /\ msg_buf' = <<>>
    BY <1>7 DEF ReadUnknown
  <2> QED BY <1>7, <2>1, DropFlows DEF ReadUnknown
<1>8. CASE DiscardEnd
  BY <1>8, DiscardEndFlows
<1>9. ASSUME NEW size \in Lengths, Read(size) PROVE SInv'
  BY <1>9, ReadFlows
<1>10. CASE UNCHANGED vars
  <2>1. Stream' = Stream /\ Types'
    BY <1>10 DEF vars, boardVars, hostVars, Stream, Ring, SInv, Types
  <2> QED BY <1>10, <2>1, SameFlow DEF vars, boardVars, hostVars
<1> QED
  BY <1>1, <1>2, <1>3, <1>4, <1>5, <1>6, <1>7, <1>8, <1>9, <1>10 DEF Next, Sender, Host

LEMMA FlowIsIntact == SInv => StreamIntact
<1> SUFFICES ASSUME SInv, lost = 0, Stream # <<>>
             PROVE  /\ \A k \in 1 .. Len(Stream) - 1 : Follows(Stream[k + 1], Stream[k])
                    /\ i > 0 => Stream[Len(Stream)] = Byte(sent, i - 1, n)
                    /\ host = "read" => Stream[1].place = 0
  <2>1. SInv => msg_buf \o wire \o Ring = Stream
    <3> SUFFICES ASSUME SInv PROVE msg_buf \o wire \o Ring = Stream
      OBVIOUS
    <3>1. msg_buf \in Seq(ByteType) /\ wire \in Seq(ByteType) /\ Ring \in Seq(ByteType)
      BY StreamIs DEF SInv, Types
    <3>2. \A s, t, u \in Seq(ByteType) : s \o (t \o u) = (s \o t) \o u
      BY Regroup
    <3>3. msg_buf \o (wire \o Ring) = (msg_buf \o wire) \o Ring
      BY <3>1, <3>2
    <3> QED BY <3>3 DEF Stream
  <2> QED BY <2>1 DEF StreamIntact
<1> QED BY DEF SInv, Flowing, Chain, Ends, Starts

\* StreamIntact of SerialToHost: as long as no byte is lost on the wire, the
\* bytes that send_buffer puts reach the host complete and in order, and the
\* host takes none but the first byte of a message for one.
THEOREM BytesStayInOrder == Spec => []StreamIntact
BY FlowIsIntact, InitFlowing, NextFlows, PTL DEF Spec

-----------------------------------------------------------------------------
(* The steps of the line are those of MessageLink.                         *)

\* The messages come one after the other: where the stream begins follows
\* from the last that has gone.
NextIs ==
    IF Stream = <<>> THEN IF i = 0 THEN Gone + 1 = sent ELSE Gone = sent
    ELSE IF host = "read" THEN Stream[1].message = Gone + 1
    ELSE \/ Stream[1].message = Gone
         \/ (Stream[1].message = Gone + 1 /\ Stream[1].place = 0)

Below(s, x) == \A k \in 1 .. Len(s) : s[k].message <= x

\* Nothing is pushed before the host listens.
Pushed == got \in Nat /\ discarded \in Nat /\ (host = "discard" => got = 0)

Arriving == host # "exited" /\ Pushed /\ Gone <= sent /\ Below(Stream, sent) /\ NextIs

LEMMA GoneIs == Pushed => Gone \in Nat
BY DEF Pushed, Gone

AInv == SInv /\ (lost = 0 => Arriving)

LEMMA InitArrives == Init => AInv
<1> SUFFICES ASSUME Init PROVE AInv
  OBVIOUS
<1>1. SInv
  BY InitFlowing
<1>2. Stream = <<>>
  BY <1>1, QuietIsEmpty DEF SInv, Init
<1>3. Below(Stream, sent)
  BY <1>2 DEF Below
<1>4. NextIs
  <2>1. i # 0 /\ Gone = sent
    BY LengthIs DEF Init, Gone
  <2> QED BY <1>2, <2>1 DEF NextIs
<1> QED BY <1>1, <1>3, <1>4 DEF AInv, Arriving, Init, Pushed, Gone

\* The second part of a sequence of messages that are not later than x.
LEMMA BelowCut ==
  ASSUME NEW s \in Seq(ByteType), NEW t \in Seq(ByteType), NEW x, Below(s \o t, x)
  PROVE  Below(t, x)
<1> DEFINE c == s \o t
<1>1. /\ Len(s) \in Nat /\ Len(t) \in Nat /\ Len(c) = Len(s) + Len(t)
      /\ \A k \in 1 .. Len(s) + Len(t) : c[k] = IF k <= Len(s) THEN s[k] ELSE t[k - Len(s)]
  BY ConcatProperties, LenProperties
<1>2. Below(c, x)
  OBVIOUS
<1> HIDE DEF c
<1> SUFFICES ASSUME NEW k \in 1 .. Len(t) PROVE t[k].message <= x
  BY DEF Below
<1> DEFINE p == Len(s) + k
<1>3. p \in 1 .. Len(s) + Len(t) /\ ~(p <= Len(s)) /\ p - Len(s) = k
  BY <1>1
<1> HIDE DEF p
<1>4. c[p] = t[k]
  BY <1>1, <1>3
<1> QED BY <1>1, <1>2, <1>3, <1>4 DEF Below

\* The host has emptied its buffer, and h was the last byte it took.
LEMMA AfterDrop ==
  ASSUME AInv, lost = 0, wire # <<>>, wire' = Tail(wire), msg_buf' = <<>>, UNCHANGED boardVars,
         Gone' = Head(wire).message, Gone' <= sent, Pushed',
         host' = "discard" \/ (host' = "read" /\ Head(wire).place + 1 >= Head(wire).size)
  PROVE  Arriving'
<1> DEFINE h == Head(wire)
           t == Tail(wire) \o Ring
<1>1. Types /\ Flowing /\ Arriving
  BY DEF AInv, SInv
<1>2. /\ h \in ByteType /\ Append(msg_buf, h) \in Seq(ByteType) /\ t \in Seq(ByteType)
      /\ Stream = Append(msg_buf, h) \o t
  BY <1>1, TakenFromStream
<1>3. Stream' = t
  <2>1. Stream' = <<>> \o t
    BY DEF Stream, Ring, boardVars
  <2> HIDE DEF t
  <2> QED BY <1>2, <2>1, ConcatEmptySeq
<1>4. /\ Stream' # <<>> => Follows(Stream'[1], h)
      /\ Stream' = <<>> => Ends(h)
  BY <1>1, Dropped
<1> DEFINE a == Append(msg_buf, h)
<1>5. Below(t, sent)
  <2>1. Below(a \o t, sent) /\ a \in Seq(ByteType)
    BY <1>1, <1>2 DEF Arriving
  <2> HIDE DEF a, t
  <2> QED BY <1>2, <2>1, BelowCut
<1> HIDE DEF h, t, a
<1>6. Below(Stream, sent)'
  BY <1>3, <1>5 DEF Below, boardVars
<1>7. h.message \in Nat /\ h.place \in Nat /\ h.size \in Nat /\ Gone' = h.message
  BY <1>2 DEF ByteType, h
<1>8. CASE Stream' # <<>>
  <2>1. CASE h.place + 1 < h.size
    <3>1. Stream'[1].message = Gone'
      <4>1. Stream'[1] = Byte(h.message, h.place + 1, h.size)
        BY <1>4, <1>8, <2>1 DEF Follows
      <4> DEFINE x == h.place + 1
                 m == h.message
                 l == h.size
      <4>2. x \in Nat /\ m \in Nat /\ l \in Nat
        BY <1>7
      <4>3. Stream'[1] = Byte(m, x, l)
        BY <4>1
      <4> HIDE DEF x, m, l
      <4>4. Byte(m, x, l).message = m
        BY <4>2, ByteIs
      <4> QED BY <4>3, <4>4, <1>7 DEF m
    <3>2. host' # "read"
      BY <2>1, <1>7 DEF h
    <3> QED BY <3>1, <3>2, <1>8, <1>6 DEF NextIs, Arriving, boardVars
  <2>2. CASE ~(h.place + 1 < h.size)
    <3>1. Stream'[1].message = Gone' + 1 /\ Stream'[1].place = 0
      BY <1>4, <1>7, <1>8, <2>2 DEF Follows
    <3> QED BY <3>1, <1>8, <1>6 DEF NextIs, Arriving, boardVars
  <2> QED BY <2>1, <2>2
<1>9. CASE Stream' = <<>>
  <2>1. IF i = 0 THEN Gone' + 1 = sent ELSE Gone' = sent
    <3>1. Ends(h) /\ i \in Nat /\ n \in Nat /\ sent \in Nat
      BY <1>1, <1>4, <1>9, LengthIs DEF Types
    <3>2. CASE i = 0
      BY <3>1, <3>2, <1>7 DEF Ends
    <3>3. CASE i # 0
      <4>1. h = Byte(sent, i - 1, n) /\ i - 1 \in Nat
        BY <3>1, <3>3 DEF Ends
      <4>2. h.message = sent
        BY <4>1, <3>1, ByteIs
      <4> QED BY <4>2, <3>3, <1>7
    <3> QED BY <3>2, <3>3
  <2> QED BY <2>1, <1>6, <1>9 DEF NextIs, Arriving, boardVars
<1> QED BY <1>8, <1>9

LEMMA PutArrives == ASSUME AInv, PutByte, lost = 0 PROVE Arriving'
<1> DEFINE b == Byte(sent, i, n)
<1>1. Types /\ Progress /\ Flowing /\ Arriving
  BY DEF AInv, SInv
<1>2. b \in ByteType /\ Stream' = Append(Stream, b)
  BY <1>1, PutExtends
<1>3. /\ sent \in Nat /\ n \in Nat /\ i \in Nat /\ i < n /\ i' = i + 1
      /\ UNCHANGED <<sent, host, Gone>> /\ Gone \in Nat /\ Gone <= sent /\ host # "exited"
      /\ Pushed'
  BY <1>1, LengthIs, GoneIs DEF Types, Progress, PutByte, hostVars, Arriving, Pushed, Gone
<1>4. b.message = sent /\ b.place = i
  BY <1>3, ByteIs
<1> HIDE DEF b
<1>5. Stream \in Seq(ByteType) /\ Len(Stream) \in Nat
  BY <1>1, StreamIs, LenProperties
<1>6. /\ Stream' # <<>> /\ Len(Stream') = Len(Stream) + 1 /\ Stream'[Len(Stream) + 1] = b
      /\ \A k \in 1 .. Len(Stream) : Stream'[k] = Stream[k]
  BY <1>2, <1>5, AppendProperties
<1>7. Below(Stream, sent)'
  <2> SUFFICES ASSUME NEW k \in 1 .. Len(Stream') PROVE Stream'[k].message <= sent
    BY <1>3 DEF Below
  <2>1. CASE k = Len(Stream) + 1
    BY <2>1, <1>3, <1>4, <1>6
  <2>2. CASE k # Len(Stream) + 1
    <3>1. k \in 1 .. Len(Stream)
      BY <2>2, <1>5, <1>6
    <3> QED BY <3>1, <1>1, <1>6 DEF Arriving, Below
  <2> QED BY <2>1, <2>2
<1>8. NextIs'
  <2>1. CASE Stream # <<>>
    <3>1. Stream'[1] = Stream[1]
      BY <2>1, <1>5, <1>6, EmptySeq
    <3> QED BY <2>1, <3>1, <1>1, <1>3, <1>6 DEF NextIs, Arriving
  <2>2. CASE Stream = <<>>
    <3>1. Stream'[1] = b
      BY <2>2, <1>6, EmptySeq
    <3>2. IF i = 0 THEN Gone + 1 = sent ELSE Gone = sent
      BY <2>2, <1>1 DEF Arriving, NextIs
    <3>3. host = "read" => i = 0
      BY <2>2, <1>1, <1>3 DEF Flowing, Starts
    <3> QED BY <3>1, <3>2, <3>3, <1>3, <1>4, <1>6 DEF NextIs
  <2> QED BY <2>1, <2>2
<1> QED BY <1>3, <1>7, <1>8 DEF Arriving

LEMMA SendArrives ==
  ASSUME AInv, NEW size \in Lengths, SendMessage(size), lost = 0 PROVE Arriving'
<1>1. Types /\ Progress /\ Arriving
  BY DEF AInv, SInv
<1>2. /\ sent \in Nat /\ i = n /\ i # 0 /\ i' = 0 /\ sent' = sent + 1
      /\ UNCHANGED <<host, Gone>> /\ Gone \in Nat /\ Gone <= sent /\ host # "exited"
      /\ Pushed'
  BY <1>1, LengthIs, GoneIs DEF Types, Progress, SendMessage, hostVars, Arriving, Pushed, Gone
<1>3. Stream' = Stream /\ Stream \in Seq(ByteType)
  BY <1>1, StreamIs DEF Stream, Ring, SendMessage, hostVars
<1>4. Below(Stream, sent)'
  <2> SUFFICES ASSUME NEW k \in 1 .. Len(Stream) PROVE Stream[k].message <= sent + 1
    BY <1>2, <1>3 DEF Below
  <2>1. Stream[k] \in ByteType
    BY <1>3, ElementOfSeq
  <2>2. Stream[k].message \in Nat
    BY <2>1 DEF ByteType
  <2>3. Stream[k].message <= sent
    BY <1>1 DEF Arriving, Below
  <2> QED BY <2>2, <2>3, <1>2
<1>5. NextIs'
  BY <1>1, <1>2, <1>3 DEF Arriving, NextIs
<1> QED BY <1>2, <1>4, <1>5 DEF Arriving

LEMMA SameArrives ==
  ASSUME AInv, lost = 0, Stream' = Stream, UNCHANGED <<sent, i, host, discarded, got>>
  PROVE  Arriving' /\ Gone' = Gone
<1>1. Arriving
  BY DEF AInv
<1>2. Gone' = Gone /\ Pushed'
  BY <1>1 DEF Arriving, Gone, Pushed
<1> QED BY <1>1, <1>2 DEF Arriving, NextIs, Below

LEMMA DiscardArrives ==
  ASSUME AInv, Discard, lost = 0
  PROVE  Arriving' /\ (Gone' = Gone \/ Gone' = Gone + 1) /\ Gone' <= sent
<1>1. /\ Types /\ Progress /\ Flowing /\ Arriving
      /\ wire # <<>> /\ wire' = Tail(wire) /\ msg_buf = <<>> /\ msg_buf' = <<>>
      /\ host = "discard" /\ host' = "discard" /\ discarded' = Head(wire).message
      /\ got' = got /\ UNCHANGED boardVars
  BY DEF AInv, SInv, Discard, Progress
<1>2. Stream # <<>> /\ Stream[1] = Head(wire) /\ Stream \in Seq(ByteType) /\ Len(Stream) \in Nat
  BY <1>1, Dropped, StreamIs, LenProperties
<1>3. 1 \in 1 .. Len(Stream)
  BY <1>2, EmptySeq
<1>7. Stream[1] \in ByteType
  BY <1>2, <1>3, ElementOfSeq
<1>8. Gone' = Head(wire).message /\ Pushed'
  BY <1>1, <1>2, <1>7 DEF Arriving, Pushed, Gone, ByteType
<1>4. Gone' <= sent
  BY <1>1, <1>2, <1>3, <1>8 DEF Arriving, Below
<1>5. Gone' = Gone \/ Gone' = Gone + 1
  BY <1>1, <1>2, <1>8 DEF Arriving, NextIs
<1>6. Arriving'
  BY <1>1, <1>4, <1>8, AfterDrop
<1> QED BY <1>4, <1>5, <1>6

\* A message whose last byte is read parses, and is the next one.
LEMMA ReadArrives ==
  ASSUME AInv, NEW size \in Lengths, Read(size), lost = 0
  PROVE  Arriving' /\ ((Gone' = Gone /\ got' = got) \/ (Gone' = Gone + 1 /\ got' = Gone')) /\ Gone' <= sent
<1> DEFINE s == Append(msg_buf, Head(wire))
           t == Tail(wire) \o Ring
<1>1. /\ Types /\ Progress /\ Flowing /\ Arriving
      /\ wire # <<>> /\ wire' = Tail(wire) /\ host = "read" /\ host' = "read"
      /\ UNCHANGED boardVars
      /\ size \in IF msg_buf = <<>> THEN Recognised(Head(wire)) ELSE {len}
  BY DEF AInv, SInv, Read
<1>2. /\ s \in Seq(ByteType) /\ t \in Seq(ByteType) /\ Stream = s \o t
  BY <1>1, TakenFromStream
<1>3. /\ s # <<>> /\ Len(s) = Len(msg_buf) + 1 /\ s[Len(s)] = Head(wire)
      /\ \A k \in 1 .. Len(s) : s[k] = Byte(s[1].message, k - 1, size)
  <2> DEFINE o == s
  <2>1. o = Append(msg_buf, Head(wire))
    OBVIOUS
  <2> HIDE DEF o
  <2>2. /\ o # <<>> /\ Len(o) = Len(msg_buf) + 1 /\ o[Len(o)] = Head(wire)
        /\ \A k \in 1 .. Len(o) : o[k] = Byte(o[1].message, k - 1, size)
    BY <2>1, <1>1, OneMore
  <2> QED BY <2>2 DEF o
<1>4. IF size <= Len(s)
      THEN /\ got' = IF WholeMessage(s) THEN s[1].message ELSE Unparsed
           /\ msg_buf' = <<>>
      ELSE msg_buf' = s /\ got' = got
  BY DEF Read
<1>10. discarded' = discarded /\ Pushed
  BY <1>1 DEF Read, Arriving
<1>5. Stream # <<>> /\ Stream[1] = s[1]
  <2>1. Chain(s \o t)
    BY <1>1, <1>2 DEF Flowing
  <2> HIDE DEF s, t
  <2> QED BY <1>2, <1>3, <2>1, ChainCut
<1>6. Stream \in Seq(ByteType) /\ Len(Stream) \in Nat /\ 1 \in 1 .. Len(Stream)
  BY <1>1, <1>5, StreamIs, LenProperties, EmptySeq
<1>7. s[1].message = Gone + 1 /\ Gone + 1 <= sent /\ Gone \in Nat
  BY <1>1, <1>5, <1>6, GoneIs DEF Arriving, NextIs, Below
<1>8. CASE ~(size <= Len(s))
  <2>1. Stream' = Stream
    BY <1>1, <1>2, <1>4, <1>8 DEF Stream, Ring, boardVars
  <2>2. UNCHANGED <<sent, i, host, discarded, got>> /\ Gone <= sent
    BY <1>1, <1>4, <1>8, <1>10 DEF boardVars, Arriving
  <2>3. Arriving' /\ Gone' = Gone
    BY <2>1, <2>2, SameArrives
  <2> QED BY <2>2, <2>3
<1>9. CASE size <= Len(s)
  <2>1. size = Len(s)
    <3>1. CASE msg_buf = <<>>
      BY <1>3, <1>9, <3>1, LengthIs, EmptySeq
    <3>2. CASE msg_buf # <<>>
      <4>1. size = len /\ Len(msg_buf) < len /\ Len(msg_buf) \in Nat /\ size \in Nat
        BY <1>1, <3>2, LengthIs, LenProperties DEF Flowing, Partial, Types
      <4> HIDE DEF s
      <4> QED BY <4>1, <1>3, <1>9
    <3> QED BY <3>1, <3>2
  <2>2. WholeMessage(s)
    <3> HIDE DEF s
    <3>1. DOMAIN s = 1 .. Len(s)
      BY <1>2, LenProperties
    <3> QED BY <2>1, <3>1, <1>3 DEF WholeMessage
  <2> DEFINE c == Len(s)
  <2>3. c \in 1 .. c /\ c - 1 \in Nat /\ 1 \in 1 .. c
    BY <1>2, <1>3, EmptySeq
  <2>4. got' = s[1].message /\ Gone' = s[1].message /\ Pushed' /\ msg_buf' = <<>>
    <3>1. got' = s[1].message /\ msg_buf' = <<>>
      BY <1>4, <1>9, <2>2
    <3>2. got' = Gone + 1
      BY <3>1, <1>7
    <3> HIDE DEF s
    <3>3. Gone' = got'
      BY <3>2, <1>7 DEF Gone
    <3> QED BY <3>1, <3>2, <3>3, <1>1, <1>7, <1>10 DEF Pushed
  <2>5. Gone' = Head(wire).message /\ Head(wire).place + 1 >= Head(wire).size
    <3> DEFINE m == s[1].message
               h == Head(wire)
    <3>1. m \in Nat
      BY <1>7
    <3>2. h = Byte(m, c - 1, size)
      <4> HIDE DEF h, s
      <4> QED BY <1>3, <2>3 DEF h
    <3>3. size \in Nat /\ c - 1 + 1 = size
      <4> HIDE DEF s
      <4> QED BY <2>1, <2>3, LengthIs
    <3> HIDE DEF m, h, c
    <3>4. h.message = m /\ h.place = c - 1 /\ h.size = size
      BY <2>3, <3>1, <3>2, <3>3, ByteIs
    <3> QED BY <2>4, <3>3, <3>4 DEF h, m
  <2>6. Gone' = Gone + 1 /\ got' = Gone' /\ Gone' <= sent
    BY <1>7, <2>4
  <2> HIDE DEF s, t, c
  <2>7. Arriving'
    BY <1>1, <2>4, <2>5, <2>6, AfterDrop
  <2> QED BY <2>6, <2>7
<1> HIDE DEF s, t
<1> QED BY <1>8, <1>9

LEMMA LostIsBroken == SInv /\ [Next]_vars => lost' \in Nat /\ (lost # 0 => lost' # 0)
<1> SUFFICES ASSUME SInv, [Next]_vars PROVE lost' \in Nat /\ (lost # 0 => lost' # 0)
  OBVIOUS
<1>1. lost' = lost \/ lost' = lost + 1
  BY DEF Next, Sender, Host, PutByte, Unmask, EnableTx, SpinEnd, Tx_interrupt, LoseByte, Discard,
         DiscardEnd, Read, ReadUnknown, SendMessage, vars
<1> QED BY <1>1 DEF SInv, Types

\* What a step does to the messages that are counted, while no byte is lost.
LEMMA NextArrives ==
  ASSUME AInv, [Next]_vars, lost' = 0
  PROVE  /\ Arriving'
         /\ \/ UNCHANGED <<sent, Gone, got>> /\ (host = "discard" \/ host' = host)
            \/ sent < MaxMessages /\ sent' = sent + 1 /\ UNCHANGED <<Gone, got, host>>
            \/ /\ Gone < sent /\ Gone' = Gone + 1 /\ UNCHANGED <<sent, host>>
               /\ IF host = "discard" THEN got' = got ELSE got' = Gone'
<1>0. SInv /\ lost = 0 /\ Arriving /\ Gone \in Nat /\ sent \in Nat /\ Gone <= sent
  BY LostIsBroken, GoneIs DEF AInv, SInv, Types, Arriving
<1> DEFINE Counted == /\ Arriving'
                      /\ \/ UNCHANGED <<sent, Gone, got>> /\ (host = "discard" \/ host' = host)
                         \/ sent < MaxMessages /\ sent' = sent + 1 /\ UNCHANGED <<Gone, got, host>>
                         \/ /\ Gone < sent /\ Gone' = Gone + 1 /\ UNCHANGED <<sent, host>>
                            /\ IF host = "discard" THEN got' = got ELSE got' = Gone'
<1>1. CASE PutByte
  BY <1>1, <1>0, PutArrives DEF PutByte, hostVars, Gone
<1>2. ASSUME NEW size \in Lengths, SendMessage(size) PROVE Counted
  BY <1>2, <1>0, SendArrives DEF SendMessage, hostVars, Gone
<1>3. CASE Unmask \/ EnableTx \/ SpinEnd \/ UNCHANGED vars
  <2>1. UNCHANGED <<tx_buffer, tx_in, tx_out, sent, i, wire, hostVars>>
    BY <1>3 DEF Unmask, EnableTx, SpinEnd, vars, boardVars
  <2>2. Stream' = Stream /\ UNCHANGED <<sent, i, host, discarded, got>>
    BY <2>1 DEF Stream, Ring, hostVars
  <2> QED BY <2>2, <1>0, SameArrives
<1>4. CASE Tx_interrupt
  <2>1. Stream' = Stream /\ UNCHANGED <<sent, i, host, discarded, got>>
    BY <1>4, <1>0, TransmitKeeps DEF Tx_interrupt, hostVars, SInv
  <2> QED BY <2>1, <1>0, SameArrives
<1>5. CASE LoseByte
  BY <1>5, <1>0 DEF LoseByte
<1>6. CASE Discard
  <2>1. /\ Arriving' /\ (Gone' = Gone \/ Gone' = Gone + 1) /\ Gone' <= sent
        /\ UNCHANGED <<sent, host, got>> /\ host = "discard"
    BY <1>6, <1>0, DiscardArrives DEF Discard, boardVars
  <2> QED BY <2>1, <1>0
<1>7. CASE ReadUnknown
  <2>1. /\ Types /\ Flowing /\ wire # <<>> /\ msg_buf = <<>> /\ host = "read"
        /\ Head(wire).place # 0
    BY <1>7, <1>0 DEF ReadUnknown, SInv
  <2>2. Stream # <<>> /\ Stream[1] = Head(wire)
    BY <2>1, <1>7, Dropped DEF ReadUnknown
  <2> QED BY <2>1, <2>2 DEF Flowing, Starts
<1>8. CASE DiscardEnd
  <2>1. /\ msg_buf = <<>> /\ wire = <<>> /\ tx_in = tx_out
        /\ UNCHANGED <<boardVars, wire, msg_buf, discarded, got>> /\ host = "discard" /\ host' = "read"
    BY <1>8, <1>0 DEF DiscardEnd, SInv, Progress, Empty
  <2>2. Stream = <<>> /\ Stream' = Stream
    BY <2>1, <1>0, QuietIsEmpty DEF SInv, Stream, Ring, boardVars
  <2>3. Gone' = Gone /\ Pushed' /\ sent' = sent /\ i' = i
    BY <2>1, <1>0 DEF Gone, Arriving, Pushed, boardVars
  <2> QED BY <2>1, <2>2, <2>3, <1>0 DEF Arriving, NextIs, Below
<1>9. ASSUME NEW size \in Lengths, Read(size) PROVE Counted
  <2>1. /\ Arriving' /\ ((Gone' = Gone /\ got' = got) \/ (Gone' = Gone + 1 /\ got' = Gone'))
        /\ Gone' <= sent /\ UNCHANGED <<sent, host>> /\ host = "read"
    BY <1>9, <1>0, ReadArrives DEF Read, boardVars
  <2> QED BY <2>1, <1>0
<1> QED
  BY <1>1, <1>2, <1>3, <1>4, <1>5, <1>6, <1>7, <1>8, <1>9 DEF Next, Sender, Host

LEMMA AInductive == AInv /\ [Next]_vars => AInv'
BY NextArrives, NextFlows DEF AInv

\* The numbers from a to b, in a sequence.
Between(a, b) == [k \in 1 .. b - a |-> a + k]

LEMMA BetweenIs ==
  ASSUME NEW a \in Nat, NEW b \in Nat, a <= b
  PROVE  /\ Between(a, b) \in Seq(Nat) /\ Len(Between(a, b)) = b - a
         /\ a = b => Between(a, b) = <<>>
         /\ Append(Between(a, b), b + 1) = Between(a, b + 1)
         /\ a < b => /\ Between(a, b) # <<>> /\ Head(Between(a, b)) = a + 1
                     /\ Tail(Between(a, b)) = Between(a + 1, b)
<1> DEFINE s == Between(a, b)
           t == Between(a, b + 1)
           u == Between(a + 1, b)
<1>1. s \in Seq(Nat) /\ Len(s) = b - a /\ \A k \in 1 .. b - a : s[k] = a + k
  BY DEF Between
<1>2. t \in Seq(Nat) /\ Len(t) = b - a + 1 /\ \A k \in 1 .. b - a + 1 : t[k] = a + k
  BY DEF Between
<1>3. a < b => u \in Seq(Nat) /\ Len(u) = b - a - 1 /\ \A k \in 1 .. b - a - 1 : u[k] = a + 1 + k
  BY DEF Between
<1> HIDE DEF s, t, u
<1>4. a = b => s = <<>>
  BY <1>1, EmptySeq
<1>5. Append(s, b + 1) = t
  <2>1. /\ Append(s, b + 1) \in Seq(Nat) /\ Len(Append(s, b + 1)) = b - a + 1
        /\ \A k \in 1 .. b - a : Append(s, b + 1)[k] = s[k]
        /\ Append(s, b + 1)[b - a + 1] = b + 1
    BY <1>1, AppendProperties
  <2>2. ASSUME NEW k \in 1 .. b - a + 1 PROVE Append(s, b + 1)[k] = t[k]
    <3>1. CASE k = b - a + 1
      BY <3>1, <2>1, <1>2
    <3>2. CASE k # b - a + 1
      <4>1. k \in 1 .. b - a
        BY <3>2
      <4> QED BY <4>1, <2>1, <1>1, <1>2
    <3> QED BY <3>1, <3>2
  <2> QED BY <2>1, <2>2, <1>2, SeqEqual
<1>6. ASSUME a < b PROVE s # <<>> /\ Head(s) = a + 1 /\ Tail(s) = u
  <2>1. s # <<>> /\ Len(s) >= 1 /\ Head(s) = s[1]
    BY <1>1, <1>6, EmptySeq
  <2>2. /\ Tail(s) \in Seq(Nat) /\ Len(Tail(s)) = b - a - 1
        /\ \A k \in 1 .. b - a - 1 : Tail(s)[k] = s[k + 1]
    BY <2>1, <1>1, HeadTailProperties
  <2>3. ASSUME NEW k \in 1 .. b - a - 1 PROVE Tail(s)[k] = u[k]
    <3>1. k + 1 \in 1 .. b - a /\ a + (k + 1) = a + 1 + k
      OBVIOUS
    <3> QED BY <3>1, <2>2, <1>1, <1>3, <1>6
  <2>4. Tail(s) = u
    BY <2>2, <2>3, <1>3, <1>6, SeqEqual
  <2>5. s[1] = a + 1
    BY <2>1, <1>1
  <2> QED BY <2>1, <2>4, <2>5
<1> QED BY <1>1, <1>4, <1>5, <1>6 DEF s, t, u

\* A step of the line is one of MessageLink, or none.
LEMMA LinkStep == AInv /\ [Next]_vars => [Link!Next]_Link!vars
<1> DEFINE transit == [k \in 1 .. sent - Gone |-> Gone + k]
<1>0. transit = Between(Gone, sent)
  BY DEF Between
<1> SUFFICES ASSUME AInv, [Next]_vars PROVE [Link!Next]_Link!vars
  OBVIOUS
<1>1. lost \in Nat /\ lost' \in Nat /\ (lost # 0 => lost' # 0)
  BY LostIsBroken DEF AInv, SInv, Types
<1>2. CASE lost' # 0
  <2>1. lost' > 0
    BY <1>1, <1>2
  <2> QED BY <2>1 DEF Link!Next, Link!Break
<1>3. CASE lost' = 0
  <2>1. ~(lost > 0) /\ ~(lost' > 0) /\ lost = 0
    BY <1>1, <1>3
  <2>2. Gone \in Nat /\ sent \in Nat /\ Gone <= sent
    BY <2>1, GoneIs DEF AInv, Arriving, SInv, Types
  <2>3. \/ UNCHANGED <<sent, Gone, got>> /\ (host = "discard" \/ host' = host)
        \/ sent < MaxMessages /\ sent' = sent + 1 /\ UNCHANGED <<Gone, got, host>>
        \/ /\ Gone < sent /\ Gone' = Gone + 1 /\ UNCHANGED <<sent, host>>
           /\ IF host = "discard" THEN got' = got ELSE got' = Gone'
    BY <1>3, NextArrives
  <2>4. (lost > 0) = FALSE /\ (lost' > 0) = FALSE
    BY <2>1
  <2>7. CASE UNCHANGED <<sent, Gone, got>> /\ (host = "discard" \/ host' = host)
    <3>1. transit' = transit
      BY <2>7
    <3>2. CASE (host' # "discard") = (host # "discard")
      BY <2>4, <2>7, <3>1, <3>2 DEF Link!vars
    <3>3. CASE (host' # "discard") # (host # "discard")
      <4>1. (host # "discard") = FALSE /\ (host' # "discard") = TRUE
        BY <2>7, <3>3
      <4>2. Link!Listen
        BY <2>4, <2>7, <3>1, <4>1 DEF Link!Listen
      <4> QED BY <4>2 DEF Link!Next
    <3> QED BY <3>2, <3>3
  <2>5. CASE sent < MaxMessages /\ sent' = sent + 1 /\ UNCHANGED <<Gone, got, host>>
    <3>1. sent + 1 \in 1 .. MaxMessages
      BY <2>2, <2>5, BoundAssumption
    <3>2. transit' = Append(transit, sent + 1)
      <4>1. Append(Between(Gone, sent), sent + 1) = Between(Gone, sent + 1)
        BY <2>2, BetweenIs
      <4>2. transit' = Between(Gone', sent')
        BY DEF Between
      <4> HIDE DEF transit
      <4> QED BY <1>0, <4>1, <4>2, <2>5
    <3>3. \E m \in 1 .. MaxMessages : Link!Send(m)
      <4> HIDE DEF transit
      <4>1. PICK m \in 1 .. MaxMessages : m = sent + 1
        BY <3>1
      <4>2. transit' = Append(transit, m)
        BY <3>2, <4>1
      <4> QED BY <4>2, <2>4, <2>5 DEF Link!Send, transit
    <3>4. Link!Next
      BY <3>3 DEF Link!Next
    <3> QED BY <3>4
  <2>6. CASE /\ Gone < sent /\ Gone' = Gone + 1 /\ UNCHANGED <<sent, host>>
             /\ IF host = "discard" THEN got' = got ELSE got' = Gone'
    <3>1. transit # <<>> /\ Head(transit) = Gone + 1 /\ transit' = Tail(transit)
      <4>1. /\ Between(Gone, sent) # <<>> /\ Head(Between(Gone, sent)) = Gone + 1
            /\ Tail(Between(Gone, sent)) = Between(Gone + 1, sent)
        BY <2>2, <2>6, BetweenIs
      <4>2. transit' = Between(Gone', sent')
        BY DEF Between
      <4> HIDE DEF transit
      <4> QED BY <1>0, <4>1, <4>2, <2>6
    <3>2. CASE host = "discard"
      <4>1. Link!Miss
        BY <2>4, <2>6, <3>1, <3>2 DEF Link!Miss
      <4> QED BY <4>1 DEF Link!Next
    <3>3. CASE host # "discard"
      <4>1. Link!Take
        BY <2>4, <2>6, <3>1, <3>3 DEF Link!Take
      <4> QED BY <4>1 DEF Link!Next
    <3> QED BY <3>2, <3>3
  <2> QED BY <2>3, <2>5, <2>6, <2>7
<1> QED BY <1>2, <1>3

LEMMA LinkInit == Init => Link!Init
<1> DEFINE transit == [k \in 1 .. sent - Gone |-> Gone + k]
<1> SUFFICES ASSUME Init PROVE Link!Init
  OBVIOUS
<1>1. transit = Between(Gone, sent)
  BY DEF Between
<1>2. Between(Gone, sent) = <<>>
  BY BetweenIs DEF Init, Gone
<1>3. got = 0 /\ (lost > 0) = FALSE /\ (host # "discard") \in BOOLEAN
  BY DEF Init
<1> QED BY <1>1, <1>2, <1>3 DEF Link!Init

\* LinkSpec without its fairness: as long as no byte is lost the messages
\* arrive whole, each once and in the order of sending.
THEOREM ImplementsLink == Spec => Link!Init /\ [][Link!Next]_Link!vars
BY LinkInit, LinkStep, InitArrives, AInductive, PTL DEF Spec

-----------------------------------------------------------------------------
(* Both directions: what the board sends, with the steps that are added.   *)

\* A step of LineNext is one of Next on the state of SerialToHost, or one that
\* leaves that state alone, or a byte that the thread which has ended leaves.
LEMMA LineStep ==
  ASSUME [LineNext]_lineVars
  PROVE  [Next]_vars \/ Unread
<1>1. CASE LineSender \/ LineTx \/ LineHost \/ LineLose
  BY <1>1 DEF LineSender, LineTx, LineHost, LineLose, Next
<1>2. CASE PutOrderByte \/ Rx_interrupt \/ Receiver \/ LoseOrderByte
  BY <1>2 DEF PutOrderByte, Rx_interrupt, Receiver, LoseOrderByte, BeginReceive, UnknownType, BeginSpin, EndSpin,
              CopyByte
<1>3. ASSUME NEW size \in Lengths, LineSendMessage(size) \/ BeginOrder(size) PROVE [Next]_vars
  BY <1>3 DEF LineSendMessage, BeginOrder, Next
<1>4. CASE UNCHANGED lineVars
  BY <1>4 DEF lineVars
<1> QED
  BY <1>1, <1>2, <1>3, <1>4 DEF LineNext

LEMMA LineOn == IInv /\ [LineNext]_lineVars => IInv'
<1> SUFFICES ASSUME IInv, [LineNext]_lineVars PROVE IInv'
  OBVIOUS
<1>1. CASE Unread
  BY <1>1, RingUntouched DEF Unread, boardVars
<1> QED BY <1>1, LineStep, NextOn

\* TransmitterOn for the whole line, in which the interrupt is also masked by
\* receive_message.
THEOREM LineTransmits == LineSpec => []TransmitterOn
<1>1. LineInit => IInv
  BY InitOn DEF LineInit
<1>2. IInv => TransmitterOn
  BY DEF IInv
<1> QED
  BY <1>1, <1>2, LineOn, PTL DEF LineSpec

LEMMA LineFlows == SInv /\ [LineNext]_lineVars => SInv'
<1> SUFFICES ASSUME SInv, [LineNext]_lineVars PROVE SInv'
  OBVIOUS
<1>1. CASE Unread
  <2>1. msg_buf = <<>> /\ msg_buf' = <<>> /\ host' # "read"
    BY <1>1 DEF Unread, SInv, Progress, hostVars
  <2> QED BY <1>1, <2>1, DropFlows DEF Unread
<1> QED BY <1>1, LineStep, NextFlows

\* StreamIntact for the whole line.
THEOREM LineStaysInOrder == LineSpec => []StreamIntact
<1>1. LineInit => SInv
  BY InitFlowing DEF LineInit
<1> QED
  BY <1>1, LineFlows, FlowIsIntact, PTL DEF LineSpec

LEMMA LineArrives == AInv /\ [LineNext]_lineVars => AInv'
<1> SUFFICES ASSUME AInv, [LineNext]_lineVars PROVE AInv'
  OBVIOUS
<1>1. CASE Unread
  <2>1. SInv'
    BY LineFlows DEF AInv
  <2>2. lost # 0 /\ lost' = lost
    BY <1>1 DEF Unread, AInv, Arriving
  <2> QED BY <2>1, <2>2 DEF AInv
<1> QED BY <1>1, LineStep, AInductive

-----------------------------------------------------------------------------
(* The other direction: the stream from receive_message over the ring and  *)
(* the wire to serial_putc.                                                *)

Begun == IF receiver = "idle" THEN <<>> ELSE order
RStream == Begun \o (RxRing \o rxWire)

RTypes ==
    /\ rx_in \in Slots /\ rx_out \in Slots
    /\ rx_buffer \in [Slots -> ByteType]
    /\ rxWire \in Seq(ByteType) /\ order \in Seq(ByteType)
    /\ orders \in Nat /\ hn \in Lengths /\ hi \in 0 .. hn /\ orderLost \in Nat
    /\ receiver \in {"idle", "copy", "spin"}

\* What the last byte of the stream is: the one put last, or the end of the
\* message before.
REnds(b) == IF hi > 0 THEN b = Byte(orders, hi - 1, hn)
                      ELSE b.message + 1 = orders /\ b.place + 1 >= b.size

\* The stream begins with the message after the one received last; when it is
\* empty, that one is whole and the next one is not begun or not yet put.
RStarts ==
    IF RStream = <<>> THEN hi \in {0, hn} /\ (IF hi = 0 THEN received + 1 = orders ELSE received = orders)
    ELSE RStream[1].place = 0 /\ RStream[1].message = received + 1

RFlowing ==
    /\ ~deaf /\ received \in Nat
    /\ Chain(RStream) /\ Below(RStream, orders)
    /\ RStream # <<>> => REnds(RStream[Len(RStream)])
    /\ RStarts
    /\ OfOne(Begun, orderLen)

RInv == RTypes /\ (orderLost = 0 => RFlowing)

LEMMA RStreamIs ==
  ASSUME RTypes
  PROVE  /\ RxRing = RingOf(rx_buffer, rx_in, rx_out)
         /\ Begun \in Seq(ByteType)
         /\ RxRing \in Seq(ByteType) /\ RxRing \o rxWire \in Seq(ByteType) /\ RStream \in Seq(ByteType)
<1>1. RxRing = RingOf(rx_buffer, rx_in, rx_out)
  BY DEF RxRing, RingOf, CountOf
<1>2. RxRing \in Seq(ByteType)
  BY <1>1, RingOfIs DEF RTypes
<1>3. Begun \in Seq(ByteType)
  BY EmptySeq DEF RTypes, Begun
<1> DEFINE f == RxRing \o rxWire
<1>4. f \in Seq(ByteType)
  BY <1>2, ConcatProperties DEF RTypes
<1> HIDE DEF f
<1>5. Begun \o f \in Seq(ByteType)
  BY <1>3, <1>4, ConcatProperties
<1> QED BY <1>1, <1>2, <1>3, <1>4, <1>5 DEF f, RStream

LEMMA InitReceives == LineInit => RInv
<1> SUFFICES ASSUME LineInit PROVE RInv
  OBVIOUS
<1>1. 0 \in Slots /\ NoByte \in ByteType
  BY BufSizeAssumption, ByteIs DEF Slots, NoByte
<1>2. hn \in Lengths /\ hi = hn /\ hi \in 0 .. hn /\ hi # 0
  BY LengthIs DEF LineInit
<1>3. RTypes
  <2>1. rx_buffer \in [Slots -> ByteType]
    BY <1>1 DEF LineInit, Slots
  <2>2. rxWire \in Seq(ByteType) /\ order \in Seq(ByteType)
    BY EmptySeq DEF LineInit
  <2> QED BY <1>1, <1>2, <2>1, <2>2 DEF LineInit, RTypes
<1>4. RStream = <<>>
  <2>1. RxRing = RingOf(rx_buffer, rx_in, rx_out) /\ RxRing \in Seq(ByteType)
    BY <1>3, RStreamIs
  <2>2. CountOf(rx_in, rx_out) = 0
    <3>1. rx_in = 0 /\ rx_out = 0
      BY DEF LineInit
    <3>2. CountOf(0, 0) = IF 0 >= 0 THEN 0 - 0 ELSE 0 + BufSize - 0
      BY <1>1, CountIs
    <3> QED BY <3>1, <3>2
  <2>3. Len(RxRing) = 0
    BY <1>3, <2>1, <2>2, RingOfIs DEF RTypes
  <2>4. RxRing = <<>>
    BY <2>1, <2>3, EmptySeq
  <2>5. <<>> \o (<<>> \o <<>>) = <<>>
    BY ConcatEmptySeq, EmptySeq
  <2> QED BY <2>4, <2>5 DEF RStream, Begun, LineInit
<1>5. Chain(RStream) /\ Below(RStream, orders)
  BY <1>4 DEF Chain, Below
<1>6. RStarts
  BY <1>2, <1>4 DEF RStarts, LineInit
<1>7. OfOne(Begun, orderLen)
  BY DEF OfOne, Begun, LineInit
<1> QED BY <1>3, <1>4, <1>5, <1>6, <1>7 DEF RInv, RFlowing, LineInit

\* What leaves the stream and the counters alone.
LEMMA SameOrders ==
  ASSUME RInv, RTypes', RStream' = RStream, UNCHANGED <<hostSendVars, received, deaf, orderLost>>,
         OfOne(Begun, orderLen) => OfOne(Begun, orderLen)'
  PROVE  RInv'
BY DEF RInv, RFlowing, RStarts, REnds, Chain, Below, hostSendVars

\* The next message is begun when all of the last one has been put.
LEMMA BeginOrderReceives == ASSUME RInv, NEW size \in Lengths, BeginOrder(size) PROVE RInv'
<1>1. /\ hi = hn /\ hi > 0 /\ orders' = orders + 1 /\ hn' = size /\ hi' = 0 /\ orders \in Nat
      /\ hn \in Nat /\ size \in Nat /\ hi \in Nat
  BY LengthIs DEF BeginOrder, RInv, RTypes
<1>2. RTypes'
  BY <1>1 DEF RInv, RTypes, BeginOrder, ringVars, receiveVars
<1>3. RStream' = RStream /\ Begun' = Begun
  BY DEF RStream, Begun, RxRing, BeginOrder, ringVars, receiveVars
<1>4. ASSUME orderLost' = 0 PROVE RFlowing'
  <2>1. RFlowing /\ ~deaf' /\ received' = received /\ orderLen' = orderLen
    BY <1>4 DEF RInv, BeginOrder, receiveVars, RFlowing
  <2>2. Chain(RStream)' /\ OfOne(Begun, orderLen)' /\ received' \in Nat
    BY <2>1, <1>3 DEF RFlowing, Chain, OfOne, FirstOf
  <2>3. Below(RStream, orders)'
    <3>1. RStream \in Seq(ByteType)
      BY RStreamIs DEF RInv
    <3>2. \A k \in 1 .. Len(RStream) : RStream[k].message \in Nat /\ RStream[k].message <= orders
      <4> TAKE k \in 1 .. Len(RStream)
      <4>1. RStream[k] \in ByteType
        BY <3>1, ElementOfSeq
      <4>2. RStream[k].message \in Nat
        BY <4>1 DEF ByteType
      <4>3. RStream[k].message <= orders
        BY <2>1 DEF RFlowing, Below
      <4> QED BY <4>2, <4>3
    <3>3. \A k \in 1 .. Len(RStream) : RStream[k].message <= orders + 1
      BY <3>2, <1>1
    <3> QED BY <3>3, <1>1, <1>3 DEF Below
  <2>4. ASSUME RStream # <<>> PROVE REnds(RStream[Len(RStream)])'
    <3>1. RStream[Len(RStream)] = Byte(orders, hi - 1, hn)
      BY <2>4, <2>1, <1>1 DEF RFlowing, REnds
    <3> DEFINE b == RStream[Len(RStream)]
    <3>2. b.message = orders /\ b.place = hn - 1 /\ b.size = hn
      BY <3>1, <1>1 DEF Byte
    <3> HIDE DEF b
    <3>3. b.message + 1 = orders + 1 /\ b.place + 1 >= b.size
      BY <3>2, <1>1
    <3> QED BY <3>3, <1>1, <1>3 DEF REnds, b
  <2>5. RStarts'
    BY <2>1, <1>1, <1>3 DEF RStarts, RFlowing
  <2> QED BY <1>3, <2>1, <2>2, <2>3, <2>4, <2>5 DEF RFlowing
<1> QED BY <1>2, <1>4 DEF RInv

LEMMA PutOrderReceives == ASSUME RInv, PutOrderByte PROVE RInv'
<1> DEFINE b == Byte(orders, hi, hn)
<1>1. /\ hi < hn /\ hi' = hi + 1 /\ hi \in Nat /\ hn \in Nat /\ orders \in Nat
      /\ hn' = hn /\ orders' = orders
  BY LengthIs DEF PutOrderByte, RInv, RTypes
<1>2. b \in ByteType /\ b.message = orders /\ b.place = hi /\ b.size = hn
  BY <1>1, ByteIs
<1>3. RStream' = Append(RStream, b) /\ rxWire' \in Seq(ByteType) /\ Begun' = Begun
  <2> HIDE DEF b
  <2>1. rxWire' = Append(rxWire, b) /\ Begun' = Begun /\ RxRing' = RxRing
    BY DEF PutOrderByte, Begun, RxRing, ringVars, receiveVars, b
  <2>2. Begun \in Seq(ByteType) /\ RxRing \in Seq(ByteType) /\ rxWire \in Seq(ByteType) /\ b \in ByteType
    BY RStreamIs, <1>2 DEF RInv, RTypes
  <2>3. Begun \o (RxRing \o Append(rxWire, b)) = Append(Begun \o (RxRing \o rxWire), b)
    BY <2>2, AppendOutside
  <2>4. Append(rxWire, b) \in Seq(ByteType)
    BY <2>2, AppendProperties
  <2> QED BY <2>1, <2>3, <2>4 DEF RStream
<1>4. RTypes'
  BY <1>1, <1>3 DEF RInv, RTypes, PutOrderByte, ringVars, receiveVars
<1> HIDE DEF b
<1>5. ASSUME orderLost' = 0 PROVE RFlowing'
  <2>1. RFlowing /\ ~deaf' /\ received' = received /\ orderLen' = orderLen
    BY <1>5 DEF RInv, PutOrderByte, receiveVars, RFlowing
  <2>2. RStream \in Seq(ByteType)
    BY RStreamIs DEF RInv
  <2>3. /\ Len(RStream) \in Nat /\ RStream' # <<>> /\ Len(RStream') = Len(RStream) + 1
        /\ RStream'[Len(RStream) + 1] = b /\ \A k \in 1 .. Len(RStream) : RStream'[k] = RStream[k]
    BY <1>2, <1>3, <2>2, AppendProperties, LenProperties
  <2>4. Chain(RStream')
    <3>1. ASSUME RStream # <<>> PROVE Follows(b, RStream[Len(RStream)])
      <4> DEFINE z == RStream[Len(RStream)]
      <4>1. REnds(z)
        BY <3>1, <2>1 DEF RFlowing
      <4> HIDE DEF z
      <4>2. CASE hi > 0
        <5>1. z = Byte(orders, hi - 1, hn) /\ hi - 1 \in Nat
          BY <4>1, <4>2, <1>1 DEF REnds
        <5>2. z.message = orders /\ z.place = hi - 1 /\ z.size = hn
          BY <5>1, <1>1, ByteIs
        <5> QED BY <5>2, <1>1 DEF Follows, z, b
      <4>3. CASE ~(hi > 0)
        <5>1. Len(RStream) \in 1 .. Len(RStream)
          BY <3>1, <2>2, EmptySeq, LenProperties
        <5>2. z \in ByteType
          BY <5>1, <2>2, ElementOfSeq DEF z
        <5>3. z.message + 1 = orders /\ z.place + 1 >= z.size /\ hi = 0
          BY <4>1, <4>3, <1>1 DEF REnds
        <5>4. ~(z.place + 1 < z.size) /\ b.message = z.message + 1 /\ b.place = 0
          BY <5>2, <5>3, <1>2 DEF ByteType
        <5> QED BY <5>4 DEF Follows, z
      <4> QED BY <4>2, <4>3
    <3>2. Chain(RStream)
      BY <2>1 DEF RFlowing
    <3> QED BY <3>1, <3>2, <2>2, <1>2, <1>3, ChainAppend
  <2>5. Below(RStream', orders)
    <3>1. ASSUME NEW k \in 1 .. Len(RStream') PROVE RStream'[k].message <= orders
      <4>1. CASE k = Len(RStream) + 1
        BY <4>1, <2>3, <1>1, <1>2
      <4>2. CASE k # Len(RStream) + 1
        <5>1. k \in 1 .. Len(RStream)
          BY <4>2, <2>3
        <5> QED BY <5>1, <2>3, <2>1 DEF RFlowing, Below
      <4> QED BY <4>1, <4>2
    <3> QED BY <3>1 DEF Below
  <2>6. REnds(RStream[Len(RStream)])'
    <3>1. RStream'[Len(RStream')] = b /\ hi' > 0 /\ hi' - 1 = hi
      BY <2>3, <1>1
    <3> QED BY <3>1, <1>1 DEF REnds, b
  <2>7. RStarts'
    <3>1. CASE RStream = <<>>
      <4>1. hi = 0 /\ received + 1 = orders /\ Len(RStream) = 0
        BY <3>1, <2>1, <1>1, EmptySeq DEF RFlowing, RStarts
      <4>2. RStream'[1] = b
        BY <4>1, <2>3
      <4> QED BY <4>1, <4>2, <2>1, <2>3, <1>2 DEF RStarts
    <3>2. CASE RStream # <<>>
      <4>1. 1 \in 1 .. Len(RStream)
        BY <3>2, <2>2, EmptySeq, LenProperties
      <4>2. RStream'[1] = RStream[1]
        BY <4>1, <2>3
      <4> QED BY <3>2, <4>2, <2>1, <2>3 DEF RStarts, RFlowing
    <3> QED BY <3>1, <3>2
  <2>8. OfOne(Begun, orderLen)'
    BY <2>1, <1>3 DEF RFlowing, OfOne, FirstOf
  <2>9. Chain(RStream)' /\ Below(RStream, orders)'
    BY <2>4, <2>5, <1>1 DEF Chain, Below
  <2> QED BY <2>1, <2>6, <2>7, <2>8, <2>9 DEF RFlowing
<1> QED BY <1>4, <1>5 DEF RInv

LEMMA LoseOrderReceives == ASSUME RInv, LoseOrderByte PROVE RInv'
<1>1. rxWire' \in Seq(ByteType)
  BY HeadTailProperties DEF LoseOrderByte, RInv, RTypes
<1>2. orderLost' \in Nat /\ orderLost' # 0
  BY DEF LoseOrderByte, RInv, RTypes
<1> QED BY <1>1, <1>2 DEF LoseOrderByte, RInv, RTypes, hostSendVars, ringVars, receiveVars

\* The interrupt moves a byte from the wire to the ring: the stream stays.
LEMMA InterruptReceives == ASSUME RInv, Rx_interrupt PROVE RInv'
<1>1. rxWire # <<>> /\ NextSlot(rx_in) # rx_out
  BY DEF Rx_interrupt, RxFull
<1>2. rxWire \in Seq(ByteType) /\ RxRing \in Seq(ByteType) /\ Begun \in Seq(ByteType)
  BY RStreamIs DEF RInv, RTypes
<1>3. /\ Head(rxWire) \in ByteType /\ Tail(rxWire) \in Seq(ByteType)
      /\ RxRing \o rxWire = Append(RxRing, Head(rxWire)) \o Tail(rxWire)
  <2>1. /\ Head(rxWire) \in ByteType /\ Tail(rxWire) \in Seq(ByteType)
        /\ RxRing \o (rxWire \o <<>>) = Append(RxRing, Head(rxWire)) \o (Tail(rxWire) \o <<>>)
    BY <1>1, <1>2, EmptySeq, HeadMoves
  <2>2. rxWire \o <<>> = rxWire /\ Tail(rxWire) \o <<>> = Tail(rxWire)
    BY <1>2, <2>1, ConcatEmptySeq
  <2> QED BY <2>1, <2>2
<1>4. RxRing' = Append(RxRing, Head(rxWire))
  <2>1. RxRing' = RingOf([rx_buffer EXCEPT ![rx_in] = Head(rxWire)], NextSlot(rx_in), rx_out)
    BY DEF RxRing, RingOf, CountOf, Rx_interrupt
  <2>2. rx_buffer \in [Slots -> ByteType] /\ rx_in \in Slots /\ rx_out \in Slots
    BY DEF RInv, RTypes
  <2>3. RingOf([rx_buffer EXCEPT ![rx_in] = Head(rxWire)], NextSlot(rx_in), rx_out)
          = Append(RingOf(rx_buffer, rx_in, rx_out), Head(rxWire))
    BY <1>1, <1>3, <2>2, PutAppends
  <2> QED BY <2>1, <2>3, RStreamIs DEF RInv
<1>5. RTypes'
  <2>1. rx_in' \in Slots /\ rx_buffer' \in [Slots -> ByteType]
    BY <1>3, NextSlotIs DEF RInv, RTypes, Rx_interrupt
  <2> QED BY <1>3, <2>1 DEF RInv, RTypes, Rx_interrupt, hostSendVars, receiveVars
<1>6. RStream' = RStream
  BY <1>3, <1>4 DEF RStream, Begun, Rx_interrupt, receiveVars
<1> QED BY <1>5, <1>6, SameOrders DEF Rx_interrupt, receiveVars, OfOne, FirstOf, Begun

\* receive_message begins, or waits: nothing is taken.
LEMMA WaitReceives == ASSUME RInv, BeginReceive \/ BeginSpin \/ EndSpin PROVE RInv'
<1>1. RTypes'
  <2>1. order' \in Seq(ByteType)
    BY EmptySeq DEF BeginReceive, BeginSpin, EndSpin, RInv, RTypes
  <2> QED BY <2>1 DEF BeginReceive, BeginSpin, EndSpin, RInv, RTypes, hostSendVars, ringVars
<1>2. Begun' = Begun
  BY DEF BeginReceive, BeginSpin, EndSpin, Begun
<1>3. RStream' = RStream
  BY <1>2 DEF BeginReceive, BeginSpin, EndSpin, RStream, RxRing, ringVars
<1>4. OfOne(Begun, orderLen) => OfOne(Begun, orderLen)'
  BY <1>2 DEF BeginReceive, BeginSpin, EndSpin, OfOne, FirstOf, Begun
<1> QED BY <1>1, <1>3, <1>4, SameOrders DEF BeginReceive, BeginSpin, EndSpin

\* The byte in the first slot of the ring is the next after those taken.
LEMMA NextTaken ==
  ASSUME RTypes, receiver = "copy", rx_in # rx_out, NEW h, h = rx_buffer[rx_out]
  PROVE  /\ h \in ByteType /\ NextSlot(rx_out) \in Slots
         /\ order \in Seq(ByteType) /\ RxRing \o rxWire \in Seq(ByteType)
         /\ RStream = order \o (RxRing \o rxWire)
         /\ RxRing \o rxWire # <<>> /\ (RxRing \o rxWire)[1] = h
         /\ RingOf(rx_buffer, rx_in, NextSlot(rx_out)) \o rxWire \in Seq(ByteType)
         /\ RStream = Append(order, h) \o (RingOf(rx_buffer, rx_in, NextSlot(rx_out)) \o rxWire)
<1>1. /\ rx_buffer \in [Slots -> ByteType] /\ rx_in \in Slots /\ rx_out \in Slots
      /\ rxWire \in Seq(ByteType) /\ order \in Seq(ByteType)
  BY DEF RTypes
<1>2. /\ RxRing # <<>> /\ h = Head(RxRing)
      /\ RingOf(rx_buffer, rx_in, NextSlot(rx_out)) = Tail(RxRing)
  BY <1>1, RStreamIs, TakeIsHead
<1>3. RxRing \in Seq(ByteType) /\ RxRing \o rxWire \in Seq(ByteType)
  BY RStreamIs
<1>4. RStream = order \o (RxRing \o rxWire)
  BY DEF RStream, Begun
<1>5. /\ Head(RxRing) \in ByteType /\ Tail(RxRing) \in Seq(ByteType)
      /\ order \o (RxRing \o rxWire) = Append(order, Head(RxRing)) \o (Tail(RxRing) \o rxWire)
  BY <1>1, <1>2, <1>3, HeadMoves
<1>6. RxRing \o rxWire # <<>> /\ (RxRing \o rxWire)[1] = Head(RxRing)
  BY <1>1, <1>2, <1>3, HeadOfBoth
<1>7. Tail(RxRing) \o rxWire \in Seq(ByteType)
  BY <1>1, <1>5, ConcatProperties
<1>8. NextSlot(rx_out) \in Slots
  BY <1>1, NextSlotIs
<1> QED BY <1>1, <1>2, <1>3, <1>4, <1>5, <1>6, <1>7, <1>8

\* While nothing is lost, the byte taken for a type is one.
LEMMA UnknownReceives == ASSUME RInv, UnknownType PROVE RInv'
<1>1. receiver = "copy" /\ rx_in # rx_out /\ order = <<>> /\ rx_buffer[rx_out].place # 0
  BY DEF UnknownType
<1>2. RTypes'
  BY DEF UnknownType, RInv, RTypes, hostSendVars, ringVars
<1>3. orderLost # 0
  <2> SUFFICES ASSUME orderLost = 0 PROVE FALSE
    BY DEF RInv, RTypes
  <2> DEFINE t == RxRing \o rxWire
  <2>1. PICK h : h = rx_buffer[rx_out]
    OBVIOUS
  <2>2. t \in Seq(ByteType) /\ RStream = order \o t /\ t # <<>> /\ t[1] = h
    BY <1>1, <2>1, NextTaken DEF RInv
  <2> HIDE DEF t
  <2>3. RStream = t
    BY <1>1, <2>2, ConcatEmptySeq
  <2>4. h.place = 0
    BY <2>2, <2>3 DEF RInv, RFlowing, RStarts
  <2> QED BY <1>1, <2>1, <2>4
<1> QED BY <1>2, <1>3 DEF UnknownType, RInv

\* One byte is taken.  With the last one of a message the message is received:
\* it is whole, and it is the one after the last.
LEMMA CopyReceives ==
  ASSUME RInv, NEW size \in Lengths, CopyByte(size)
  PROVE  RInv' /\ (orderLost' = 0 => received' = received \/ received' = received + 1)
<1> DEFINE h == rx_buffer[rx_out]
           rest == RingOf(rx_buffer, rx_in, NextSlot(rx_out)) \o rxWire
           s == Append(order, h)
<1>1. /\ receiver = "copy" /\ rx_in # rx_out /\ orderLen' = size
      /\ order = <<>> => size \in Recognised(h)
      /\ order # <<>> => size = orderLen
      /\ order' = s /\ rx_out' = NextSlot(rx_out)
      /\ UNCHANGED <<hostSendVars, rxWire, rx_buffer, rx_in, deaf, orderLost>>
  BY DEF CopyByte
<1>2. /\ h \in ByteType /\ NextSlot(rx_out) \in Slots
      /\ order \in Seq(ByteType) /\ RxRing \o rxWire \in Seq(ByteType)
      /\ RStream = order \o (RxRing \o rxWire)
      /\ RxRing \o rxWire # <<>> /\ (RxRing \o rxWire)[1] = h
      /\ rest \in Seq(ByteType) /\ RStream = s \o rest
  BY <1>1, NextTaken DEF RInv
<1>3. /\ s \in Seq(ByteType) /\ s # <<>> /\ Len(s) = Len(order) + 1 /\ s[Len(s)] = h
      /\ Len(order) \in Nat /\ Len(s) \in 1 .. Len(s) /\ 1 \in 1 .. Len(s)
  <2> HIDE DEF h
  <2>1. Len(order) \in Nat
    BY <1>2, LenProperties
  <2>2. s \in Seq(ByteType) /\ s # <<>> /\ Len(s) = Len(order) + 1 /\ s[Len(order) + 1] = h
    BY <1>2, AppendProperties
  <2> QED BY <2>1, <2>2
<1>4. \/ Len(s) = size /\ receiver' = "idle" /\ received' = IF WholeMessage(s) THEN s[1].message ELSE NotParsed
      \/ Len(s) # size /\ receiver' = "copy" /\ received' = received
  BY <1>1 DEF CopyByte
<1>5. RTypes'
  BY <1>1, <1>2, <1>3, <1>4 DEF RInv, RTypes, hostSendVars
<1>6. RxRing' \o rxWire' = rest
  BY <1>1 DEF RxRing, RingOf, CountOf
<1> HIDE DEF h, rest
<1>7. ASSUME orderLost' = 0 PROVE RFlowing' /\ (received' = received \/ received' = received + 1)
  <2>1. RFlowing /\ ~deaf' /\ orders' = orders /\ hi' = hi /\ hn' = hn /\ orders \in Nat
        /\ size \in Nat /\ size >= 2 /\ hi \in Nat /\ hn \in Nat /\ hi <= hn
    BY <1>1, <1>7, LengthIs DEF RInv, RTypes, RFlowing, hostSendVars
  <2>2. Begun = order
    BY <1>1 DEF Begun
  <2>3. OfOne(order, orderLen)
    BY <2>1, <2>2 DEF RFlowing
  <2>4. RStream # <<>> /\ RStream[1] = s[1] /\ s[1].place = 0 /\ s[1].message = received + 1
    <3> HIDE DEF s
    <3>1. RStream # <<>> /\ RStream[1] = Head(s)
      BY <1>2, <1>3, HeadOfBoth
    <3> QED BY <3>1, <1>3, <2>1 DEF RFlowing, RStarts
  <2>5. FirstOf(s, size)
    <3> DEFINE t == RxRing \o rxWire
    <3>1. t \in Seq(ByteType) /\ RStream = order \o t /\ t # <<>> /\ t[1] = h
      BY <1>2
    <3> HIDE DEF t
    <3>2. order = <<>> => h.place = 0
      BY <3>1, <2>4, <1>2, ConcatEmptySeq
    <3>3. Chain(order \o t)
      BY <3>1, <2>1 DEF RFlowing
    <3>4. GoesOn(order, t, h, orderLen, size)
      BY <3>1, <3>2, <3>3, <2>3, <1>1 DEF GoesOn
    <3>5. FirstOf(Append(order, h), size)
      BY <3>1, <3>4, <1>2, MessageGrows
    <3> QED BY <3>5
  <2> HIDE DEF s
  <2>6. Len(s) <= size
    <3>1. order = <<>> => Len(order) = 0
      BY EmptySeq
    <3> QED BY <3>1, <2>1, <2>3, <1>1, <1>3 DEF OfOne
  <2>7. CASE Len(s) # size
    <3>1. Begun' = s /\ receiver' = "copy" /\ received' = received
      BY <2>7, <1>1, <1>4 DEF Begun
    <3>2. RStream' = RStream
      BY <3>1, <1>2, <1>6 DEF RStream
    <3>3. OfOne(Begun, orderLen)'
      BY <3>1, <2>1, <2>5, <2>6, <2>7, <1>1, <1>3 DEF OfOne, FirstOf
    <3> QED BY <3>1, <3>2, <3>3, <2>1 DEF RFlowing, Chain, Below, REnds, RStarts
  <2>8. CASE Len(s) = size
    <3>1. Begun' = <<>> /\ receiver' = "idle"
      BY <2>8, <1>4 DEF Begun
    <3>2. RStream' = rest
      <4>1. RStream' = <<>> \o rest
        BY <3>1, <1>6 DEF RStream
      <4> QED BY <4>1, <1>2, ConcatEmptySeq
    <3>3. WholeMessage(s)
      <4>1. DOMAIN s = 1 .. Len(s)
        BY <1>3, LenProperties
      <4> QED BY <4>1, <2>5, <2>8 DEF WholeMessage, FirstOf
    <3>4. received' = received + 1 /\ received' = s[1].message /\ received' \in Nat
      BY <3>3, <2>1, <2>4, <2>8, <1>4 DEF RFlowing
    <3>5. h = Byte(received', size - 1, size) /\ h.message = received' /\ h.place + 1 = size /\ h.size = size
      <4>1. h = Byte(received', size - 1, size)
        BY <3>4, <2>5, <2>8, <1>3 DEF FirstOf
      <4>2. PICK r \in Nat : r = received'
        BY <3>4
      <4>3. h.message = r /\ h.place = size - 1 /\ h.size = size
        BY <4>1, <4>2, <2>1, ByteIs
      <4> QED BY <4>1, <4>2, <4>3, <2>1
    <3>6. Chain(s \o rest) /\ Below(s \o rest, orders)
      BY <1>2, <2>1 DEF RFlowing
    <3>7. /\ Chain(rest) /\ Below(rest, orders)
          /\ rest # <<>> => Follows(rest[1], h)
          /\ rest # <<>> => rest[Len(rest)] = RStream[Len(RStream)]
          /\ rest = <<>> => RStream = s
      <4>1. Below(rest, orders)
        BY <3>6, <1>2, <1>3, BelowCut
      <4>2. /\ Chain(rest)
            /\ rest # <<>> => Follows(rest[1], h)
            /\ rest # <<>> => rest[Len(rest)] = RStream[Len(RStream)]
            /\ rest = <<>> => RStream = s
        <5>1. s \in Seq(ByteType) /\ rest \in Seq(ByteType) /\ Chain(s \o rest)
          BY <3>6, <1>2, <1>3
        <5>2. /\ Chain(rest)
              /\ s # <<>> /\ rest # <<>> => Follows(rest[1], s[Len(s)])
              /\ rest # <<>> => rest[Len(rest)] = (s \o rest)[Len(s \o rest)]
              /\ rest = <<>> => s \o rest = s
          BY <5>1, ChainCut
        <5> QED BY <5>2, <1>2, <1>3
      <4> QED BY <4>1, <4>2
    <3>8. REnds(RStream[Len(RStream)])
      BY <2>1, <2>4 DEF RFlowing
    <3>9. (RStream # <<>> => REnds(RStream[Len(RStream)]))'
      <4>1. rest # <<>> => REnds(rest[Len(rest)])
        BY <3>7, <3>8
      <4> QED BY <4>1, <3>2, <2>1 DEF REnds
    <3>10. RStarts'
      <4>1. CASE rest # <<>>
        <5>1. rest[1].place = 0 /\ rest[1].message = received' + 1
          BY <4>1, <3>5, <3>7, <2>1 DEF Follows
        <5> QED BY <4>1, <5>1, <3>2 DEF RStarts
      <4>2. CASE rest = <<>>
        <5>1. REnds(h)
          BY <4>2, <3>7, <3>8, <1>3
        <5>2. CASE hi > 0
          <6>1. h = Byte(orders, hi - 1, hn) /\ hi - 1 \in Nat
            BY <5>1, <5>2, <2>1 DEF REnds
          <6>2. h.message = orders /\ h.place = hi - 1 /\ h.size = hn
            BY <6>1, <2>1, ByteIs
          <6>3. hi = hn /\ received' = orders
            BY <6>2, <3>5, <2>1
          <6> QED BY <6>3, <5>2, <4>2, <3>2, <2>1 DEF RStarts
        <5>3. CASE ~(hi > 0)
          <6>1. hi = 0 /\ received' + 1 = orders
            BY <5>1, <5>3, <3>5, <2>1 DEF REnds
          <6> QED BY <6>1, <4>2, <3>2, <2>1 DEF RStarts
        <5> QED BY <5>2, <5>3
      <4> QED BY <4>1, <4>2
    <3>11. Chain(RStream)' /\ Below(RStream, orders)'
      BY <3>2, <3>7, <2>1 DEF Chain, Below
    <3>12. OfOne(Begun, orderLen)'
      BY <3>1 DEF OfOne
    <3> QED BY <2>1, <3>4, <3>9, <3>10, <3>11, <3>12 DEF RFlowing
  <2> QED BY <2>7, <2>8
<1> QED BY <1>5, <1>7 DEF RInv

LEMMA LineReceives == RInv /\ [LineNext]_lineVars => RInv'
<1> SUFFICES ASSUME RInv, [LineNext]_lineVars PROVE RInv'
  OBVIOUS
<1>1. CASE UNCHANGED boardInVars
  <2>1. RTypes' /\ RStream' = RStream
    BY <1>1 DEF boardInVars, hostSendVars, ringVars, receiveVars, RInv, RTypes, RStream, RxRing, Begun
  <2>2. OfOne(Begun, orderLen) => OfOne(Begun, orderLen)'
    BY <1>1 DEF boardInVars, receiveVars, OfOne, FirstOf, Begun
  <2> QED BY <1>1, <2>1, <2>2, SameOrders DEF boardInVars, receiveVars
<1>2. CASE LineSender \/ LineTx \/ LineHost \/ LineLose \/ Unread
  BY <1>1, <1>2 DEF LineSender, LineTx, LineHost, LineLose, Unread
<1>3. CASE PutOrderByte
  BY <1>3, PutOrderReceives
<1>4. CASE Rx_interrupt
  BY <1>4, InterruptReceives
<1>5. CASE Receiver
  BY <1>5, WaitReceives, UnknownReceives, CopyReceives DEF Receiver
<1>6. CASE LoseOrderByte
  BY <1>6, LoseOrderReceives
<1>7. ASSUME NEW size \in Lengths, LineSendMessage(size) \/ BeginOrder(size) PROVE RInv'
  BY <1>1, <1>7, BeginOrderReceives DEF LineSendMessage
<1>8. CASE UNCHANGED lineVars
  BY <1>1, <1>8 DEF lineVars
<1> QED BY <1>2, <1>3, <1>4, <1>5, <1>6, <1>7, <1>8 DEF LineNext

LEMMA ReceivesIntact == RInv => OrdersIntact
<1> SUFFICES ASSUME RInv, orderLost = 0
             PROVE  /\ ~deaf
                    /\ RStream # <<>> => RStream[1].place = 0
                    /\ \A k \in 1 .. Len(RStream) - 1 : Follows(RStream[k + 1], RStream[k])
                    /\ RStream # <<>> /\ hi > 0 => RStream[Len(RStream)] = Byte(orders, hi - 1, hn)
  <2>1. RInv => Begun \o RxRing \o rxWire = RStream
    <3> SUFFICES ASSUME RInv PROVE Begun \o RxRing \o rxWire = RStream
      OBVIOUS
    <3>1. Begun \in Seq(ByteType) /\ RxRing \in Seq(ByteType) /\ rxWire \in Seq(ByteType)
      BY RStreamIs DEF RInv, RTypes
    <3>2. \A s, t, u \in Seq(ByteType) : s \o (t \o u) = (s \o t) \o u
      BY Regroup
    <3> QED BY <3>1, <3>2 DEF RStream
  <2> QED BY <2>1 DEF OrdersIntact, Begun
<1> QED BY DEF RInv, RFlowing, Chain, REnds, RStarts

\* OrdersIntact: what the host sends is never torn, mixed or taken from the
\* middle on its way into receive_message, while no byte of it is lost.
THEOREM OrdersStayInOrder == LineSpec => []OrdersIntact
BY InitReceives, LineReceives, ReceivesIntact, PTL DEF LineSpec

\* What a step does to the two counters of the way to the board.
LEMMA OrdersCount ==
  ASSUME RInv, [LineNext]_lineVars
  PROVE  /\ orderLost \in Nat /\ orderLost' \in Nat /\ (orderLost # 0 => orderLost' # 0)
         /\ orderLost' = 0 =>
              \/ UNCHANGED <<orders, received>>
              \/ orders < MaxOrders /\ orders' = orders + 1 /\ received' = received
              \/ received' = received + 1 /\ orders' = orders
<1>1. orderLost \in Nat /\ RInv'
  BY LineReceives DEF RInv, RTypes
<1>2. CASE UNCHANGED boardInVars
  BY <1>1, <1>2 DEF boardInVars, hostSendVars, receiveVars
<1>3. CASE LineSender \/ LineTx \/ LineHost \/ LineLose \/ Unread
  BY <1>2, <1>3 DEF LineSender, LineTx, LineHost, LineLose, Unread
<1>4. CASE PutOrderByte \/ Rx_interrupt \/ BeginReceive \/ BeginSpin \/ EndSpin \/ UnknownType
  BY <1>1, <1>4 DEF PutOrderByte, Rx_interrupt, BeginReceive, BeginSpin, EndSpin, UnknownType, receiveVars,
                    hostSendVars
<1>5. CASE LoseOrderByte
  BY <1>1, <1>5 DEF LoseOrderByte
<1>6. ASSUME NEW size \in Lengths, LineSendMessage(size) \/ BeginOrder(size)
      PROVE  \/ UNCHANGED boardInVars
             \/ UNCHANGED <<received, orderLost>> /\ orders < MaxOrders /\ orders' = orders + 1
  BY <1>6 DEF LineSendMessage, BeginOrder, receiveVars
<1>7. ASSUME NEW size \in Lengths, CopyByte(size), orderLost' = 0
      PROVE  orders' = orders /\ (received' = received \/ received' = received + 1)
  BY <1>7, CopyReceives DEF CopyByte, hostSendVars
<1>8. CASE UNCHANGED lineVars
  BY <1>2, <1>8 DEF lineVars
<1>9. ASSUME NEW size \in Lengths, CopyByte(size) PROVE orderLost' = orderLost
  BY <1>9 DEF CopyByte
<1> QED BY <1>8, <1>1, <1>2, <1>3, <1>4, <1>5, <1>6, <1>7, <1>9 DEF LineNext, Receiver

LEMMA ReceivedBelow == RInv /\ orderLost = 0 => received \in Nat /\ orders \in Nat /\ received <= orders
<1> SUFFICES ASSUME RInv, orderLost = 0 PROVE received \in Nat /\ orders \in Nat /\ received <= orders
  OBVIOUS
<1>1. RFlowing /\ orders \in Nat /\ received \in Nat
  BY DEF RInv, RTypes, RFlowing
<1>2. CASE RStream = <<>>
  BY <1>1, <1>2 DEF RFlowing, RStarts
<1>3. CASE RStream # <<>>
  <2>1. 1 \in 1 .. Len(RStream)
    BY <1>3, RStreamIs, EmptySeq, LenProperties DEF RInv
  <2>2. RStream[1].message <= orders /\ RStream[1].message = received + 1
    BY <1>1, <1>3, <2>1 DEF RFlowing, RStarts, Below
  <2> QED BY <1>1, <2>2
<1> QED BY <1>1, <1>2, <1>3

LEMMA BoardLinkInit == LineInit => BoardLink!Init
<1> DEFINE transit == [k \in 1 .. orders - received |-> received + k]
<1> SUFFICES ASSUME LineInit PROVE BoardLink!Init
  OBVIOUS
<1>1. transit = Between(received, orders)
  BY DEF Between
<1>2. Between(received, orders) = <<>>
  BY BetweenIs DEF LineInit
<1>3. received = 0 /\ (orderLost > 0) = FALSE
  BY DEF LineInit
<1> QED BY <1>1, <1>2, <1>3 DEF BoardLink!Init

LEMMA BoardLinkStep == RInv /\ [LineNext]_lineVars => [BoardLink!Next]_BoardLink!vars
<1> DEFINE transit == [k \in 1 .. orders - received |-> received + k]
<1>0. transit = Between(received, orders) /\ transit' = Between(received', orders')
  BY DEF Between
<1> SUFFICES ASSUME RInv, [LineNext]_lineVars PROVE [BoardLink!Next]_BoardLink!vars
  OBVIOUS
<1>1. orderLost \in Nat /\ orderLost' \in Nat /\ (orderLost # 0 => orderLost' # 0)
  BY OrdersCount
<1>2. CASE orderLost' # 0
  <2>1. orderLost' > 0
    BY <1>1, <1>2
  <2> QED BY <2>1 DEF BoardLink!Next, BoardLink!Break
<1>3. CASE orderLost' = 0
  <2>1. orderLost = 0 /\ (orderLost > 0) = FALSE /\ (orderLost' > 0) = FALSE
    BY <1>1, <1>3
  <2>2. received \in Nat /\ orders \in Nat /\ received <= orders
    BY <2>1, ReceivedBelow
  <2>3. received' <= orders'
    <3>1. RInv'
      BY LineReceives
    <3>2. RInv' /\ (orderLost = 0)' => (received \in Nat /\ orders \in Nat /\ received <= orders)'
      BY ReceivedBelow, PTL
    <3> QED BY <3>1, <3>2, <1>3
  <2>4. \/ UNCHANGED <<orders, received>>
        \/ orders < MaxOrders /\ orders' = orders + 1 /\ received' = received
        \/ received' = received + 1 /\ orders' = orders
    BY <1>3, OrdersCount
  <2>5. CASE UNCHANGED <<orders, received>>
    BY <2>1, <2>5 DEF BoardLink!vars
  <2>6. CASE orders < MaxOrders /\ orders' = orders + 1 /\ received' = received
    <3>1. PICK m \in 1 .. MaxOrders : m = orders + 1
      BY <2>2, <2>6, OrderBoundAssumption
    <3>2. Append(Between(received, orders), orders + 1) = Between(received, orders + 1)
      BY <2>2, BetweenIs
    <3> HIDE DEF transit
    <3>3. transit' = Append(transit, m)
      BY <1>0, <2>6, <3>1, <3>2
    <3>4. BoardLink!Send(m)
      BY <2>1, <2>6, <3>3 DEF BoardLink!Send, transit
    <3> QED BY <3>4 DEF BoardLink!Next
  <2>7. CASE received' = received + 1 /\ orders' = orders
    <3>1. received < orders
      BY <2>2, <2>3, <2>7
    <3>2. /\ Between(received, orders) # <<>> /\ Head(Between(received, orders)) = received + 1
          /\ Tail(Between(received, orders)) = Between(received + 1, orders)
      BY <2>2, <3>1, BetweenIs
    <3> HIDE DEF transit
    <3>3. transit # <<>> /\ received' = Head(transit) /\ transit' = Tail(transit)
      BY <1>0, <2>7, <3>2
    <3>4. BoardLink!Take
      BY <2>1, <3>3 DEF BoardLink!Take, transit
    <3> QED BY <3>4 DEF BoardLink!Next
  <2> QED BY <2>4, <2>5, <2>6, <2>7
<1> QED BY <1>2, <1>3

LEMMA LineLinkStep == AInv /\ [LineNext]_lineVars => [Link!Next]_Link!vars
<1> SUFFICES ASSUME AInv, [LineNext]_lineVars PROVE [Link!Next]_Link!vars
  OBVIOUS
<1>1. CASE Unread
  <2>1. lost \in Nat /\ lost # 0 /\ lost' = lost
    BY <1>1 DEF Unread, AInv, Arriving, SInv, Types
  <2>2. lost' > 0
    BY <2>1
  <2> QED BY <2>2 DEF Link!Next, Link!Break
<1> QED BY <1>1, LineStep, LinkStep

\* The line keeps, both ways, the safety of what SemSystem takes it for:
\* messages arrive whole, each once and in the order of sending.
THEOREM LinesImplementLinks ==
  LineSpec => /\ Link!Init /\ [][Link!Next]_Link!vars
              /\ BoardLink!Init /\ [][BoardLink!Next]_BoardLink!vars
<1>1. LineInit => AInv /\ Link!Init /\ BoardLink!Init /\ RInv
  BY InitArrives, LinkInit, BoardLinkInit, InitReceives DEF LineInit
<1> QED
  BY <1>1, LineArrives, LineLinkStep, LineReceives, BoardLinkStep, PTL DEF LineSpec
=============================================================================
