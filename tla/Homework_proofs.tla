-------------------------- MODULE Homework_proofs --------------------------
(***************************************************************************)
(* Proofs about homeworks 1 to 5 and 7.                                    *)
(*                                                                         *)
(* Homework 7, for any entries, keys and lengths, also where last has gone *)
(* astray: LinkedList.tla keeps its order, GenericQueue.tla owns each      *)
(* entry once and implements LinkedList.  The argument about erase() is by *)
(* induction over its loop: what is left of a list is found by a map of    *)
(* its places to those of the whole, in their order (Keeps).               *)
(*                                                                         *)
(* Homework 5, for matrices of any sizes and inputs of any length: the     *)
(* calculator computes the value of its input.  The argument says of what  *)
(* m1, m2 and the sign are the value while the input is read (CalcInv); it *)
(* rests on sums over finite sets, on the product being associative and on *)
(* ProductOf, which is shown to be what its definition says.               *)
(*                                                                         *)
(* Homeworks 1 to 4, for any inputs and any sieve: what each prints, as    *)
(* far as it is right.  Recursion over places is shown to have a function it describes  *)
(* (RecursionExists); the factors are found by an induction over the p     *)
(* tried (Found), the lines of grep by one over the lines read (Selected). *)
(*                                                                         *)
(* Induction is over sets: of numbers (SetInduction), of the subsets of a  *)
(* finite set (SubsetInduction).                                           *)
(***************************************************************************)
EXTENDS LinkedList, GenericQueue, MatrixCalc, SmallPrograms, SequenceTheorems, FiniteSetTheorems, WellFoundedInduction, TLAPS

-----------------------------------------------------------------------------
\* Induction, over a set of numbers.
LEMMA SetInduction ==
  ASSUME NEW S, 0 \in S, \A n \in Nat : n \in S => n + 1 \in S
  PROVE  Nat \subseteq S
<1> DEFINE T == Nat \ S
           R == OpToRel(<, Nat)
<1> SUFFICES ASSUME T # {} PROVE FALSE
  OBVIOUS
<1>1. IsWellFoundedOn(R, Nat)
  BY NatLessThanWellFounded
<1>2. T \subseteq Nat
  OBVIOUS
<1> HIDE DEF T, R
<1>3. PICK x \in T : \A y \in T : ~(<<y, x>> \in R)
  BY <1>1, <1>2, WFMin
<1>4. x \in Nat /\ x # 0 /\ x - 1 \in Nat /\ x - 1 < x
  BY <1>3 DEF T
<1>5. <<x - 1, x>> \in R
  BY <1>4 DEF R, OpToRel
<1>6. x - 1 \notin T
  BY <1>3, <1>5
<1>7. x - 1 \in S
  BY <1>4, <1>6 DEF T
<1>8. (x - 1) + 1 \in S
  BY <1>4, <1>7
<1> QED BY <1>3, <1>4, <1>8 DEF T

-----------------------------------------------------------------------------
(* the loop of erase() *)

\* One place of the loop.
Loop(f, s, D, n) ==
    f = [k \in 0 .. n |->
            IF k = 0 THEN <<>> ELSE IF s[k] \in D THEN f[k - 1] ELSE Append(f[k - 1], s[k])]

LEMMA LoopRuns ==
    ASSUME NEW s, NEW D, NEW n \in Nat
    PROVE  \E f : Loop(f, s, D, n)
<1> DEFINE S == {m \in Nat : \E f : Loop(f, s, D, m)}
<1>1. 0 \in S
  <2> DEFINE f == [k \in 0 .. 0 |-> <<>>]
  <2>1. f = [k \in 0 .. 0 |->
            IF k = 0 THEN <<>> ELSE IF s[k] \in D THEN f[k - 1] ELSE Append(f[k - 1], s[k])]
    OBVIOUS
  <2> QED BY <2>1 DEF Loop
<1>2. ASSUME NEW m \in Nat, m \in S PROVE m + 1 \in S
  <2>1. PICK f : Loop(f, s, D, m)
    BY <1>2
  <2> DEFINE e == IF s[m + 1] \in D THEN f[m] ELSE Append(f[m], s[m + 1])
             g == [k \in 0 .. m + 1 |-> IF k = m + 1 THEN e ELSE f[k]]
             h == [k \in 0 .. m + 1 |->
                     IF k = 0 THEN <<>> ELSE IF s[k] \in D THEN g[k - 1] ELSE Append(g[k - 1], s[k])]
  <2>2. \A k \in 0 .. m : f[k] = IF k = 0 THEN <<>> ELSE IF s[k] \in D THEN f[k - 1] ELSE Append(f[k - 1], s[k])
    BY <2>1 DEF Loop
  <2>3. ASSUME NEW k \in 0 .. m + 1 PROVE g[k] = h[k]
    <3>1. CASE k = m + 1
      BY <3>1
    <3>2. CASE k \in 0 .. m /\ k # 0
      <4>1. k - 1 \in 0 .. m + 1 /\ k - 1 # m + 1 /\ k # m + 1
        BY <3>2
      <4>2. g[k - 1] = f[k - 1] /\ g[k] = f[k]
        BY <4>1
      <4> HIDE DEF g
      <4> QED BY <3>2, <2>2, <4>2
    <3>3. CASE k = 0
      BY <3>3, <2>2
    <3> QED BY <3>1, <3>2, <3>3
  <2>4. g = h
    <3> HIDE DEF e
    <3>1. DOMAIN g = 0 .. m + 1 /\ DOMAIN h = 0 .. m + 1
      OBVIOUS
    <3> QED BY <2>3
  <2>5. Loop(g, s, D, m + 1)
    <3> HIDE DEF g
    <3> QED BY <2>4 DEF Loop
  <2> QED BY <2>5
<1> HIDE DEF S
<1>3. Nat \subseteq S
  BY <1>1, <1>2, SetInduction
<1> QED BY <1>3 DEF S

\* What the loop has after each place.
LEMMA WithoutIs ==
    ASSUME NEW s, NEW D, Len(s) \in Nat
    PROVE  \E f : /\ f[0] = <<>>
                  /\ \A k \in 1 .. Len(s) : f[k] = IF s[k] \in D THEN f[k - 1] ELSE Append(f[k - 1], s[k])
                  /\ Without(s, D) = f[Len(s)]
<1> DEFINE f == CHOOSE g : Loop(g, s, D, Len(s))
<1>1. Loop(f, s, D, Len(s))
  BY LoopRuns
<1>2. Without(s, D) = f[Len(s)]
  BY DEF Without, Loop
<1> HIDE DEF f
<1>3. \A k \in 0 .. Len(s) : f[k] = IF k = 0 THEN <<>> ELSE IF s[k] \in D THEN f[k - 1] ELSE Append(f[k - 1], s[k])
  BY <1>1 DEF Loop
<1>4. f[0] = <<>>
  BY <1>3
<1>5. \A k \in 1 .. Len(s) : f[k] = IF s[k] \in D THEN f[k - 1] ELSE Append(f[k - 1], s[k])
  BY <1>3
<1> QED BY <1>2, <1>4, <1>5

\* The list r is what is left of the first n places of s: g are the places.
Keeps(r, s, D, n, g) ==
    /\ g \in Seq(1 .. n) /\ Len(g) = Len(r)
    /\ \A k \in 1 .. Len(r) : r[k] = s[g[k]] /\ s[g[k]] \notin D
    /\ \A j, k \in 1 .. Len(r) : j < k => g[j] < g[k]
    /\ \A i \in 1 .. n : s[i] \notin D => \E k \in 1 .. Len(r) : g[k] = i

\* One more place, which is kept.
LEMMA OneMoreKept ==
    ASSUME NEW T, NEW s \in Seq(T), NEW D, NEW n \in Nat, n + 1 \in 1 .. Len(s), s[n + 1] \notin D,
           NEW r \in Seq(T), NEW g, Keeps(r, s, D, n, g),
           NEW r1, r1 = Append(r, s[n + 1])
    PROVE  r1 \in Seq(T) /\ \E h : Keeps(r1, s, D, n + 1, h)
<1> DEFINE h == Append(g, n + 1)
<1>1. s[n + 1] \in T
  BY ElementOfSeq
<1>2. /\ r1 \in Seq(T) /\ Len(r1) = Len(r) + 1 /\ Len(r) \in Nat
      /\ \A i \in 1 .. Len(r) : r1[i] = r[i]
      /\ r1[Len(r) + 1] = s[n + 1]
  BY <1>1, AppendProperties, LenProperties
<1>3. g \in Seq(1 .. n) /\ Len(g) = Len(r)
  BY DEF Keeps
<1>4. g \in Seq(1 .. n + 1)
  <2>1. 1 .. n \subseteq 1 .. n + 1
    OBVIOUS
  <2> QED BY <1>3, <2>1, SeqMonotonic
<1>5. /\ h \in Seq(1 .. n + 1) /\ Len(h) = Len(r) + 1
      /\ \A i \in 1 .. Len(r) : h[i] = g[i]
      /\ h[Len(r) + 1] = n + 1
  <2>1. n + 1 \in 1 .. n + 1
    OBVIOUS
  <2> QED BY <2>1, <1>3, <1>4, AppendProperties
<1>6. \A i \in 1 .. Len(r) : g[i] \in 1 .. n
  <2> TAKE i \in 1 .. Len(r)
  <2>1. i \in 1 .. Len(g)
    BY <1>3
  <2> QED BY <1>3, <2>1, ElementOfSeq
<1> HIDE DEF h
<1>7. \A k \in 1 .. Len(r1) : r1[k] = s[h[k]] /\ s[h[k]] \notin D
  <2> TAKE k \in 1 .. Len(r1)
  <2>1. CASE k = Len(r) + 1
    BY <1>2, <1>5, <2>1
  <2>2. CASE k \in 1 .. Len(r)
    BY <1>2, <1>5, <2>2 DEF Keeps
  <2> QED BY <1>2, <2>1, <2>2
<1>8. \A j, k \in 1 .. Len(r1) : j < k => h[j] < h[k]
  <2> SUFFICES ASSUME NEW j \in 1 .. Len(r1), NEW k \in 1 .. Len(r1), j < k PROVE h[j] < h[k]
    OBVIOUS
  <2>1. j \in 1 .. Len(r)
    BY <1>2
  <2>2. CASE k = Len(r) + 1
    BY <1>5, <1>6, <2>1, <2>2
  <2>3. CASE k \in 1 .. Len(r)
    BY <1>5, <2>1, <2>3 DEF Keeps
  <2> QED BY <1>2, <2>2, <2>3
<1>9. \A i \in 1 .. n + 1 : s[i] \notin D => \E k \in 1 .. Len(r1) : h[k] = i
  <2> SUFFICES ASSUME NEW i \in 1 .. n + 1, s[i] \notin D PROVE \E k \in 1 .. Len(r1) : h[k] = i
    OBVIOUS
  <2>1. CASE i = n + 1
    <3>1. Len(r) + 1 \in 1 .. Len(r1)
      BY <1>2
    <3> QED BY <1>5, <2>1, <3>1
  <2>2. CASE i \in 1 .. n
    <3>1. PICK k \in 1 .. Len(r) : g[k] = i
      BY <2>2 DEF Keeps
    <3>2. k \in 1 .. Len(r1)
      BY <1>2
    <3> QED BY <1>5, <3>1, <3>2
  <2> QED BY <2>1, <2>2
<1>10. Keeps(r1, s, D, n + 1, h)
  BY <1>2, <1>5, <1>7, <1>8, <1>9 DEF Keeps
<1> QED BY <1>2, <1>10

\* What erase() leaves of a list.
LEMMA WithoutKeeps ==
    ASSUME NEW T, NEW s \in Seq(T), NEW D
    PROVE  Without(s, D) \in Seq(T) /\ \E g : Keeps(Without(s, D), s, D, Len(s), g)
<1>1. Len(s) \in Nat
  BY LenProperties
<1>2. PICK f : /\ f[0] = <<>>
               /\ \A k \in 1 .. Len(s) : f[k] = IF s[k] \in D THEN f[k - 1] ELSE Append(f[k - 1], s[k])
               /\ Without(s, D) = f[Len(s)]
  BY <1>1, WithoutIs
<1> DEFINE S == {n \in Nat : n <= Len(s) => f[n] \in Seq(T) /\ \E g : Keeps(f[n], s, D, n, g)}
<1>3. 0 \in S
  <2>1. f[0] \in Seq(T) /\ Len(f[0]) = 0
    BY <1>2
  <2>2. <<>> \in Seq(1 .. 0) /\ Len(<<>>) = 0
    BY EmptySeq
  <2>3. Keeps(f[0], s, D, 0, <<>>)
    BY <2>1, <2>2 DEF Keeps
  <2> QED BY <2>1, <2>3
<1>4. ASSUME NEW n \in Nat, n \in S PROVE n + 1 \in S
  <2> SUFFICES ASSUME n + 1 <= Len(s) PROVE f[n + 1] \in Seq(T) /\ \E g : Keeps(f[n + 1], s, D, n + 1, g)
    OBVIOUS
  <2>1. PICK g : Keeps(f[n], s, D, n, g)
    BY <1>1, <1>4
  <2>2. f[n] \in Seq(T) /\ n + 1 \in 1 .. Len(s) /\ (n + 1) - 1 = n
    BY <1>1, <1>4
  <2>3. f[n + 1] = IF s[n + 1] \in D THEN f[n] ELSE Append(f[n], s[n + 1])
    BY <1>2, <2>2
  <2>4. CASE s[n + 1] \in D
    <3>1. f[n + 1] = f[n]
      BY <2>3, <2>4
    <3>2. g \in Seq(1 .. n + 1)
      <4>1. g \in Seq(1 .. n) /\ 1 .. n \subseteq 1 .. n + 1
        BY <2>1 DEF Keeps
      <4> QED BY <4>1, SeqMonotonic
    <3>3. \A i \in 1 .. n + 1 : s[i] \notin D => \E k \in 1 .. Len(f[n]) : g[k] = i
      <4> SUFFICES ASSUME NEW i \in 1 .. n + 1, s[i] \notin D PROVE \E k \in 1 .. Len(f[n]) : g[k] = i
        OBVIOUS
      <4>1. i \in 1 .. n
        BY <2>4
      <4> QED BY <4>1, <2>1 DEF Keeps
    <3>4. Keeps(f[n], s, D, n + 1, g)
      BY <2>1, <3>2, <3>3 DEF Keeps
    <3> QED BY <2>2, <3>1, <3>4
  <2>5. CASE s[n + 1] \notin D
    <3>1. f[n + 1] = Append(f[n], s[n + 1])
      BY <2>3, <2>5
    <3> QED BY <2>1, <2>2, <2>5, <3>1, OneMoreKept
  <2> QED BY <2>4, <2>5
<1> HIDE DEF S
<1>5. Nat \subseteq S
  BY <1>3, <1>4, SetInduction
<1>6. Len(s) \in S
  BY <1>1, <1>5
<1> QED BY <1>1, <1>2, <1>6 DEF S

-----------------------------------------------------------------------------
(* linked_list.c: the order *)

Sorted(s) == \A j, k \in DOMAIN s : j < k => s[j] >= s[k]

\* One node more, in front of place p.
Inserted(r, s, p, e) ==
    /\ Len(r) = Len(s) + 1
    /\ \A i \in 1 .. p - 1 : r[i] = s[i]
    /\ r[p] = e
    /\ \A i \in p .. Len(s) : r[i + 1] = s[i]

LEMMA OneInserted ==
    ASSUME NEW T, NEW s \in Seq(T), NEW p \in 1 .. Len(s) + 1, NEW e \in T,
           NEW r, r = InsertAt(s, p, e)
    PROVE  r \in Seq(T) /\ Inserted(r, s, p, e)
<1> DEFINE a == SubSeq(s, 1, p - 1)
           b == SubSeq(s, p, Len(s))
           c == a \o <<e>>
<1>1. Len(s) \in Nat /\ p \in Nat \ {0}
  BY LenProperties
<1>2. a \in Seq(T) /\ Len(a) = p - 1 /\ \A i \in 1 .. p - 1 : a[i] = s[i]
  <2>1. \A i \in 1 .. p - 1 : s[i] \in T
    <3> TAKE i \in 1 .. p - 1
    <3>1. i \in 1 .. Len(s)
      BY <1>1
    <3> QED BY <3>1, ElementOfSeq
  <2>2. 1 \in Int /\ p - 1 \in Int
    BY <1>1
  <2>3. /\ a \in Seq(T) /\ Len(a) = IF 1 <= p - 1 THEN (p - 1) - 1 + 1 ELSE 0
        /\ \A i \in 1 .. (p - 1) - 1 + 1 : a[i] = s[1 + i - 1]
    BY <2>1, <2>2, SubSeqProperties
  <2> HIDE DEF a
  <2>4. (p - 1) - 1 + 1 = p - 1 /\ \A i \in 1 .. p - 1 : 1 + i - 1 = i
    BY <1>1
  <2>5. \A i \in 1 .. p - 1 : a[i] = s[i]
    <3> TAKE i \in 1 .. p - 1
    <3> QED BY <2>3, <2>4
  <2> QED BY <1>1, <2>3, <2>4, <2>5
<1>3. b \in Seq(T) /\ Len(b) = Len(s) - p + 1 /\ \A i \in p .. Len(s) : b[i - p + 1] = s[i]
  <2>1. \A i \in p .. Len(s) : s[i] \in T
    <3> TAKE i \in p .. Len(s)
    <3>1. i \in 1 .. Len(s)
      BY <1>1
    <3> QED BY <3>1, ElementOfSeq
  <2>2. p \in Int /\ Len(s) \in Int
    BY <1>1
  <2>3. /\ b \in Seq(T) /\ Len(b) = IF p <= Len(s) THEN Len(s) - p + 1 ELSE 0
        /\ \A i \in 1 .. Len(s) - p + 1 : b[i] = s[p + i - 1]
    BY <2>1, <2>2, SubSeqProperties
  <2> HIDE DEF b
  <2>4. Len(b) = Len(s) - p + 1
    BY <1>1, <2>3
  <2>5. ASSUME NEW i \in p .. Len(s) PROVE b[i - p + 1] = s[i]
    <3>1. i - p + 1 \in 1 .. Len(s) - p + 1 /\ p + (i - p + 1) - 1 = i
      BY <1>1
    <3> QED BY <2>3, <3>1
  <2> QED BY <2>3, <2>4, <2>5
<1>4. r = c \o b
  BY DEF InsertAt
<1> HIDE DEF a, b
<1>5. <<e>> \in Seq(T) /\ Len(<<e>>) = 1 /\ <<e>>[1] = e
  OBVIOUS
<1>6. /\ c \in Seq(T) /\ Len(c) = p
      /\ \A i \in 1 .. p - 1 : c[i] = s[i]
      /\ c[p] = e
  <2> DEFINE d == <<e>>
  <2>1. d \in Seq(T) /\ Len(d) = 1 /\ d[1] = e
    BY <1>5
  <2> HIDE DEF d
  <2>2. /\ a \o d \in Seq(T) /\ Len(a \o d) = Len(a) + Len(d)
        /\ \A i \in 1 .. Len(a) + Len(d) : (a \o d)[i] = IF i <= Len(a) THEN a[i] ELSE d[i - Len(a)]
    BY <1>2, <2>1, ConcatProperties
  <2>3. c = a \o d
    BY DEF d
  <2> HIDE DEF c
  <2>4. c \in Seq(T) /\ Len(c) = p
    BY <1>1, <1>2, <2>1, <2>2, <2>3
  <2>5. \A i \in 1 .. p - 1 : c[i] = s[i]
    <3> TAKE i \in 1 .. p - 1
    <3>1. i \in 1 .. Len(a) + Len(d) /\ i <= Len(a)
      BY <1>1, <1>2, <2>1
    <3> QED BY <1>2, <2>2, <2>3, <3>1
  <2>6. c[p] = e
    <3>1. p \in 1 .. Len(a) + Len(d) /\ ~(p <= Len(a)) /\ p - Len(a) = 1
      BY <1>1, <1>2, <2>1
    <3> QED BY <2>1, <2>2, <2>3, <3>1
  <2> QED BY <2>4, <2>5, <2>6
<1> HIDE DEF c
<1>7. /\ r \in Seq(T) /\ Len(r) = Len(c) + Len(b)
      /\ \A i \in 1 .. Len(c) + Len(b) : r[i] = IF i <= Len(c) THEN c[i] ELSE b[i - Len(c)]
  <2>1. c \in Seq(T) /\ b \in Seq(T)
    BY <1>3, <1>6
  <2>2. /\ c \o b \in Seq(T) /\ Len(c \o b) = Len(c) + Len(b)
        /\ \A i \in 1 .. Len(c) + Len(b) : (c \o b)[i] = IF i <= Len(c) THEN c[i] ELSE b[i - Len(c)]
    BY <2>1, ConcatProperties
  <2> QED BY <1>4, <2>2
<1>8. Len(r) = Len(s) + 1
  BY <1>1, <1>3, <1>6, <1>7
<1>9. \A i \in 1 .. p : r[i] = c[i]
  <2> TAKE i \in 1 .. p
  <2>1. i \in 1 .. Len(c) + Len(b) /\ i <= Len(c)
    BY <1>1, <1>3, <1>6
  <2> QED BY <1>7, <2>1
<1>10. ASSUME NEW i \in p .. Len(s) PROVE r[i + 1] = s[i]
  <2>1. i + 1 \in 1 .. Len(c) + Len(b) /\ ~(i + 1 <= Len(c)) /\ (i + 1) - Len(c) = i - p + 1
    BY <1>1, <1>3, <1>6
  <2> QED BY <1>3, <1>7, <2>1
<1>11. p \in 1 .. p /\ \A i \in 1 .. p - 1 : i \in 1 .. p
  BY <1>1
<1>12. Inserted(r, s, p, e)
  BY <1>6, <1>8, <1>9, <1>10, <1>11 DEF Inserted
<1> QED BY <1>7, <1>12

\* The loop of insert_multiple_case stops somewhere.
LEMMA SomePlace ==
    ASSUME NEW s \in Seq(Int), s # <<>>, NEW v \in Int
    PROVE  \E k \in 1 .. Len(s) : /\ k = Len(s) \/ s[k + 1] <= v
                                  /\ \A j \in 2 .. k : s[j] > v
<1> SUFFICES ASSUME ~ \E k \in 1 .. Len(s) : /\ k = Len(s) \/ s[k + 1] <= v
                                             /\ \A j \in 2 .. k : s[j] > v
             PROVE  FALSE
  OBVIOUS
<1> DEFINE S == {n \in Nat : n + 1 <= Len(s) => \A j \in 2 .. n + 1 : s[j] > v}
<1>1. Len(s) \in Nat \ {0}
  BY EmptySeq
<1>2. 0 \in S
  OBVIOUS
<1>3. ASSUME NEW n \in Nat, n \in S PROVE n + 1 \in S
  <2> SUFFICES ASSUME n + 2 <= Len(s), NEW j \in 2 .. n + 2 PROVE s[j] > v
    OBVIOUS
  <2>1. \A i \in 2 .. n + 1 : s[i] > v
    BY <1>1, <1>3
  <2>2. n + 1 \in 1 .. Len(s) /\ n + 1 # Len(s)
    BY <1>1
  <2>3. ~(s[n + 2] <= v)
    <3>1. (n + 1) + 1 = n + 2
      OBVIOUS
    <3> QED BY <2>1, <2>2, <3>1
  <2>4. s[n + 2] \in Int
    <3>1. n + 2 \in 1 .. Len(s)
      BY <1>1
    <3> QED BY <3>1, ElementOfSeq
  <2>5. CASE j = n + 2
    BY <2>3, <2>4, <2>5
  <2>6. CASE j \in 2 .. n + 1
    BY <2>1, <2>6
  <2> QED BY <2>5, <2>6
<1> HIDE DEF S
<1>4. Nat \subseteq S
  BY <1>2, <1>3, SetInduction
<1>5. Len(s) - 1 \in S
  BY <1>1, <1>4
<1>6. (Len(s) - 1) + 1 = Len(s)
  BY <1>1
<1>7. \A j \in 2 .. Len(s) : s[j] > v
  <2>1. (Len(s) - 1) + 1 <= Len(s)
    BY <1>1
  <2>2. \A j \in 2 .. (Len(s) - 1) + 1 : s[j] > v
    BY <1>5, <2>1 DEF S
  <2> QED BY <1>6, <2>2
<1>8. Len(s) \in 1 .. Len(s)
  BY <1>1
<1> QED BY <1>7, <1>8

\* A node between those not smaller and those not greater.
LEMMA SortedInsert ==
    ASSUME NEW s \in Seq(Nat), Sorted(s), NEW k \in 0 .. Len(s), NEW v \in Nat,
           \A i \in 1 .. k : s[i] >= v, \A i \in k + 1 .. Len(s) : s[i] <= v,
           NEW r, r = InsertAt(s, k + 1, v)
    PROVE  r \in Seq(Nat) /\ Sorted(r)
<1>1. Len(s) \in Nat /\ DOMAIN s = 1 .. Len(s)
  BY LenProperties
<1>2. k + 1 \in 1 .. Len(s) + 1
  BY <1>1
<1>3. /\ r \in Seq(Nat) /\ Len(r) = Len(s) + 1
      /\ \A i \in 1 .. k : r[i] = s[i]
      /\ r[k + 1] = v
      /\ \A i \in k + 1 .. Len(s) : r[i + 1] = s[i]
  <2>1. PICK p \in 1 .. Len(s) + 1 : p = k + 1
    BY <1>2
  <2>2. p - 1 = k
    BY <2>1
  <2>3. r = InsertAt(s, p, v)
    BY <2>1
  <2>4. /\ r \in Seq(Nat) /\ Len(r) = Len(s) + 1
        /\ \A i \in 1 .. p - 1 : r[i] = s[i]
        /\ r[p] = v
        /\ \A i \in p .. Len(s) : r[i + 1] = s[i]
    <3>1. r \in Seq(Nat) /\ Inserted(r, s, p, v)
      BY <2>3, OneInserted
    <3> QED BY <3>1 DEF Inserted
  <2> QED BY <2>1, <2>2, <2>4
<1>4. \A i \in 1 .. Len(s) : s[i] \in Nat
  BY ElementOfSeq
<1>5. ASSUME NEW i \in 1 .. Len(r), NEW j \in 1 .. Len(r), i < j PROVE r[i] >= r[j]
  <2>1. CASE j <= k
    <3>1. i \in 1 .. k /\ j \in 1 .. k /\ i \in DOMAIN s /\ j \in DOMAIN s
      BY <1>1, <1>3, <1>5, <2>1
    <3> QED BY <1>3, <1>5, <3>1 DEF Sorted
  <2>2. CASE i <= k /\ j = k + 1
    <3>1. i \in 1 .. k
      BY <2>2
    <3> QED BY <1>3, <2>2, <3>1
  <2>3. CASE i <= k /\ j > k + 1
    <3>1. i \in 1 .. k /\ j - 1 \in k + 1 .. Len(s) /\ (j - 1) + 1 = j /\ i \in DOMAIN s /\ j - 1 \in DOMAIN s
      BY <1>1, <1>3, <2>3
    <3>2. r[j] = s[j - 1] /\ r[i] = s[i]
      BY <1>3, <3>1
    <3>3. s[i] >= v /\ s[j - 1] <= v /\ s[i] \in Nat /\ s[j - 1] \in Nat
      BY <1>1, <1>4, <3>1
    <3> QED BY <3>2, <3>3
  <2>4. CASE i = k + 1
    <3>1. j - 1 \in k + 1 .. Len(s) /\ (j - 1) + 1 = j
      BY <1>1, <1>3, <1>5, <2>4
    <3>2. j - 1 \in 1 .. Len(s)
      BY <1>1, <3>1
    <3>3. r[j] = s[j - 1] /\ s[j - 1] <= v /\ s[j - 1] \in Nat
      <4>1. r[(j - 1) + 1] = s[j - 1]
        BY <1>3, <3>1
      <4>2. s[j - 1] <= v
        BY <3>1
      <4> QED BY <1>4, <3>1, <3>2, <4>1, <4>2
    <3> QED BY <1>3, <2>4, <3>3
  <2>5. CASE i > k + 1
    <3>1. /\ i - 1 \in k + 1 .. Len(s) /\ (i - 1) + 1 = i
          /\ j - 1 \in k + 1 .. Len(s) /\ (j - 1) + 1 = j /\ i - 1 < j - 1
          /\ i - 1 \in DOMAIN s /\ j - 1 \in DOMAIN s
      BY <1>1, <1>3, <1>5, <2>5
    <3>2. r[j] = s[j - 1] /\ r[i] = s[i - 1]
      BY <1>3, <3>1
    <3> QED BY <3>1, <3>2 DEF Sorted
  <2>6. j <= k \/ (i <= k /\ j = k + 1) \/ (i <= k /\ j > k + 1) \/ i = k + 1 \/ i > k + 1
    <3>1. i \in Nat /\ j \in Nat /\ k \in Nat
      BY <1>1, <1>3
    <3> QED BY <1>5, <3>1
  <2> QED BY <2>1, <2>2, <2>3, <2>4, <2>5, <2>6
<1>6. DOMAIN r = 1 .. Len(r)
  BY <1>3, LenProperties
<1> QED BY <1>3, <1>5, <1>6 DEF Sorted

\* insert() finds the place: what is before is not smaller, what is behind not
\* greater, whatever the capacity says.
LEMMA PlaceFound ==
    ASSUME items \in Seq(Nat), Sorted(items), NEW v \in Nat, NEW k, k = InsertPlace(v)
    PROVE  /\ k \in 0 .. Len(items)
           /\ \A i \in 1 .. k : items[i] >= v
           /\ \A i \in k + 1 .. Len(items) : items[i] <= v
<1>1. Len(items) \in Nat /\ DOMAIN items = 1 .. Len(items)
  BY LenProperties
<1>2. \A i \in 1 .. Len(items) : items[i] \in Nat
  BY ElementOfSeq
<1>3. CASE items = <<>>
  <2>1. k = 0 /\ Len(items) = 0
    BY <1>3 DEF InsertPlace
  <2> QED BY <2>1
<1>4. CASE items # <<>> /\ ((count = 1 /\ items[1] < v) \/ (count # 1 /\ items[1] <= v))
  <2>1. k = 0
    BY <1>4 DEF InsertPlace
  <2>2. Len(items) \in Nat \ {0}
    BY <1>4, EmptySeq
  <2>3. 1 \in DOMAIN items /\ items[1] \in Nat
    BY <1>1, <1>2, <2>2
  <2>4. items[1] <= v
    BY <1>4, <2>3
  <2>5. ASSUME NEW i \in 1 .. Len(items) PROVE items[i] <= v
    <3>1. CASE i = 1
      BY <2>4, <3>1
    <3>2. CASE i # 1
      <4>1. 1 < i /\ i \in DOMAIN items /\ items[i] \in Nat
        BY <1>1, <1>2, <3>2
      <4>2. items[1] >= items[i]
        BY <2>3, <4>1 DEF Sorted
      <4> QED BY <2>3, <2>4, <4>1, <4>2
    <3> QED BY <3>1, <3>2
  <2> QED BY <2>1, <2>5, <1>1
<1>5. CASE items # <<>> /\ ~((count = 1 /\ items[1] < v) \/ (count # 1 /\ items[1] <= v))
  <2>1. k = BehindGreater(v)
    BY <1>5 DEF InsertPlace
  <2>2. items \in Seq(Int)
    <3>1. Nat \subseteq Int
      OBVIOUS
    <3> QED BY <3>1, SeqMonotonic
  <2>3. \E n \in 1 .. Len(items) : /\ n = Len(items) \/ items[n + 1] <= v
                                   /\ \A j \in 2 .. n : items[j] > v
    BY <1>5, <2>2, SomePlace
  <2>4. /\ k \in 1 .. Len(items)
        /\ k = Len(items) \/ items[k + 1] <= v
        /\ \A j \in 2 .. k : items[j] > v
    BY <2>1, <2>3 DEF BehindGreater
  <2>5. 1 \in DOMAIN items /\ items[1] \in Nat
    BY <1>1, <1>2, <2>4
  <2>6. items[1] >= v
    BY <1>5, <2>5
  <2>7. ASSUME NEW i \in 1 .. k PROVE items[i] >= v
    <3>1. CASE i = 1
      BY <2>6, <3>1
    <3>2. CASE i # 1
      <4>1. i \in 2 .. k /\ i \in 1 .. Len(items)
        BY <1>1, <2>4, <3>2
      <4>2. items[i] > v /\ items[i] \in Nat
        BY <1>2, <2>4, <4>1
      <4> QED BY <4>2
    <3> QED BY <3>1, <3>2
  <2>8. ASSUME NEW i \in k + 1 .. Len(items) PROVE items[i] <= v
    <3>1. k + 1 \in DOMAIN items /\ i \in DOMAIN items /\ items[k + 1] <= v
      BY <1>1, <2>4
    <3>2. items[i] \in Nat /\ items[k + 1] \in Nat
      BY <1>1, <1>2, <3>1
    <3>3. i = k + 1 \/ items[k + 1] >= items[i]
      BY <2>4, <3>1 DEF Sorted
    <3> QED BY <3>1, <3>2, <3>3
  <2>9. k \in 0 .. Len(items)
    BY <2>4
  <2> QED BY <2>7, <2>8, <2>9
<1> QED BY <1>3, <1>4, <1>5

\* What is erased leaves the rest in order.
LEMMA SortedWithout ==
    ASSUME NEW s \in Seq(Nat), Sorted(s), NEW D, NEW r, r = Without(s, D)
    PROVE  r \in Seq(Nat) /\ Sorted(r)
<1>1. r \in Seq(Nat) /\ \E g : Keeps(r, s, D, Len(s), g)
  BY WithoutKeeps
<1>2. PICK g : Keeps(r, s, D, Len(s), g)
  BY <1>1
<1>3. DOMAIN r = 1 .. Len(r) /\ DOMAIN s = 1 .. Len(s)
  BY <1>1, LenProperties
<1>4. ASSUME NEW j \in 1 .. Len(r), NEW k \in 1 .. Len(r), j < k PROVE r[j] >= r[k]
  <2>1. j \in 1 .. Len(g) /\ k \in 1 .. Len(g) /\ g \in Seq(1 .. Len(s))
    BY <1>2 DEF Keeps
  <2>2. g[j] \in 1 .. Len(s) /\ g[k] \in 1 .. Len(s)
    BY <2>1, ElementOfSeq
  <2>3. r[j] = s[g[j]] /\ r[k] = s[g[k]] /\ g[j] < g[k]
    BY <1>2, <1>4 DEF Keeps
  <2> QED BY <1>3, <2>2, <2>3 DEF Sorted
<1> QED BY <1>1, <1>3, <1>4 DEF Sorted

\* The invariant, while push() has not been used.
SortInv == ~pushed => items \in Seq(Nat) /\ Sorted(items)

LEMMA SortInvNext == SortInv /\ [ListNext]_listVars => SortInv'
<1> SUFFICES ASSUME SortInv, [ListNext]_listVars, ~pushed' PROVE items' \in Seq(Nat) /\ Sorted(items')
  BY DEF SortInv
<1> USE ListAssumption
<1>1. CASE ListPop
  <2>1. items \in Seq(Nat) /\ Sorted(items) /\ items # <<>> /\ items' = Tail(items)
    BY <1>1 DEF ListPop, SortInv
  <2>2. /\ items' \in Seq(Nat) /\ Len(items') = Len(items) - 1
        /\ \A i \in 1 .. Len(items') : items'[i] = items[i + 1]
    BY <2>1, HeadTailProperties
  <2>3. /\ Len(items) \in Nat /\ DOMAIN items = 1 .. Len(items)
        /\ DOMAIN items' = 1 .. Len(items')
    BY <2>1, <2>2, LenProperties
  <2>4. ASSUME NEW j \in 1 .. Len(items'), NEW k \in 1 .. Len(items'), j < k PROVE items'[j] >= items'[k]
    <3>1. j + 1 \in DOMAIN items /\ k + 1 \in DOMAIN items /\ j + 1 < k + 1
      BY <2>2, <2>3, <2>4
    <3> QED BY <2>1, <2>2, <3>1 DEF Sorted
  <2> QED BY <2>2, <2>3, <2>4 DEF Sorted
<1>2. CASE ListClear
  BY <1>2 DEF ListClear, Sorted
<1>3. ASSUME NEW v \in ListValues, ListPush(v) PROVE FALSE
  BY <1>3 DEF ListPush
<1>4. ASSUME NEW v \in ListValues, ListErase(v) PROVE items' \in Seq(Nat) /\ Sorted(items')
  <2>1. items \in Seq(Nat) /\ Sorted(items) /\ items' = Without(items, {v})
    BY <1>4 DEF ListErase, SortInv
  <2> QED BY <2>1, SortedWithout
<1>5. ASSUME NEW v \in ListValues, NEW reused \in BOOLEAN, ListInsert(v, reused)
      PROVE  items' \in Seq(Nat) /\ Sorted(items')
  <2> DEFINE k == InsertPlace(v)
  <2>1. items \in Seq(Nat) /\ Sorted(items) /\ items' = InsertAt(items, k + 1, v) /\ v \in Nat
    BY <1>5 DEF ListInsert, SortInv
  <2> HIDE DEF k
  <2>2. /\ k \in 0 .. Len(items)
        /\ \A i \in 1 .. k : items[i] >= v
        /\ \A i \in k + 1 .. Len(items) : items[i] <= v
    BY <2>1, PlaceFound DEF k
  <2> QED BY <2>1, <2>2, SortedInsert
<1>6. CASE UNCHANGED listVars
  BY <1>6 DEF listVars, SortInv
<1> QED BY <1>1, <1>2, <1>3, <1>4, <1>5, <1>6 DEF ListNext

\* A list filled by insert() alone stays in descending order, for any values
\* and length, through any pops and erasures, and also while last points to a
\* freed node (linked_list.c).
THEOREM ListStaysSorted == ListSpec => []InsertSorts
<1>1. ListInit => SortInv
  BY DEF ListInit, SortInv, Sorted
<1>2. SortInv => InsertSorts
  BY DEF SortInv, Sorted, InsertSorts
<1> QED BY <1>1, <1>2, SortInvNext, PTL DEF ListSpec

-----------------------------------------------------------------------------
(* queue.c: the owner of an entry *)

NoTwice(s) == \A j, k \in 1 .. Len(s) : s[j] = s[k] => j = k

\* The places of a list.
LEMMA PlacesCounted == ASSUME NEW n \in Nat PROVE IsFiniteSet(1 .. n) /\ Cardinality(1 .. n) = n
<1>1. IsFiniteSet(1 .. n) /\ Cardinality(1 .. n) = IF 1 > n THEN 0 ELSE n - 1 + 1
  BY FS_Interval
<1> QED BY <1>1

\* As many entries as places.
LEMMA EntriesCounted ==
    ASSUME NEW T, NEW s \in Seq(T), NoTwice(s)
    PROVE  IsFiniteSet(ToSet(s)) /\ Cardinality(ToSet(s)) = Len(s)
<1> DEFINE A == 1 .. Len(s)
           B == ToSet(s)
<1>1. Len(s) \in Nat /\ DOMAIN s = A /\ s \in [A -> T]
  BY LenProperties
<1>2. s \in Surjection(A, B)
  <2>1. s \in [A -> B]
    BY <1>1 DEF ToSet
  <2>2. \A t \in B : \E a \in A : s[a] = t
    BY <1>1 DEF ToSet
  <2> QED BY <2>1, <2>2 DEF Surjection
<1>3. s \in Injection(A, B)
  <2>1. s \in [A -> B]
    BY <1>1 DEF ToSet
  <2>2. \A a, b \in A : s[a] = s[b] => a = b
    BY DEF NoTwice
  <2> QED BY <2>1, <2>2 DEF Injection, IsInjective
<1>4. IsFiniteSet(A) /\ Cardinality(A) = Len(s)
  BY <1>1, PlacesCounted
<1> HIDE DEF A, B
<1>5. IsFiniteSet(B) /\ (Cardinality(B) = Cardinality(A) <=> s \in Injection(A, B))
  BY <1>2, <1>4, FS_Surjection
<1> QED BY <1>3, <1>4, <1>5 DEF B

\* An entry put in.
LEMMA InsertedOnce ==
    ASSUME NEW T, NEW s \in Seq(T), NoTwice(s), NEW e \in T, e \notin ToSet(s),
           NEW r \in Seq(T), NEW p \in 1 .. Len(s) + 1, Inserted(r, s, p, e)
    PROVE  NoTwice(r) /\ ToSet(r) \subseteq ToSet(s) \cup {e}
<1>1. Len(s) \in Nat /\ DOMAIN s = 1 .. Len(s) /\ DOMAIN r = 1 .. Len(r)
  BY LenProperties
<1>2. Len(r) = Len(s) + 1 /\ r[p] = e
  BY DEF Inserted
<1> DEFINE o(k) == IF k < p THEN k ELSE k - 1
<1>3. ASSUME NEW k \in 1 .. Len(r), k # p PROVE o(k) \in 1 .. Len(s) /\ r[k] = s[o(k)]
  <2>1. CASE k < p
    <3>1. k \in 1 .. p - 1 /\ k \in 1 .. Len(s)
      BY <1>1, <2>1
    <3> QED BY <2>1, <3>1 DEF Inserted
  <2>2. CASE ~(k < p)
    <3>1. k - 1 \in p .. Len(s) /\ (k - 1) + 1 = k /\ k - 1 \in 1 .. Len(s)
      BY <1>1, <1>2, <1>3, <2>2
    <3>2. r[(k - 1) + 1] = s[k - 1]
      BY <3>1 DEF Inserted
    <3> QED BY <2>2, <3>1, <3>2
  <2> QED BY <2>1, <2>2
<1>4. ASSUME NEW k \in 1 .. Len(r), k # p PROVE r[k] \in ToSet(s)
  <2> HIDE DEF o
  <2> QED BY <1>1, <1>3, <1>4 DEF ToSet
<1>5. ToSet(r) \subseteq ToSet(s) \cup {e}
  <2> SUFFICES ASSUME NEW k \in 1 .. Len(r) PROVE r[k] \in ToSet(s) \cup {e}
    BY <1>1 DEF ToSet
  <2> QED BY <1>2, <1>4
<1>6. ASSUME NEW j \in 1 .. Len(r), NEW k \in 1 .. Len(r), r[j] = r[k] PROVE j = k
  <2>1. CASE j = p \/ k = p
    BY <1>2, <1>4, <1>6, <2>1
  <2>2. CASE j # p /\ k # p
    <3>1. o(j) \in 1 .. Len(s) /\ o(k) \in 1 .. Len(s) /\ s[o(j)] = s[o(k)]
      BY <1>3, <1>6, <2>2
    <3>2. o(j) = o(k)
      <4> HIDE DEF o
      <4> QED BY <3>1 DEF NoTwice
    <3>3. j \in Nat /\ k \in Nat /\ p \in Nat
      BY <1>1, <1>2
    <3> QED BY <2>2, <3>2, <3>3
  <2> QED BY <2>1, <2>2
<1> QED BY <1>5, <1>6 DEF NoTwice

\* An entry taken out.
LEMMA TakenOnce ==
    ASSUME NEW T, NEW s \in Seq(T), s # <<>>, NoTwice(s)
    PROVE  /\ Head(s) \in ToSet(s) /\ Tail(s) \in Seq(T) /\ Len(Tail(s)) = Len(s) - 1
           /\ NoTwice(Tail(s)) /\ ToSet(Tail(s)) \subseteq ToSet(s) \ {Head(s)}
<1>1. /\ Head(s) = s[1] /\ Tail(s) \in Seq(T) /\ Len(Tail(s)) = Len(s) - 1
      /\ \A i \in 1 .. Len(Tail(s)) : Tail(s)[i] = s[i + 1]
  BY HeadTailProperties
<1>2. Len(s) \in Nat \ {0} /\ DOMAIN s = 1 .. Len(s) /\ DOMAIN Tail(s) = 1 .. Len(Tail(s))
  BY <1>1, EmptySeq, LenProperties
<1>3. Head(s) \in ToSet(s)
  BY <1>1, <1>2 DEF ToSet
<1>4. ASSUME NEW i \in 1 .. Len(Tail(s)) PROVE Tail(s)[i] \in ToSet(s) \ {Head(s)}
  <2>1. i + 1 \in 1 .. Len(s) /\ 1 \in 1 .. Len(s) /\ i + 1 # 1
    BY <1>1, <1>2
  <2>2. s[i + 1] # s[1]
    BY <2>1 DEF NoTwice
  <2>3. s[i + 1] \in ToSet(s)
    BY <1>2, <2>1 DEF ToSet
  <2> QED BY <1>1, <2>2, <2>3
<1>5. ASSUME NEW j \in 1 .. Len(Tail(s)), NEW k \in 1 .. Len(Tail(s)), Tail(s)[j] = Tail(s)[k] PROVE j = k
  <2>1. j + 1 \in 1 .. Len(s) /\ k + 1 \in 1 .. Len(s) /\ s[j + 1] = s[k + 1]
    BY <1>1, <1>2, <1>5
  <2>2. j + 1 = k + 1
    BY <2>1 DEF NoTwice
  <2> QED BY <2>2
<1>6. ToSet(Tail(s)) \subseteq ToSet(s) \ {Head(s)}
  BY <1>2, <1>4 DEF ToSet
<1> QED BY <1>1, <1>3, <1>5, <1>6 DEF NoTwice

\* A first part of a list, and an entry behind it.
LEMMA PartIs ==
    ASSUME NEW T, NEW s \in Seq(T), NEW n \in 0 .. Len(s), NEW r, r = SubSeq(s, 1, n)
    PROVE  r \in Seq(T) /\ Len(r) = n /\ \A i \in 1 .. n : r[i] = s[i]
<1>1. Len(s) \in Nat
  BY LenProperties
<1>2. \A i \in 1 .. n : s[i] \in T
  <2> TAKE i \in 1 .. n
  <2>1. i \in 1 .. Len(s)
    BY <1>1
  <2> QED BY <2>1, ElementOfSeq
<1>3. 1 \in Int /\ n \in Int
  BY <1>1
<1>4. /\ r \in Seq(T) /\ Len(r) = IF 1 <= n THEN n - 1 + 1 ELSE 0
      /\ \A i \in 1 .. n - 1 + 1 : r[i] = s[1 + i - 1]
  BY <1>2, <1>3, SubSeqProperties
<1>5. Len(r) = n /\ n - 1 + 1 = n
  BY <1>1, <1>4
<1>6. \A i \in 1 .. n : r[i] = s[i]
  <2> TAKE i \in 1 .. n
  <2>1. r[i] = s[1 + i - 1] /\ 1 + i - 1 = i
    BY <1>4, <1>5
  <2> QED BY <2>1
<1> QED BY <1>4, <1>5, <1>6

\* An entry pushed behind place n, where the rest is cut off.
Pushed(r, s, n, e) == Len(r) = n + 1 /\ r[n + 1] = e /\ \A i \in 1 .. n : r[i] = s[i]

LEMMA PushedBehind ==
    ASSUME NEW T, NEW s \in Seq(T), NEW n \in 0 .. Len(s), NEW e \in T, NEW r, r = SubSeq(s, 1, n) \o <<e>>
    PROVE  r \in Seq(T) /\ Pushed(r, s, n, e)
<1> DEFINE a == SubSeq(s, 1, n)
<1>1. a \in Seq(T) /\ Len(a) = n /\ \A i \in 1 .. n : a[i] = s[i]
  BY PartIs
<1> HIDE DEF a
<1>2. r = Append(a, e)
  BY <1>1, AppendIsConcat DEF a
<1>3. /\ Append(a, e) \in Seq(T) /\ Len(Append(a, e)) = Len(a) + 1
      /\ \A i \in 1 .. Len(a) : Append(a, e)[i] = a[i]
      /\ Append(a, e)[Len(a) + 1] = e
  BY <1>1, AppendProperties
<1> QED BY <1>1, <1>2, <1>3 DEF Pushed

LEMMA PushedOnce ==
    ASSUME NEW T, NEW s \in Seq(T), NoTwice(s), NEW n \in 0 .. Len(s), NEW e \in T, e \notin ToSet(s),
           NEW r \in Seq(T), Pushed(r, s, n, e)
    PROVE  NoTwice(r) /\ ToSet(r) \subseteq ToSet(s) \cup {e}
<1>1. Len(r) = n + 1 /\ r[n + 1] = e /\ \A i \in 1 .. n : r[i] = s[i]
  BY DEF Pushed
<1>2. Len(s) \in Nat /\ DOMAIN s = 1 .. Len(s) /\ DOMAIN r = 1 .. Len(r)
  BY <1>1, LenProperties
<1>3. ASSUME NEW i \in 1 .. n PROVE i \in 1 .. Len(s) /\ r[i] = s[i] /\ r[i] \in ToSet(s)
  <2>1. i \in 1 .. Len(s)
    BY <1>2
  <2> QED BY <1>1, <1>2, <2>1 DEF ToSet
<1>4. \A i \in 1 .. Len(r) : i = n + 1 \/ i \in 1 .. n
  BY <1>1, <1>2
<1>5. ASSUME NEW j \in 1 .. Len(r), NEW k \in 1 .. Len(r), r[j] = r[k] PROVE j = k
  <2>1. CASE j = n + 1 \/ k = n + 1
    BY <1>1, <1>3, <1>4, <1>5, <2>1
  <2>2. CASE j \in 1 .. n /\ k \in 1 .. n
    BY <1>3, <1>5, <2>2 DEF NoTwice
  <2> QED BY <1>4, <2>1, <2>2
<1>6. ToSet(r) \subseteq ToSet(s) \cup {e}
  BY <1>1, <1>2, <1>3, <1>4 DEF ToSet
<1> QED BY <1>5, <1>6 DEF NoTwice

\* Entries erased.
LEMMA ErasedOnce ==
    ASSUME NEW T, NEW s \in Seq(T), NoTwice(s), NEW D, NEW r, r = Without(s, D)
    PROVE  r \in Seq(T) /\ NoTwice(r) /\ ToSet(r) \subseteq ToSet(s)
<1>1. r \in Seq(T) /\ \E g : Keeps(r, s, D, Len(s), g)
  BY WithoutKeeps
<1>2. PICK g : Keeps(r, s, D, Len(s), g)
  BY <1>1
<1>3. DOMAIN s = 1 .. Len(s) /\ DOMAIN r = 1 .. Len(r) /\ Len(r) \in Nat
  BY <1>1, LenProperties
<1>4. ASSUME NEW k \in 1 .. Len(r) PROVE g[k] \in 1 .. Len(s) /\ r[k] = s[g[k]]
  <2>1. g \in Seq(1 .. Len(s)) /\ k \in 1 .. Len(g) /\ r[k] = s[g[k]]
    BY <1>2 DEF Keeps
  <2> QED BY <2>1, ElementOfSeq
<1>5. ASSUME NEW j \in 1 .. Len(r), NEW k \in 1 .. Len(r), r[j] = r[k] PROVE j = k
  <2>1. g[j] = g[k]
    BY <1>4, <1>5 DEF NoTwice
  <2>2. ~(j < k) /\ ~(k < j)
    <3>1. (j < k => g[j] < g[k]) /\ (k < j => g[k] < g[j])
      BY <1>2 DEF Keeps
    <3>2. g[j] \in Int /\ g[k] \in Int
      <4>1. \A x \in 1 .. Len(s) : x \in Int
        OBVIOUS
      <4> QED BY <1>4, <4>1
    <3> QED BY <2>1, <3>1, <3>2
  <2> QED BY <1>3, <2>2
<1>6. ToSet(r) \subseteq ToSet(s)
  BY <1>3, <1>4 DEF ToSet
<1> QED BY <1>1, <1>5, <1>6 DEF NoTwice

\* How much erase() leaves.
LEMMA KeptCounted ==
    ASSUME NEW T, NEW s \in Seq(T), NEW D
    PROVE  /\ IsFiniteSet({i \in 1 .. Len(s) : s[i] \notin D})
           /\ Cardinality({i \in 1 .. Len(s) : s[i] \notin D}) = Len(Without(s, D))
<1> DEFINE r == Without(s, D)
           A == 1 .. Len(r)
           B == {i \in 1 .. Len(s) : s[i] \notin D}
<1>1. r \in Seq(T) /\ \E g : Keeps(r, s, D, Len(s), g)
  BY WithoutKeeps
<1> HIDE DEF r
<1>2. PICK g : Keeps(r, s, D, Len(s), g)
  BY <1>1
<1>3. Len(r) \in Nat /\ Len(s) \in Nat
  BY <1>1, LenProperties
<1>4. ASSUME NEW k \in A PROVE g[k] \in B
  <2>1. g \in Seq(1 .. Len(s)) /\ k \in 1 .. Len(g) /\ s[g[k]] \notin D
    BY <1>2 DEF Keeps
  <2> QED BY <2>1, ElementOfSeq
<1>5. g \in [A -> B]
  <2>1. g \in Seq(1 .. Len(s)) /\ Len(g) = Len(r)
    BY <1>2 DEF Keeps
  <2>2. g \in [1 .. Len(r) -> 1 .. Len(s)]
    BY <2>1, LenProperties
  <2> QED BY <1>4, <2>2
<1>6. g \in Surjection(A, B)
  <2>1. \A i \in B : \E k \in A : g[k] = i
    BY <1>2 DEF Keeps
  <2> QED BY <1>5, <2>1 DEF Surjection
<1>7. g \in Injection(A, B)
  <2>1. ASSUME NEW j \in A, NEW k \in A, g[j] = g[k] PROVE j = k
    <3>1. (j < k => g[j] < g[k]) /\ (k < j => g[k] < g[j])
      BY <1>2 DEF Keeps
    <3>2. g[j] \in Int /\ g[k] \in Int
      <4>1. \A x \in B : x \in Int
        OBVIOUS
      <4> QED BY <1>4, <4>1
    <3> QED BY <1>3, <2>1, <3>1, <3>2
  <2> QED BY <1>5, <2>1 DEF Injection, IsInjective
<1>8. IsFiniteSet(A) /\ Cardinality(A) = Len(r)
  BY <1>3, PlacesCounted
<1> HIDE DEF A, B
<1>9. IsFiniteSet(B) /\ (Cardinality(B) = Cardinality(A) <=> g \in Injection(A, B))
  BY <1>6, <1>8, FS_Surjection
<1> QED BY <1>7, <1>8, <1>9 DEF B, r

\* Where a place that is kept lies afterwards.
LEMMA PlaceKept ==
    ASSUME NEW T, NEW s \in Seq(T), NEW D, NEW n \in 1 .. Len(s), s[n] \notin D
    PROVE  Len(Without(SubSeq(s, 1, n), D)) \in 1 .. Len(Without(s, D))
<1> DEFINE a == SubSeq(s, 1, n)
           A == {i \in 1 .. Len(a) : a[i] \notin D}
           B == {i \in 1 .. Len(s) : s[i] \notin D}
<1>1. Len(s) \in Nat /\ n \in 0 .. Len(s)
  BY LenProperties
<1>2. a \in Seq(T) /\ Len(a) = n /\ \A i \in 1 .. n : a[i] = s[i]
  BY <1>1, PartIs
<1> HIDE DEF a
<1>3. A \in SUBSET B /\ n \in A
  BY <1>1, <1>2
<1>4. IsFiniteSet(A) /\ Cardinality(A) = Len(Without(a, D))
  BY <1>2, KeptCounted
<1>5. IsFiniteSet(B) /\ Cardinality(B) = Len(Without(s, D))
  BY KeptCounted
<1> HIDE DEF A, B
<1>6. Cardinality(A) <= Cardinality(B)
  BY <1>3, <1>5, FS_Subset
<1>7. Cardinality(A) \in Nat /\ Cardinality(A) # 0 /\ Cardinality(B) \in Nat
  BY <1>3, <1>4, <1>5, FS_EmptySet, FS_CardinalityType
<1> QED BY <1>4, <1>5, <1>6, <1>7 DEF a

\* What was handed to the queue and neither popped nor cleared.
Held == given \ (back \cup cleared)

QueueInv ==
    /\ queue \in Seq(Entries) /\ NoTwice(queue) /\ ToSet(queue) \subseteq Held
    /\ given \subseteq Entries /\ back \subseteq given /\ cleared \subseteq given /\ back \cap cleared = {}
    /\ queueSize = Cardinality(Held)
    /\ queueLast \in Int /\ queueLast <= Len(queue) /\ (queueLast = 0 <=> queue = <<>>)

\* There are finitely many entries.
LEMMA HeldFinite ==
    ASSUME NEW S, S \subseteq Entries
    PROVE  IsFiniteSet(S) /\ Cardinality(S) \in Nat /\ Cardinality(S) <= Len(EntryKeys)
<1>1. Len(EntryKeys) \in Nat /\ Entries = 1 .. Len(EntryKeys)
  BY EntryAssumption, LenProperties DEF Entries
<1>2. IsFiniteSet(Entries) /\ Cardinality(Entries) = Len(EntryKeys)
  BY <1>1, PlacesCounted
<1> QED BY <1>2, FS_Subset, FS_CardinalityType

\* What cannot be reached is what is held and not in the queue.
LostIsRest ==
    /\ Len(queue) \in Nat /\ queueSize \in Nat /\ Cardinality(Lost) \in Nat
    /\ Cardinality(Lost) = queueSize - Len(queue)

LEMMA LostCounted == QueueInv => LostIsRest
<1> SUFFICES ASSUME QueueInv PROVE LostIsRest
  OBVIOUS
<1> DEFINE A == ToSet(queue)
<1>1. queue \in Seq(Entries) /\ NoTwice(queue) /\ A \subseteq Held /\ queueSize = Cardinality(Held)
  BY DEF QueueInv
<1>2. Held \subseteq Entries
  BY DEF QueueInv, Held
<1>3. IsFiniteSet(Held) /\ Cardinality(Held) \in Nat
  BY <1>2, HeldFinite
<1>4. Cardinality(A) = Len(queue) /\ Len(queue) \in Nat
  BY <1>1, EntriesCounted, LenProperties
<1>5. Lost = Held \ A /\ Held \cap A = A
  BY <1>1 DEF Lost, Held
<1> HIDE DEF A
<1>6. IsFiniteSet(Held \ A) /\ Cardinality(Held \ A) = Cardinality(Held) - Cardinality(Held \cap A)
  BY <1>3, FS_Difference
<1>7. Cardinality(Lost) \in Nat
  BY <1>5, <1>6, FS_CardinalityType
<1> QED BY <1>1, <1>3, <1>4, <1>5, <1>6, <1>7 DEF LostIsRest

\* An entry is handed over.
LEMMA GiveHolds ==
    ASSUME QueueInv, NEW e \in Entries, Give(e), UNCHANGED <<back, cleared>>
    PROVE  /\ e \notin Held /\ Held' = Held \cup {e} /\ queueSize' = Cardinality(Held')
           /\ given' \subseteq Entries /\ back' \subseteq given' /\ cleared' \subseteq given'
           /\ back' \cap cleared' = {}
<1>1. e \notin given /\ given' = given \cup {e} /\ queueSize' = queueSize + 1
  BY DEF Give
<1>2. e \notin Held /\ Held' = Held \cup {e}
  BY <1>1 DEF Held, QueueInv
<1>3. IsFiniteSet(Held)
  BY HeldFinite DEF QueueInv, Held
<1>4. Cardinality(Held \cup {e}) = Cardinality(Held) + 1
  BY <1>2, <1>3, FS_AddElement
<1>5. queueSize' = Cardinality(Held')
  BY <1>1, <1>2, <1>4 DEF QueueInv
<1> QED BY <1>1, <1>2, <1>5 DEF QueueInv

LEMMA PushKeeps == ASSUME QueueInv, NEW e \in Entries, QueuePush(e) PROVE QueueInv'
<1>1. Give(e) /\ UNCHANGED <<back, cleared>>
  BY DEF QueuePush
<1>2. /\ e \notin Held /\ Held' = Held \cup {e} /\ queueSize' = Cardinality(Held')
      /\ given' \subseteq Entries /\ back' \subseteq given' /\ cleared' \subseteq given'
      /\ back' \cap cleared' = {}
  BY <1>1, GiveHolds
<1>3. /\ queue \in Seq(Entries) /\ NoTwice(queue) /\ ToSet(queue) \subseteq Held /\ Len(queue) \in Nat
      /\ queueLast \in Int /\ queueLast <= Len(queue) /\ (queueLast = 0 <=> queue = <<>>)
  BY LenProperties DEF QueueInv
<1>4. CASE queueLast < 0
  <2>1. queue' = queue /\ queueLast' = -2
    BY <1>4 DEF QueuePush
  <2>2. queueLast' \in Int /\ queueLast' <= Len(queue') /\ queueLast' # 0 /\ queue' # <<>>
    BY <1>3, <1>4, <2>1
  <2>3. queue' \in Seq(Entries) /\ NoTwice(queue)' /\ ToSet(queue') \subseteq Held'
    BY <1>2, <1>3, <2>1
  <2> QED BY <1>2, <2>2, <2>3 DEF QueueInv
<1>5. CASE ~(queueLast < 0)
  <2>1. queue' = SubSeq(queue, 1, queueLast) \o <<e>> /\ queueLast' = queueLast + 1
    BY <1>5 DEF QueuePush
  <2>2. queueLast \in 0 .. Len(queue) /\ e \notin ToSet(queue)
    BY <1>2, <1>3, <1>5
  <2>3. queue' \in Seq(Entries) /\ Pushed(queue', queue, queueLast, e) /\ Len(queue') = queueLast + 1
    <3>1. queue' \in Seq(Entries) /\ Pushed(queue', queue, queueLast, e)
      BY <1>3, <2>1, <2>2, PushedBehind
    <3> QED BY <3>1 DEF Pushed
  <2>4. NoTwice(queue') /\ ToSet(queue') \subseteq ToSet(queue) \cup {e}
    BY <1>3, <2>2, <2>3, PushedOnce
  <2>5. queueLast' \in Int /\ queueLast' <= Len(queue') /\ queueLast' # 0 /\ queue' # <<>>
    <3>1. Len(queue') # 0
      BY <2>2, <2>3
    <3>2. queue' # <<>>
      BY <3>1
    <3> QED BY <2>1, <2>2, <2>3, <3>2
  <2>6. NoTwice(queue)' /\ ToSet(queue') \subseteq Held'
    BY <1>2, <1>3, <2>4
  <2> QED BY <1>2, <2>3, <2>5, <2>6 DEF QueueInv
<1> QED BY <1>4, <1>5

LEMMA InsertKeeps ==
    ASSUME QueueInv, NEW e \in Entries, NEW reused \in BOOLEAN, QueueInsert(e, reused)
    PROVE  QueueInv'
<1>1. Give(e) /\ UNCHANGED <<back, cleared>>
  BY DEF QueueInsert
<1>2. /\ e \notin Held /\ Held' = Held \cup {e} /\ queueSize' = Cardinality(Held')
      /\ given' \subseteq Entries /\ back' \subseteq given' /\ cleared' \subseteq given'
      /\ back' \cap cleared' = {}
  BY <1>1, GiveHolds
<1>3. /\ queue \in Seq(Entries) /\ NoTwice(queue) /\ ToSet(queue) \subseteq Held /\ Len(queue) \in Nat
      /\ queueLast \in Int /\ queueLast <= Len(queue) /\ (queueLast = 0 <=> queue = <<>>)
  BY LenProperties DEF QueueInv
<1>4. PICK place \in 1 .. Len(queue) + 1 :
        queue' = InsertAt(queue, place, e) /\ queueLast' = LastAfterInsert(place, reused)
  BY DEF QueueInsert
<1>5. queue' \in Seq(Entries) /\ Inserted(queue', queue, place, e)
  BY <1>3, <1>4, OneInserted
<1>6. NoTwice(queue') /\ ToSet(queue') \subseteq ToSet(queue) \cup {e}
  BY <1>2, <1>3, <1>5, InsertedOnce
<1>7. Len(queue') = Len(queue) + 1
  BY <1>5 DEF Inserted
<1>8. queueLast' \in Int /\ queueLast' <= Len(queue') /\ queueLast' # 0
  <2>1. CASE place = Len(queue) + 1 \/ reused
    <3>1. queueLast' = place
      BY <1>4, <2>1 DEF LastAfterInsert
    <3> QED BY <1>3, <1>7, <3>1
  <2>2. CASE ~(place = Len(queue) + 1 \/ reused)
    <3>1. queueLast' = IF queueLast >= place THEN queueLast + 1 ELSE queueLast
      BY <1>4, <2>2 DEF LastAfterInsert
    <3>2. queue # <<>>
      <4>1. Len(queue) # 0
        BY <1>3, <2>2
      <4> QED BY <4>1
    <3> QED BY <1>3, <1>7, <3>1, <3>2
  <2> QED BY <2>1, <2>2
<1>9. queue' # <<>>
  <2>1. Len(queue') # 0
    BY <1>3, <1>7
  <2> QED BY <2>1
<1>10. NoTwice(queue)' /\ ToSet(queue') \subseteq Held'
  BY <1>2, <1>3, <1>6
<1> QED BY <1>2, <1>5, <1>8, <1>9, <1>10 DEF QueueInv

LEMMA PopKeeps == ASSUME QueueInv, QueuePop PROVE QueueInv'
<1>1. /\ queue \in Seq(Entries) /\ NoTwice(queue) /\ ToSet(queue) \subseteq Held /\ Len(queue) \in Nat
      /\ queueLast \in Int /\ queueLast <= Len(queue) /\ (queueLast = 0 <=> queue = <<>>) /\ queue # <<>>
  BY LenProperties DEF QueueInv, QueuePop
<1> DEFINE e == Head(queue)
<1>2. /\ queue' = Tail(queue) /\ back' = back \cup {e} /\ queueSize' = queueSize - 1
      /\ given' = given /\ cleared' = cleared
  BY DEF QueuePop
<1>3. /\ e \in ToSet(queue) /\ queue' \in Seq(Entries) /\ Len(queue') = Len(queue) - 1
      /\ NoTwice(queue') /\ ToSet(queue') \subseteq ToSet(queue) \ {e}
  BY <1>1, <1>2, TakenOnce
<1> HIDE DEF e
<1>4. e \in Held /\ Held' = Held \ {e}
  BY <1>1, <1>2, <1>3 DEF Held
<1>5. queueSize' = Cardinality(Held')
  <2>1. IsFiniteSet(Held)
    BY HeldFinite DEF QueueInv, Held
  <2>2. Cardinality(Held \ {e}) = Cardinality(Held) - 1
    BY <1>4, <2>1, FS_RemoveElement
  <2> QED BY <1>2, <1>4, <2>2 DEF QueueInv
<1>6. queueLast' \in Int /\ queueLast' <= Len(queue') /\ (queueLast' = 0 <=> queue' = <<>>)
  <2>1. queueLast' = IF Len(queue) = 1 THEN 0 ELSE IF queueLast = 1 THEN -1
                     ELSE IF queueLast > 1 THEN queueLast - 1 ELSE queueLast
    BY DEF QueuePop
  <2>2. queue' = <<>> <=> Len(queue) = 1
    <3>1. queue' = <<>> <=> Len(queue') = 0
      BY <1>3, EmptySeq
    <3> QED BY <1>1, <1>3, <3>1
  <2>3. Len(queue) # 0 /\ queueLast # 0
    BY <1>1, EmptySeq
  <2> QED BY <1>1, <1>3, <2>1, <2>2, <2>3
<1>7. NoTwice(queue)' /\ ToSet(queue') \subseteq Held'
  BY <1>1, <1>3, <1>4
<1>8. given' \subseteq Entries /\ back' \subseteq given' /\ cleared' \subseteq given' /\ back' \cap cleared' = {}
  BY <1>2, <1>4 DEF QueueInv, Held
<1> QED BY <1>3, <1>5, <1>6, <1>7, <1>8 DEF QueueInv

LEMMA EraseKeeps == ASSUME QueueInv, NEW key, QueueErase(key) PROVE QueueInv'
<1> DEFINE D == {e \in Entries : EntryKeys[e] = key}
           gone == ToSet(queue) \ ToSet(queue')
<1>1. /\ queue \in Seq(Entries) /\ NoTwice(queue) /\ ToSet(queue) \subseteq Held /\ Len(queue) \in Nat
      /\ queueLast \in Int /\ queueLast <= Len(queue) /\ (queueLast = 0 <=> queue = <<>>)
  BY LenProperties DEF QueueInv
<1>2. /\ queue' = Without(queue, D) /\ queue # queue'
      /\ queueSize' = queueSize - (Len(queue) - Len(queue'))
      /\ queueLast' = IF queue' = <<>> THEN 0
                      ELSE IF queueLast < 0 THEN queueLast
                      ELSE IF EntryKeys[queue[queueLast]] = key THEN -1
                      ELSE Len(Without(SubSeq(queue, 1, queueLast), D))
      /\ cleared' = cleared \cup gone
      /\ given' = given /\ back' = back
  BY DEF QueueErase
<1>3. queue' \in Seq(Entries) /\ NoTwice(queue') /\ ToSet(queue') \subseteq ToSet(queue) /\ Len(queue') \in Nat
  <2>1. queue' \in Seq(Entries) /\ NoTwice(queue') /\ ToSet(queue') \subseteq ToSet(queue)
    <3> HIDE DEF D
    <3> QED BY <1>1, <1>2, ErasedOnce
  <2> QED BY <2>1, LenProperties
<1>4. Held' = Held \ gone /\ gone \subseteq Held
  BY <1>1, <1>2 DEF Held
<1>5. queueSize' = Cardinality(Held')
  <2>1. IsFiniteSet(Held) /\ Cardinality(Held) \in Nat
    BY HeldFinite DEF QueueInv, Held
  <2>2. /\ IsFiniteSet(ToSet(queue)) /\ Cardinality(ToSet(queue)) = Len(queue)
        /\ IsFiniteSet(ToSet(queue')) /\ Cardinality(ToSet(queue')) = Len(queue')
    BY <1>1, <1>3, EntriesCounted
  <2>3. Cardinality(gone) = Cardinality(ToSet(queue)) - Cardinality(ToSet(queue) \cap ToSet(queue'))
    BY <2>2, FS_Difference
  <2>4. ToSet(queue) \cap ToSet(queue') = ToSet(queue')
    BY <1>3
  <2> HIDE DEF gone
  <2>5. Cardinality(Held \ gone) = Cardinality(Held) - Cardinality(Held \cap gone)
    BY <2>1, FS_Difference
  <2>6. Held \cap gone = gone
    BY <1>4
  <2>7. queueSize = Cardinality(Held)
    BY DEF QueueInv
  <2>8. Cardinality(gone) = Len(queue) - Len(queue')
    BY <2>2, <2>3, <2>4
  <2> QED BY <1>1, <1>2, <1>3, <1>4, <2>1, <2>5, <2>6, <2>7, <2>8
<1>6. queueLast' \in Int /\ queueLast' <= Len(queue') /\ (queueLast' = 0 <=> queue' = <<>>)
  <2>1. CASE queue' = <<>>
    <3>1. queueLast' = 0 /\ Len(queue') = 0
      BY <1>2, <2>1
    <3> QED BY <2>1, <3>1
  <2>2. CASE queue' # <<>> /\ queueLast < 0
    BY <1>1, <1>2, <1>3, <2>2
  <2>3. CASE queue' # <<>> /\ ~(queueLast < 0) /\ EntryKeys[queue[queueLast]] = key
    BY <1>2, <1>3, <2>3
  <2>4. CASE queue' # <<>> /\ ~(queueLast < 0) /\ ~(EntryKeys[queue[queueLast]] = key)
    <3>1. queueLast' = Len(Without(SubSeq(queue, 1, queueLast), D))
      BY <1>2, <2>4
    <3>2. queue # <<>>
      <4>1. Len(queue') # 0
        BY <1>3, <2>4, EmptySeq
      <4>2. PICK k \in 1 .. Len(queue') : TRUE
        <5>1. 1 \in 1 .. Len(queue')
          BY <1>3, <4>1
        <5> QED BY <5>1
      <4>3. DOMAIN queue' = 1 .. Len(queue') /\ DOMAIN queue = 1 .. Len(queue)
        BY <1>1, <1>3, LenProperties
      <4>4. queue'[k] \in ToSet(queue')
        BY <4>2, <4>3 DEF ToSet
      <4>5. ToSet(queue) # {}
        BY <1>3, <4>4
      <4> QED BY <4>3, <4>5 DEF ToSet
    <3>3. queueLast \in 1 .. Len(queue)
      BY <1>1, <2>4, <3>2
    <3>4. queue[queueLast] \notin D
      BY <2>4
    <3>5. queueLast' \in 1 .. Len(queue')
      <4> HIDE DEF D
      <4> QED BY <1>1, <1>2, <3>1, <3>3, <3>4, PlaceKept
    <3> QED BY <1>3, <2>4, <3>5
  <2> QED BY <2>1, <2>2, <2>3, <2>4
<1>7. NoTwice(queue)' /\ ToSet(queue') \subseteq Held'
  BY <1>1, <1>3, <1>4
<1>8. given' \subseteq Entries /\ back' \subseteq given' /\ cleared' \subseteq given' /\ back' \cap cleared' = {}
  BY <1>2, <1>4 DEF QueueInv, Held
<1> QED BY <1>3, <1>5, <1>6, <1>7, <1>8 DEF QueueInv

LEMMA ClearKeeps == ASSUME QueueInv, QueueClear PROVE QueueInv'
<1> DEFINE A == ToSet(queue)
<1>1. queue \in Seq(Entries) /\ NoTwice(queue) /\ A \subseteq Held /\ queueSize = Cardinality(Held)
  BY DEF QueueInv
<1>2. /\ queue' = <<>> /\ queueLast' = 0 /\ queueSize' = queueSize - Len(queue)
      /\ cleared' = cleared \cup A /\ given' = given /\ back' = back
  BY DEF QueueClear
<1>3. IsFiniteSet(Held) /\ Cardinality(A) = Len(queue)
  BY <1>1, HeldFinite, EntriesCounted DEF QueueInv, Held
<1>4. Held' = Held \ A /\ Held \cap A = A
  BY <1>1, <1>2 DEF Held
<1>5. given' \subseteq Entries /\ back' \subseteq given' /\ cleared' \subseteq given' /\ back' \cap cleared' = {}
  BY <1>1, <1>2 DEF QueueInv, Held
<1>6. Cardinality(Held \ A) = Cardinality(Held) - Cardinality(Held \cap A)
  <2> HIDE DEF A
  <2> QED BY <1>3, FS_Difference
<1>7. queueSize' = Cardinality(Held')
  BY <1>1, <1>2, <1>3, <1>4, <1>6
<1>8. queue' \in Seq(Entries) /\ NoTwice(queue)' /\ ToSet(queue') \subseteq Held' /\ Len(queue') = 0
  BY <1>2 DEF NoTwice, ToSet
<1>9. queueLast' \in Int /\ queueLast' <= Len(queue') /\ (queueLast' = 0 <=> queue' = <<>>)
  BY <1>2, <1>8
<1> QED BY <1>5, <1>7, <1>8, <1>9 DEF QueueInv

LEMMA QueueInvInit == QueueInit => QueueInv
<1> SUFFICES ASSUME QueueInit PROVE QueueInv
  OBVIOUS
<1>1. queue = <<>> /\ queueLast = 0 /\ queueSize = 0 /\ given = {} /\ back = {} /\ cleared = {}
  BY DEF QueueInit
<1>2. Held = {} /\ Cardinality({}) = 0
  BY <1>1, FS_EmptySet DEF Held
<1>3. queue \in Seq(Entries) /\ NoTwice(queue) /\ ToSet(queue) \subseteq Held /\ Len(queue) = 0
  BY <1>1 DEF NoTwice, ToSet
<1> QED BY <1>1, <1>2, <1>3 DEF QueueInv

LEMMA QueueInvNext == QueueInv /\ [QueueNext]_queueVars => QueueInv'
<1> SUFFICES ASSUME QueueInv, [QueueNext]_queueVars PROVE QueueInv'
  OBVIOUS
<1>1. CASE CallUnset \/ UNCHANGED queueVars \/ \E f \in Callbacks : SetCallback(f)
  <2>1. UNCHANGED <<queue, queueLast, queueSize, given, back, cleared>>
    BY <1>1 DEF SetCallback, CallUnset, queueVars
  <2> QED BY <2>1 DEF QueueInv, Held, NoTwice
<1>2. CASE QueuePop
  BY <1>2, PopKeeps
<1>3. CASE QueueClear
  BY <1>3, ClearKeeps
<1>4. ASSUME NEW e \in Entries, QueuePush(e) PROVE QueueInv'
  BY <1>4, PushKeeps
<1>5. ASSUME NEW e \in Entries, QueueErase(EntryKeys[e]) PROVE QueueInv'
  BY <1>5, EraseKeeps
<1>6. ASSUME NEW e \in Entries, NEW reused \in BOOLEAN, QueueInsert(e, reused) PROVE QueueInv'
  BY <1>6, InsertKeeps
<1> QED BY <1>1, <1>2, <1>3, <1>4, <1>5, <1>6 DEF QueueNext

\* The queue of queue.c never holds an entry twice, nor one it has given back
\* or cleared, and what clear() cannot reach is what push() cut off: for any
\* number of entries with any keys.
THEOREM EntriesHaveOneOwner == QueueSpec => []EntriesOwnedOnce
<1>1. QueueInv => EntriesOwnedOnce
  <2> SUFFICES ASSUME QueueInv PROVE EntriesOwnedOnce
    OBVIOUS
  <2>1. Cardinality(ToSet(queue)) = Len(queue)
    BY EntriesCounted DEF QueueInv
  <2>2. back \cap cleared = {} /\ ToSet(queue) \cap (back \cup cleared) = {}
    BY DEF QueueInv, Held
  <2>3. queueLast = 0 => Cardinality(Lost) = queueSize
    <3> SUFFICES ASSUME queueLast = 0 PROVE Cardinality(Lost) = queueSize
      OBVIOUS
    <3>1. Len(queue) = 0
      BY DEF QueueInv
    <3>2. Cardinality(Lost) = queueSize - Len(queue) /\ queueSize \in Nat
      BY LostCounted DEF LostIsRest
    <3> QED BY <3>1, <3>2
  <2> QED BY <2>1, <2>2, <2>3 DEF EntriesOwnedOnce
<1> QED BY <1>1, QueueInvInit, QueueInvNext, PTL DEF QueueSpec

-----------------------------------------------------------------------------
(* queue.c implements linked_list.c *)

\* The keys of entries, as the refinement has them.
Keys(s) == [k \in DOMAIN s |-> EntryKeys[s[k]]]

LEMMA KeyIsNat == ASSUME NEW e \in Entries PROVE EntryKeys[e] \in Nat /\ EntryKeys[e] \in Range(EntryKeys)
<1>1. Entries = 1 .. Len(EntryKeys)
  BY EntryAssumption, LenProperties DEF Entries
<1>2. EntryKeys[e] \in Nat
  BY <1>1, EntryAssumption, ElementOfSeq
<1> QED BY <1>2 DEF Range, Entries

LEMMA KeysAre ==
    ASSUME NEW s \in Seq(Entries)
    PROVE  /\ Keys(s) \in Seq(Nat) /\ Len(Keys(s)) = Len(s)
           /\ \A k \in 1 .. Len(s) : Keys(s)[k] = EntryKeys[s[k]]
           /\ Keys(s) = <<>> <=> s = <<>>
<1>1. Len(s) \in Nat /\ DOMAIN s = 1 .. Len(s)
  BY LenProperties
<1>2. ASSUME NEW k \in 1 .. Len(s) PROVE EntryKeys[s[k]] \in Nat
  BY ElementOfSeq, KeyIsNat
<1>3. Keys(s) \in [1 .. Len(s) -> Nat]
  BY <1>1, <1>2 DEF Keys
<1>4. Keys(s) \in Seq(Nat) /\ Len(Keys(s)) = Len(s)
  BY <1>1, <1>3
<1>5. \A k \in 1 .. Len(s) : Keys(s)[k] = EntryKeys[s[k]]
  BY <1>1 DEF Keys
<1>6. Keys(s) = <<>> <=> s = <<>>
  BY <1>1, <1>4, EmptySeq
<1> QED BY <1>4, <1>5, <1>6

LEMMA NoKeys == <<>> \in Seq(Entries) /\ Keys(<<>>) = <<>>
<1> DEFINE s == <<>>
<1>1. s \in Seq(Entries) /\ s = <<>>
  BY EmptySeq
<1> HIDE DEF s
<1>2. Keys(s) = <<>>
  BY <1>1, KeysAre
<1> QED BY <1>1, <1>2

\* Lists of keys of the same length and places are the same.
LEMMA SameKeys ==
    ASSUME NEW r \in Seq(Entries), NEW t \in Seq(Nat), Len(t) = Len(r),
           \A k \in 1 .. Len(r) : t[k] = EntryKeys[r[k]]
    PROVE  t = Keys(r)
<1>1. /\ Keys(r) \in Seq(Nat) /\ Len(Keys(r)) = Len(r)
      /\ \A k \in 1 .. Len(r) : Keys(r)[k] = EntryKeys[r[k]]
  BY KeysAre
<1>2. \A k \in 1 .. Len(t) : t[k] = Keys(r)[k]
  BY <1>1
<1>3. Len(t) = Len(Keys(r))
  BY <1>1
<1> QED BY <1>1, <1>2, <1>3, SeqEqual

LEMMA KeysOfPart ==
    ASSUME NEW s \in Seq(Entries), NEW n \in 0 .. Len(s)
    PROVE  SubSeq(Keys(s), 1, n) = Keys(SubSeq(s, 1, n))
<1> DEFINE r == SubSeq(s, 1, n)
           t == SubSeq(Keys(s), 1, n)
<1>1. /\ Keys(s) \in Seq(Nat) /\ Len(Keys(s)) = Len(s)
      /\ \A k \in 1 .. Len(s) : Keys(s)[k] = EntryKeys[s[k]]
  BY KeysAre
<1>2. r \in Seq(Entries) /\ Len(r) = n /\ \A i \in 1 .. n : r[i] = s[i]
  BY PartIs
<1>3. t \in Seq(Nat) /\ Len(t) = n /\ \A i \in 1 .. n : t[i] = Keys(s)[i]
  <2>1. n \in 0 .. Len(Keys(s))
    BY <1>1
  <2> QED BY <1>1, <2>1, PartIs
<1>4. Len(s) \in Nat
  BY LenProperties
<1> HIDE DEF r, t
<1>5. \A k \in 1 .. Len(r) : t[k] = EntryKeys[r[k]]
  <2> TAKE k \in 1 .. Len(r)
  <2>1. k \in 1 .. n /\ k \in 1 .. Len(s)
    BY <1>2, <1>4
  <2> QED BY <1>1, <1>2, <1>3, <2>1
<1>6. Len(t) = Len(r)
  BY <1>2, <1>3
<1>7. t = Keys(r)
  BY <1>2, <1>3, <1>5, <1>6, SameKeys
<1> QED BY <1>7 DEF r, t

LEMMA KeysPushed ==
    ASSUME NEW s \in Seq(Entries), NEW n \in 0 .. Len(s), NEW e \in Entries
    PROVE  SubSeq(Keys(s), 1, n) \o <<EntryKeys[e]>> = Keys(SubSeq(s, 1, n) \o <<e>>)
<1> DEFINE r == SubSeq(s, 1, n) \o <<e>>
           v == EntryKeys[e]
           t == SubSeq(Keys(s), 1, n) \o <<v>>
<1>1. /\ Keys(s) \in Seq(Nat) /\ Len(Keys(s)) = Len(s)
      /\ \A k \in 1 .. Len(s) : Keys(s)[k] = EntryKeys[s[k]]
  BY KeysAre
<1>2. v \in Nat
  BY KeyIsNat
<1>3. r \in Seq(Entries) /\ Pushed(r, s, n, e)
  BY PushedBehind
<1> HIDE DEF v
<1>4. t \in Seq(Nat) /\ Pushed(t, Keys(s), n, v)
  <2>1. n \in 0 .. Len(Keys(s))
    BY <1>1
  <2> QED BY <1>1, <1>2, <2>1, PushedBehind
<1>5. Len(s) \in Nat
  BY LenProperties
<1> HIDE DEF r, t
<1>6. Len(t) = n + 1 /\ Len(r) = n + 1
  BY <1>3, <1>4 DEF Pushed
<1>7. \A k \in 1 .. Len(r) : t[k] = EntryKeys[r[k]]
  <2> TAKE k \in 1 .. Len(r)
  <2>1. CASE k = n + 1
    BY <1>3, <1>4, <2>1 DEF Pushed, v
  <2>2. CASE k # n + 1
    <3>1. k \in 1 .. n /\ k \in 1 .. Len(s)
      BY <1>5, <1>6, <2>2
    <3>2. t[k] = Keys(s)[k] /\ r[k] = s[k]
      BY <1>3, <1>4, <3>1 DEF Pushed
    <3> QED BY <1>1, <3>1, <3>2
  <2> QED BY <2>1, <2>2
<1>8. t = Keys(r)
  BY <1>3, <1>4, <1>6, <1>7, SameKeys
<1> QED BY <1>8 DEF r, t, v

LEMMA KeysInserted ==
    ASSUME NEW s \in Seq(Entries), NEW p \in 1 .. Len(s) + 1, NEW e \in Entries
    PROVE  InsertAt(Keys(s), p, EntryKeys[e]) = Keys(InsertAt(s, p, e))
<1> DEFINE r == InsertAt(s, p, e)
           v == EntryKeys[e]
           t == InsertAt(Keys(s), p, v)
<1>1. /\ Keys(s) \in Seq(Nat) /\ Len(Keys(s)) = Len(s)
      /\ \A k \in 1 .. Len(s) : Keys(s)[k] = EntryKeys[s[k]]
  BY KeysAre
<1>2. v \in Nat
  BY KeyIsNat
<1>3. r \in Seq(Entries) /\ Inserted(r, s, p, e)
  BY OneInserted
<1> HIDE DEF v
<1>4. t \in Seq(Nat) /\ Inserted(t, Keys(s), p, v)
  <2>1. p \in 1 .. Len(Keys(s)) + 1
    BY <1>1
  <2> QED BY <1>1, <1>2, <2>1, OneInserted
<1>5. Len(s) \in Nat
  BY LenProperties
<1> HIDE DEF r, t
<1>6. Len(t) = Len(s) + 1 /\ Len(r) = Len(s) + 1
  BY <1>1, <1>3, <1>4 DEF Inserted
<1>7. \A k \in 1 .. Len(r) : t[k] = EntryKeys[r[k]]
  <2> TAKE k \in 1 .. Len(r)
  <2>1. CASE k = p
    BY <1>3, <1>4, <2>1 DEF Inserted, v
  <2>2. CASE k < p
    <3>1. k \in 1 .. p - 1 /\ k \in 1 .. Len(s)
      BY <1>5, <1>6, <2>2
    <3>2. t[k] = Keys(s)[k] /\ r[k] = s[k]
      BY <1>3, <1>4, <3>1 DEF Inserted
    <3> QED BY <1>1, <3>1, <3>2
  <2>3. CASE k > p
    <3>1. k - 1 \in p .. Len(s) /\ k - 1 \in 1 .. Len(s) /\ (k - 1) + 1 = k
      BY <1>5, <1>6, <2>3
    <3>2. t[(k - 1) + 1] = Keys(s)[k - 1] /\ r[(k - 1) + 1] = s[k - 1]
      BY <1>1, <1>3, <1>4, <3>1 DEF Inserted
    <3> QED BY <1>1, <3>1, <3>2
  <2>4. k = p \/ k < p \/ k > p
    BY <1>5, <1>6
  <2> QED BY <2>1, <2>2, <2>3, <2>4
<1>8. Len(t) = Len(r)
  BY <1>6
<1>9. t = Keys(r)
  BY <1>3, <1>4, <1>7, <1>8, SameKeys
<1> QED BY <1>9 DEF r, t, v

LEMMA KeysOfTail ==
    ASSUME NEW s \in Seq(Entries), s # <<>>
    PROVE  Tail(Keys(s)) = Keys(Tail(s))
<1> DEFINE r == Tail(s)
           t == Tail(Keys(s))
<1>1. /\ Keys(s) \in Seq(Nat) /\ Len(Keys(s)) = Len(s) /\ Keys(s) # <<>>
      /\ \A k \in 1 .. Len(s) : Keys(s)[k] = EntryKeys[s[k]]
  BY KeysAre
<1>2. r \in Seq(Entries) /\ Len(r) = Len(s) - 1 /\ \A i \in 1 .. Len(r) : r[i] = s[i + 1]
  BY HeadTailProperties
<1>3. t \in Seq(Nat) /\ Len(t) = Len(Keys(s)) - 1 /\ \A i \in 1 .. Len(t) : t[i] = Keys(s)[i + 1]
  <2> DEFINE u == Keys(s)
  <2>1. u \in Seq(Nat) /\ u # <<>>
    BY <1>1
  <2> HIDE DEF u
  <2>2. Tail(u) \in Seq(Nat) /\ Len(Tail(u)) = Len(u) - 1 /\ \A i \in 1 .. Len(Tail(u)) : Tail(u)[i] = u[i + 1]
    BY <2>1, HeadTailProperties
  <2> QED BY <2>2 DEF u
<1>4. Len(s) \in Nat
  BY LenProperties
<1> HIDE DEF r, t
<1>5. Len(t) = Len(r)
  BY <1>1, <1>2, <1>3
<1>6. \A k \in 1 .. Len(r) : t[k] = EntryKeys[r[k]]
  <2> TAKE k \in 1 .. Len(r)
  <2>1. k + 1 \in 1 .. Len(s) /\ k \in 1 .. Len(t)
    BY <1>2, <1>4, <1>5
  <2> QED BY <1>1, <1>2, <1>3, <2>1
<1>7. t = Keys(r)
  BY <1>2, <1>3, <1>5, <1>6, SameKeys
<1> QED BY <1>7 DEF r, t

\* erase() leaves the keys of what it leaves.
LEMMA KeysWithout ==
    ASSUME NEW s \in Seq(Entries), NEW key
    PROVE  Without(Keys(s), {key}) = Keys(Without(s, {e \in Entries : EntryKeys[e] = key}))
<1> DEFINE D == {e \in Entries : EntryKeys[e] = key}
           u == Keys(s)
<1>1. u \in Seq(Nat) /\ Len(u) = Len(s) /\ \A k \in 1 .. Len(s) : u[k] = EntryKeys[s[k]]
  BY KeysAre
<1>2. Len(s) \in Nat
  BY LenProperties
<1>3. \A k \in 1 .. Len(s) : s[k] \in Entries
  BY ElementOfSeq
<1>4. \A k \in 1 .. Len(s) : u[k] \in {key} <=> s[k] \in D
  BY <1>1, <1>3
<1>5. PICK f : /\ f[0] = <<>>
               /\ \A k \in 1 .. Len(s) : f[k] = IF s[k] \in D THEN f[k - 1] ELSE Append(f[k - 1], s[k])
               /\ Without(s, D) = f[Len(s)]
  <2> HIDE DEF D
  <2> QED BY <1>2, WithoutIs
<1> HIDE DEF D, u
<1>6. PICK h : /\ h[0] = <<>>
               /\ \A k \in 1 .. Len(s) : h[k] = IF u[k] \in {key} THEN h[k - 1] ELSE Append(h[k - 1], u[k])
               /\ Without(u, {key}) = h[Len(s)]
  <2> DEFINE B == {key}
  <2> HIDE DEF B
  <2>1. \E h : /\ h[0] = <<>>
               /\ \A k \in 1 .. Len(u) : h[k] = IF u[k] \in B THEN h[k - 1] ELSE Append(h[k - 1], u[k])
               /\ Without(u, B) = h[Len(u)]
    BY <1>1, <1>2, WithoutIs
  <2> QED BY <1>1, <2>1 DEF B
<1> DEFINE S == {n \in Nat : n <= Len(s) => f[n] \in Seq(Entries) /\ h[n] = Keys(f[n])}
<1>7. 0 \in S
  BY <1>5, <1>6, NoKeys
<1>8. ASSUME NEW n \in Nat, n \in S PROVE n + 1 \in S
  <2> SUFFICES ASSUME n + 1 <= Len(s) PROVE f[n + 1] \in Seq(Entries) /\ h[n + 1] = Keys(f[n + 1])
    OBVIOUS
  <2>1. n + 1 \in 1 .. Len(s) /\ (n + 1) - 1 = n /\ f[n] \in Seq(Entries) /\ h[n] = Keys(f[n])
    BY <1>2, <1>8
  <2>2. f[n + 1] = IF s[n + 1] \in D THEN f[n] ELSE Append(f[n], s[n + 1])
    BY <1>5, <2>1
  <2>3. h[n + 1] = IF s[n + 1] \in D THEN h[n] ELSE Append(h[n], u[n + 1])
    BY <1>4, <1>6, <2>1
  <2>4. CASE s[n + 1] \in D
    BY <2>1, <2>2, <2>3, <2>4
  <2>5. CASE s[n + 1] \notin D
    <3> DEFINE r == f[n]
               e == s[n + 1]
               v == EntryKeys[e]
    <3>1. r \in Seq(Entries) /\ e \in Entries /\ u[n + 1] = v
      BY <1>1, <1>3, <2>1
    <3> HIDE DEF r, e
    <3>2. v \in Nat
      BY <3>1, KeyIsNat
    <3>3. /\ Append(r, e) \in Seq(Entries) /\ Len(Append(r, e)) = Len(r) + 1
          /\ \A i \in 1 .. Len(r) : Append(r, e)[i] = r[i]
          /\ Append(r, e)[Len(r) + 1] = e
      BY <3>1, AppendProperties
    <3>4. /\ Keys(r) \in Seq(Nat) /\ Len(Keys(r)) = Len(r) /\ Len(r) \in Nat
          /\ \A k \in 1 .. Len(r) : Keys(r)[k] = EntryKeys[r[k]]
      BY <3>1, KeysAre, LenProperties
    <3> DEFINE q == Keys(r)
    <3>5. q \in Seq(Nat) /\ Len(q) = Len(r)
      BY <3>4
    <3> HIDE DEF q, v
    <3>6. /\ Append(q, v) \in Seq(Nat) /\ Len(Append(q, v)) = Len(r) + 1
          /\ \A i \in 1 .. Len(r) : Append(q, v)[i] = q[i]
          /\ Append(q, v)[Len(r) + 1] = v
      BY <3>2, <3>5, AppendProperties
    <3>7. \A k \in 1 .. Len(Append(r, e)) : Append(q, v)[k] = EntryKeys[Append(r, e)[k]]
      <4> TAKE k \in 1 .. Len(Append(r, e))
      <4>1. CASE k = Len(r) + 1
        BY <3>3, <3>6, <4>1 DEF v
      <4>2. CASE k \in 1 .. Len(r)
        BY <3>3, <3>4, <3>6, <4>2 DEF q
      <4>3. k = Len(r) + 1 \/ k \in 1 .. Len(r)
        BY <3>3, <3>4
      <4> QED BY <4>1, <4>2, <4>3
    <3>8. Append(q, v) = Keys(Append(r, e))
      <4> DEFINE a == Append(r, e)
                 b == Append(q, v)
      <4>1. a \in Seq(Entries) /\ b \in Seq(Nat) /\ Len(b) = Len(a) /\ \A k \in 1 .. Len(a) : b[k] = EntryKeys[a[k]]
        BY <3>3, <3>6, <3>7
      <4> HIDE DEF a, b
      <4>2. b = Keys(a)
        BY <4>1, SameKeys
      <4> QED BY <4>2 DEF a, b
    <3>9. f[n + 1] = Append(r, e) /\ h[n + 1] = Append(q, v)
      BY <2>1, <2>2, <2>3, <2>5, <3>1 DEF r, e, q
    <3> QED BY <3>3, <3>8, <3>9
  <2> QED BY <2>4, <2>5
<1> HIDE DEF S
<1>9. Nat \subseteq S
  BY <1>7, <1>8, SetInduction
<1>10. h[Len(s)] = Keys(f[Len(s)])
  BY <1>2, <1>9 DEF S
<1>11. Without(u, {key}) = Keys(Without(s, D))
  BY <1>5, <1>6, <1>10
<1> QED BY <1>11 DEF u, D

\* linked_list.c as the queue uses it.
LEMMA ListOperators ==
    ASSUME NEW s, NEW D, NEW p, NEW v
    PROVE  /\ List!Without(s, D) = Without(s, D)
           /\ List!InsertAt(s, p, v) = InsertAt(s, p, v)
           /\ List!Contains(s, v) <=> \E i \in 1 .. Len(s) : s[i] = v
BY DEF List!Without, Without, List!InsertAt, InsertAt, List!Contains

LEMMA ListInitMaps == QueueInit => List!ListInit
<1> SUFFICES ASSUME QueueInit PROVE List!ListInit
  OBVIOUS
<1>1. queue = <<>> /\ queueLast = 0 /\ queueSize = 0 /\ usedPush = FALSE /\ given = {}
  BY DEF QueueInit
<1>3. Keys(queue) = <<>>
  BY <1>1, NoKeys
<1>4. Lost = {} /\ Cardinality(Lost) = 0
  BY <1>1, FS_EmptySet DEF Lost
<1> QED BY <1>1, <1>3, <1>4 DEF List!ListInit, Keys

\* A list has room for each entry that was not handed over yet.
LEMMA RoomLeft ==
    ASSUME QueueInv, NEW e \in Entries, Give(e)
    PROVE  queueSize < Len(EntryKeys)
<1>1. e \notin given
  BY DEF Give
<1>2. Held \subseteq Entries /\ e \notin Held
  BY <1>1 DEF QueueInv, Held
<1>3. IsFiniteSet(Held) /\ Cardinality(Held) \in Nat
  BY <1>2, HeldFinite
<1>4. Cardinality(Held \cup {e}) = Cardinality(Held) + 1
  BY <1>2, <1>3, FS_AddElement
<1>5. Cardinality(Held \cup {e}) <= Len(EntryKeys)
  <2>1. Held \cup {e} \subseteq Entries
    BY <1>2
  <2> QED BY <2>1, HeldFinite
<1>6. Len(EntryKeys) \in Nat
  BY EntryAssumption, LenProperties
<1> QED BY <1>3, <1>4, <1>5, <1>6 DEF QueueInv

LEMMA PushMaps ==
    ASSUME QueueInv, QueueInv', NEW e \in Entries, QueuePush(e)
    PROVE  List!ListPush(EntryKeys[e])
<1> DEFINE v == EntryKeys[e]
<1>1. Give(e) /\ queueSize' = queueSize + 1 /\ usedPush' = TRUE
  BY DEF QueuePush, Give
<1>2. queueSize < Len(EntryKeys)
  BY <1>1, RoomLeft
<1>3. /\ queue \in Seq(Entries) /\ Len(queue) \in Nat /\ queueLast \in Int /\ queueLast <= Len(queue)
      /\ Len(Keys(queue)) = Len(queue)
  BY LenProperties, KeysAre DEF QueueInv
<1>4. /\ queueSize \in Nat /\ Cardinality(Lost) \in Nat
      /\ Cardinality(Lost) = queueSize - Len(queue)
  BY LostCounted DEF LostIsRest
<1>5. /\ queueSize' \in Nat /\ Cardinality(Lost)' \in Nat
      /\ Cardinality(Lost)' = queueSize' - Len(queue')
  <2>1. QueueInv' => LostIsRest'
    BY LostCounted, PTL
  <2> QED BY <2>1 DEF LostIsRest
<1>6. CASE queueLast < 0
  <2>1. queue' = queue /\ queueLast' = -2
    BY <1>6 DEF QueuePush
  <2>2. Cardinality(Lost)' = Cardinality(Lost) + 1
    BY <1>1, <1>3, <1>4, <1>5, <2>1
  <2>3. queueLast' = List!Stray
    BY <2>1 DEF List!Stray
  <2> QED BY <1>1, <1>2, <1>6, <2>1, <2>2, <2>3 DEF List!ListPush
<1>7. CASE ~(queueLast < 0)
  <2>1. queue' = SubSeq(queue, 1, queueLast) \o <<e>> /\ queueLast' = queueLast + 1
    BY <1>7 DEF QueuePush
  <2>2. queueLast \in 0 .. Len(queue)
    BY <1>3, <1>7
  <2>3. Len(queue') = queueLast + 1
    BY <1>3, <2>1, <2>2, PushedBehind DEF Pushed
  <2>4. Cardinality(Lost)' = Cardinality(Lost) + Len(Keys(queue)) - queueLast
    BY <1>1, <1>3, <1>4, <1>5, <2>2, <2>3
  <2>5. Keys(queue') = SubSeq(Keys(queue), 1, queueLast) \o <<v>>
    BY <1>3, <2>1, <2>2, KeysPushed
  <2> QED BY <1>1, <1>2, <1>7, <2>1, <2>4, <2>5 DEF List!ListPush, Keys
<1> QED BY <1>6, <1>7

\* The loop of insert_multiple_case stops at one place only.
LEMMA OnePlace ==
    ASSUME NEW u \in Seq(Int), NEW v \in Int, NEW m \in 1 .. Len(u), NEW n \in 1 .. Len(u),
           m = Len(u) \/ u[m + 1] <= v, \A j \in 2 .. m : u[j] > v,
           n = Len(u) \/ u[n + 1] <= v, \A j \in 2 .. n : u[j] > v
    PROVE  m = n
<1>1. Len(u) \in Nat /\ m \in Int /\ n \in Int
  BY LenProperties
<1>2. ASSUME NEW a \in 1 .. Len(u), NEW b \in 1 .. Len(u), a < b,
             a = Len(u) \/ u[a + 1] <= v, \A j \in 2 .. b : u[j] > v
      PROVE  FALSE
  <2>1. a + 1 \in 2 .. b /\ a # Len(u) /\ a + 1 \in 1 .. Len(u)
    BY <1>1, <1>2
  <2>2. u[a + 1] <= v /\ u[a + 1] > v
    BY <1>2, <2>1
  <2>3. u[a + 1] \in Int
    BY <2>1, ElementOfSeq
  <2> QED BY <2>2, <2>3
<1>3. ~(m < n) /\ ~(n < m)
  BY <1>2
<1> QED BY <1>1, <1>3

\* insert() of the queue finds the place insert() of the list finds.
LEMMA PlaceMaps ==
    ASSUME QueueInv, NEW e \in Entries, NEW place \in 1 .. Len(queue) + 1,
           IF queueSize = 1 /\ queue # <<>>
           THEN place = (IF EntryKeys[queue[1]] >= EntryKeys[e] THEN 2 ELSE 1)
           ELSE /\ \A k \in 1 .. place - 1 : ~NotGreater(k, e)
                /\ place \in DOMAIN queue => NotGreater(place, e)
    PROVE  List!InsertPlace(EntryKeys[e]) = place - 1
<1> DEFINE v == EntryKeys[e]
           u == Keys(queue)
           first == u = <<>> \/ (queueSize = 1 /\ u[1] < v) \/ (queueSize # 1 /\ u[1] <= v)
           Stops(k) == (k = Len(u) \/ u[k + 1] <= v) /\ \A j \in 2 .. k : u[j] > v
<1>1. queue \in Seq(Entries) /\ Len(queue) \in Nat /\ queueSize \in Nat /\ Len(queue) <= queueSize
  <2>1. LostIsRest
    BY LostCounted
  <2> QED BY <2>1 DEF QueueInv, LostIsRest
<1>2. /\ u \in Seq(Nat) /\ Len(u) = Len(queue) /\ (u = <<>> <=> queue = <<>>)
      /\ \A k \in 1 .. Len(queue) : u[k] = EntryKeys[queue[k]]
  BY <1>1, KeysAre
<1>3. v \in Nat /\ \A k \in 1 .. Len(queue) : u[k] \in Nat
  <2>1. v \in Nat
    BY KeyIsNat
  <2> HIDE DEF u, v
  <2>2. \A k \in 1 .. Len(u) : u[k] \in Nat
    BY <1>2, ElementOfSeq
  <2> QED BY <1>2, <2>1, <2>2
<1>4. DOMAIN queue = 1 .. Len(queue) /\ (queue # <<>> => 1 \in 1 .. Len(queue))
  BY <1>1, LenProperties, EmptySeq
<1>5. List!InsertPlace(v) = IF first THEN 0 ELSE List!BehindGreater(v)
  BY DEF List!InsertPlace, Keys
<1>6. List!BehindGreater(v) = CHOOSE k \in 1 .. Len(u) : Stops(k)
  BY DEF List!BehindGreater, Keys
<1> HIDE DEF u, v
<1>7. ASSUME ~first, place - 1 \in 1 .. Len(u), Stops(place - 1)
      PROVE  List!InsertPlace(v) = place - 1
  <2>1. \A k \in 1 .. Len(u) : Stops(k) => k = place - 1
    <3> SUFFICES ASSUME NEW k \in 1 .. Len(u), Stops(k) PROVE k = place - 1
      OBVIOUS
    <3>1. PICK n \in 1 .. Len(u) : n = place - 1
      BY <1>7
    <3>2. u \in Seq(Int) /\ v \in Int
      <4>1. Nat \subseteq Int
        OBVIOUS
      <4> QED BY <1>2, <1>3, <4>1, SeqMonotonic
    <3>3. Stops(n)
      BY <1>7, <3>1
    <3>4. k = n
      BY <3>2, <3>3, OnePlace
    <3> QED BY <3>1, <3>4
  <2>2. (CHOOSE k \in 1 .. Len(u) : Stops(k)) = place - 1
    <3> HIDE DEF Stops
    <3> QED BY <1>7, <2>1
  <2> QED BY <1>5, <1>6, <1>7, <2>2
<1>8. CASE queue = <<>>
  <2>1. first /\ Len(queue) = 0
    BY <1>2, <1>8
  <2>2. place = 1
    BY <2>1
  <2> QED BY <1>5, <2>1, <2>2 DEF v
<1>9. CASE queue # <<>> /\ queueSize = 1
  <2>1. Len(queue) = 1 /\ u[1] = EntryKeys[queue[1]] /\ u[1] \in Nat /\ Len(u) = 1
    BY <1>1, <1>2, <1>3, <1>4, <1>9
  <2>2. place = IF u[1] >= v THEN 2 ELSE 1
    BY <1>9, <2>1 DEF v
  <2>3. CASE u[1] < v
    <3>1. place = 1 /\ first
      BY <1>3, <1>9, <2>1, <2>2, <2>3
    <3> QED BY <1>5, <3>1 DEF v
  <2>4. CASE ~(u[1] < v)
    <3>1. place = 2 /\ ~first
      BY <1>2, <1>3, <1>9, <2>1, <2>2, <2>4
    <3>2. place - 1 \in 1 .. Len(u) /\ Stops(place - 1)
      BY <2>1, <3>1
    <3> QED BY <1>7, <3>1, <3>2 DEF v
  <2> QED BY <2>3, <2>4
<1>10. CASE queue # <<>> /\ queueSize # 1
  <2>1. \A k \in 1 .. place - 1 : ~NotGreater(k, e)
    BY <1>10
  <2>2. place \in 1 .. Len(queue) => NotGreater(place, e)
    BY <1>4, <1>10
  <2>3. \A k \in 1 .. Len(queue) : NotGreater(k, e) <=> u[k] <= v
    BY <1>2 DEF NotGreater, v
  <2>4. 1 \in 1 .. Len(queue)
    BY <1>4, <1>10
  <2>5. CASE u[1] <= v
    <3>1. NotGreater(1, e)
      BY <2>3, <2>4, <2>5
    <3>2. 1 \notin 1 .. place - 1
      BY <2>1, <3>1
    <3>3. place = 1
      BY <1>1, <3>2
    <3>4. first
      BY <1>10, <2>5
    <3> QED BY <1>5, <3>3, <3>4 DEF v
  <2>6. CASE ~(u[1] <= v)
    <3>1. place # 1
      BY <2>2, <2>3, <2>4, <2>6
    <3>2. place - 1 \in 1 .. Len(queue) /\ (place - 1) + 1 = place
      BY <1>1, <3>1
    <3>3. ~first
      BY <1>2, <1>10, <2>6
    <3>4. place - 1 = Len(u) \/ u[(place - 1) + 1] <= v
      <4>1. CASE place \in 1 .. Len(queue)
        BY <2>2, <2>3, <3>2, <4>1
      <4>2. CASE place \notin 1 .. Len(queue)
        BY <1>1, <1>2, <3>2, <4>2
      <4> QED BY <4>1, <4>2
    <3>5. \A j \in 2 .. place - 1 : u[j] > v
      <4> TAKE j \in 2 .. place - 1
      <4>1. j \in 1 .. place - 1 /\ j \in 1 .. Len(queue)
        BY <1>1, <3>2
      <4>2. ~(u[j] <= v) /\ u[j] \in Nat
        BY <1>3, <2>1, <2>3, <4>1
      <4> QED BY <1>3, <4>2
    <3> QED BY <1>2, <1>7, <3>2, <3>3, <3>4, <3>5 DEF v
  <2> QED BY <2>5, <2>6
<1> QED BY <1>8, <1>9, <1>10

LEMMA InsertMaps ==
    ASSUME QueueInv, QueueInv', NEW e \in Entries, NEW reused \in BOOLEAN, QueueInsert(e, reused)
    PROVE  List!ListInsert(EntryKeys[e], reused)
<1> DEFINE v == EntryKeys[e]
           u == Keys(queue)
<1>1. Give(e) /\ queueSize' = queueSize + 1 /\ usedPush' = usedPush /\ (reused => queueLast = -1)
  BY DEF QueueInsert, Give
<1>2. queueSize < Len(EntryKeys)
  BY <1>1, RoomLeft
<1>3. PICK place \in 1 .. Len(queue) + 1 :
        /\ IF queueSize = 1 /\ queue # <<>>
           THEN place = (IF EntryKeys[queue[1]] >= EntryKeys[e] THEN 2 ELSE 1)
           ELSE /\ \A k \in 1 .. place - 1 : ~NotGreater(k, e)
                /\ place \in DOMAIN queue => NotGreater(place, e)
        /\ queue' = InsertAt(queue, place, e)
        /\ queueLast' = LastAfterInsert(place, reused)
  BY DEF QueueInsert
<1>4. /\ queue \in Seq(Entries) /\ Len(queue) \in Nat /\ Len(u) = Len(queue)
      /\ queueLast \in Int
  BY LenProperties, KeysAre DEF QueueInv
<1>5. List!InsertPlace(v) = place - 1
  BY <1>3, PlaceMaps
<1>6. Keys(queue') = InsertAt(u, place, v)
  BY <1>3, <1>4, KeysInserted
<1>7. Keys(queue') = List!InsertAt(u, (place - 1) + 1, v)
  <2>1. (place - 1) + 1 = place
    BY <1>4
  <2> HIDE DEF u, v
  <2> QED BY <1>6, <2>1, ListOperators
<1>8. Len(queue') = Len(queue) + 1
  BY <1>3, <1>4, OneInserted DEF Inserted
<1>9. Cardinality(Lost)' = Cardinality(Lost)
  <2>1. QueueInv' => LostIsRest'
    BY LostCounted, PTL
  <2>2. LostIsRest
    BY LostCounted
  <2> QED BY <1>1, <1>4, <1>8, <2>1, <2>2 DEF LostIsRest
<1>10. queueLast' = IF place - 1 = Len(u) \/ reused THEN (place - 1) + 1
                    ELSE IF queueLast > place - 1 THEN queueLast + 1 ELSE queueLast
  <2>1. (place - 1 = Len(u) <=> place = Len(queue) + 1) /\ (place - 1) + 1 = place
        /\ (queueLast > place - 1 <=> queueLast >= place)
    BY <1>4
  <2> QED BY <1>3, <2>1 DEF LastAfterInsert
<1>11. reused => queueLast = List!Freed
  BY <1>1 DEF List!Freed
<1> QED BY <1>1, <1>2, <1>5, <1>7, <1>9, <1>10, <1>11 DEF List!ListInsert, Keys

LEMMA PopMaps == ASSUME QueueInv, QueueInv', QueuePop PROVE List!ListPop
<1> DEFINE u == Keys(queue)
<1>1. queue # <<>> /\ queue' = Tail(queue) /\ queueSize' = queueSize - 1 /\ usedPush' = usedPush
  BY DEF QueuePop
<1>2. queue \in Seq(Entries) /\ Len(queue) \in Nat /\ Len(u) = Len(queue) /\ u # <<>>
  BY <1>1, LenProperties, KeysAre DEF QueueInv
<1>3. Keys(queue') = Tail(u) /\ Len(queue') = Len(queue) - 1
  BY <1>1, <1>2, KeysOfTail, HeadTailProperties
<1>4. Cardinality(Lost)' = Cardinality(Lost)
  <2>1. QueueInv' => LostIsRest'
    BY LostCounted, PTL
  <2>2. LostIsRest
    BY LostCounted
  <2> QED BY <1>1, <1>2, <1>3, <2>1, <2>2 DEF LostIsRest
<1>5. queueLast' = List!LastAfterPop
  <2>1. queueLast' = IF Len(queue) = 1 THEN 0 ELSE IF queueLast = 1 THEN -1
                     ELSE IF queueLast > 1 THEN queueLast - 1 ELSE queueLast
    BY DEF QueuePop
  <2>2. List!LastAfterPop = IF Len(u) = 1 THEN 0 ELSE IF queueLast = 1 THEN -1
                            ELSE IF queueLast > 1 THEN queueLast - 1 ELSE queueLast
    BY DEF List!LastAfterPop, List!LastWithout, List!Freed, Keys
  <2> QED BY <1>2, <2>1, <2>2
<1> QED BY <1>1, <1>2, <1>3, <1>4, <1>5 DEF List!ListPop, Keys

\* What has nothing to erase stays.
LEMMA NothingErased ==
    ASSUME NEW T, NEW s \in Seq(T), NEW D, \A i \in 1 .. Len(s) : s[i] \notin D
    PROVE  Without(s, D) = s
<1>1. Len(s) \in Nat
  BY LenProperties
<1>2. PICK f : /\ f[0] = <<>>
               /\ \A k \in 1 .. Len(s) : f[k] = IF s[k] \in D THEN f[k - 1] ELSE Append(f[k - 1], s[k])
               /\ Without(s, D) = f[Len(s)]
  BY <1>1, WithoutIs
<1> DEFINE S == {n \in Nat : n <= Len(s) => f[n] \in Seq(T) /\ Len(f[n]) = n /\ \A i \in 1 .. n : f[n][i] = s[i]}
<1>3. 0 \in S
  <2>1. <<>> \in Seq(T) /\ Len(<<>>) = 0
    BY EmptySeq
  <2>2. f[0] \in Seq(T) /\ Len(f[0]) = 0
    BY <1>2, <2>1
  <2>3. \A i \in 1 .. 0 : f[0][i] = s[i]
    OBVIOUS
  <2> QED BY <2>2, <2>3
<1>4. ASSUME NEW n \in Nat, n \in S PROVE n + 1 \in S
  <2> SUFFICES ASSUME n + 1 <= Len(s)
               PROVE  f[n + 1] \in Seq(T) /\ Len(f[n + 1]) = n + 1 /\ \A i \in 1 .. n + 1 : f[n + 1][i] = s[i]
    OBVIOUS
  <2> DEFINE r == f[n]
             e == s[n + 1]
  <2>1. n + 1 \in 1 .. Len(s) /\ (n + 1) - 1 = n /\ r \in Seq(T) /\ Len(r) = n /\ \A i \in 1 .. n : r[i] = s[i]
    BY <1>1, <1>4
  <2>2. f[n + 1] = Append(r, e) /\ e \in T
    BY <1>2, <2>1, ElementOfSeq
  <2> HIDE DEF r
  <2>3. /\ Append(r, e) \in Seq(T) /\ Len(Append(r, e)) = Len(r) + 1
        /\ \A i \in 1 .. Len(r) : Append(r, e)[i] = r[i]
        /\ Append(r, e)[Len(r) + 1] = e
    <3> HIDE DEF e
    <3> QED BY <2>1, <2>2, AppendProperties
  <2>4. \A i \in 1 .. n + 1 : f[n + 1][i] = s[i]
    <3> TAKE i \in 1 .. n + 1
    <3>1. i = n + 1 \/ i \in 1 .. n
      OBVIOUS
    <3>2. CASE i = n + 1
      BY <2>1, <2>2, <2>3, <3>2
    <3>3. CASE i \in 1 .. n
      BY <2>1, <2>2, <2>3, <3>3
    <3> QED BY <3>1, <3>2, <3>3
  <2> QED BY <2>1, <2>2, <2>3, <2>4
<1> HIDE DEF S
<1>5. Nat \subseteq S
  BY <1>3, <1>4, SetInduction
<1> DEFINE r == f[Len(s)]
<1>6. r \in Seq(T) /\ Len(r) = Len(s) /\ \A i \in 1 .. Len(r) : r[i] = s[i]
  BY <1>1, <1>5 DEF S
<1> HIDE DEF r
<1>7. r = s
  BY <1>6, SeqEqual
<1> QED BY <1>2, <1>7 DEF r

LEMMA EraseMaps ==
    ASSUME QueueInv, QueueInv', NEW key, QueueErase(key)
    PROVE  List!ListErase(key)
<1> DEFINE D == {e \in Entries : EntryKeys[e] = key}
           u == Keys(queue)
<1>1. queue \in Seq(Entries) /\ Len(queue) \in Nat /\ queueLast \in Int /\ queueLast <= Len(queue)
  BY LenProperties DEF QueueInv
<1>2. /\ u \in Seq(Nat) /\ Len(u) = Len(queue)
      /\ \A k \in 1 .. Len(queue) : u[k] = EntryKeys[queue[k]]
  BY <1>1, KeysAre
<1>3. /\ queue' = Without(queue, D) /\ queue # Without(queue, D)
      /\ queueSize' = queueSize - (Len(queue) - Len(queue')) /\ usedPush' = usedPush
      /\ queueLast' = IF queue' = <<>> THEN 0
                      ELSE IF queueLast < 0 THEN queueLast
                      ELSE IF EntryKeys[queue[queueLast]] = key THEN -1
                      ELSE Len(Without(SubSeq(queue, 1, queueLast), D))
  BY DEF QueueErase
<1>4. queue' \in Seq(Entries) /\ Keys(queue') = Without(u, {key}) /\ Len(Keys(queue')) = Len(queue')
      /\ (Keys(queue') = <<>> <=> queue' = <<>>)
  <2>1. queue' \in Seq(Entries)
    BY DEF QueueInv
  <2>2. Keys(queue') = Without(u, {key})
    BY <1>1, <1>3, KeysWithout
  <2> QED BY <2>1, <2>2, KeysAre
<1>5. \E i \in 1 .. Len(u) : u[i] = key
  <2>1. PICK i \in 1 .. Len(queue) : queue[i] \in D
    <3> HIDE DEF D
    <3> QED BY <1>1, <1>3, NothingErased
  <2> QED BY <1>2, <2>1
<1>6. Cardinality(Lost)' = Cardinality(Lost)
  <2>1. QueueInv' => LostIsRest'
    BY LostCounted, PTL
  <2>2. LostIsRest
    BY LostCounted
  <2> QED BY <1>1, <1>3, <2>1, <2>2 DEF LostIsRest
<1>7. queueLast' = IF Keys(queue') = <<>> THEN 0
                   ELSE IF queueLast < 0 THEN queueLast
                   ELSE IF u[queueLast] = key THEN -1
                   ELSE Len(Without(SubSeq(u, 1, queueLast), {key}))
  <2>1. CASE queue' = <<>> \/ queueLast < 0
    BY <1>3, <1>4, <2>1
  <2>2. CASE ~(queue' = <<>> \/ queueLast < 0)
    <3>1. queueLast # 0
      <4>1. queueLast = 0 => queue = <<>>
        BY DEF QueueInv
      <4>2. queue # <<>>
        BY <1>2, <1>5
      <4> QED BY <4>1, <4>2
    <3>2. queueLast \in 1 .. Len(queue) /\ queueLast \in 0 .. Len(queue)
      BY <1>1, <2>2, <3>1
    <3>3. u[queueLast] = EntryKeys[queue[queueLast]]
      BY <1>2, <3>2
    <3> DEFINE a == SubSeq(queue, 1, queueLast)
    <3>4. a \in Seq(Entries) /\ SubSeq(u, 1, queueLast) = Keys(a)
      BY <1>1, <3>2, PartIs, KeysOfPart
    <3> HIDE DEF a
    <3>5. Without(Keys(a), {key}) = Keys(Without(a, D))
      BY <3>4, KeysWithout
    <3>6. Without(a, D) \in Seq(Entries)
      <4> HIDE DEF D
      <4> QED BY <3>4, WithoutKeeps
    <3>7. Len(Keys(Without(a, D))) = Len(Without(a, D))
      BY <3>6, KeysAre
    <3> QED BY <1>3, <1>4, <2>2, <3>3, <3>4, <3>5, <3>7 DEF a
  <2> QED BY <2>1, <2>2
<1> DEFINE w == Keys(queue')
           y == SubSeq(u, 1, queueLast)
<1>8. List!Contains(u, key)
  <2> HIDE DEF u
  <2> QED BY <1>5, ListOperators
<1>9. w = List!Without(u, {key}) /\ List!Without(y, {key}) = Without(y, {key})
  <2> HIDE DEF u, y
  <2> QED BY <1>4, ListOperators
<1>10. queueLast' = IF w = <<>> THEN 0
                    ELSE IF queueLast < 0 THEN queueLast
                    ELSE IF u[queueLast] = key THEN List!Freed
                    ELSE Len(List!Without(y, {key}))
  <2> HIDE DEF u, w
  <2> QED BY <1>7, <1>9 DEF List!Freed, w
<1>11. queueSize' = queueSize - (Len(u) - Len(w))
  BY <1>2, <1>3, <1>4
<1> QED BY <1>3, <1>6, <1>8, <1>9, <1>10, <1>11 DEF List!ListErase, Keys

LEMMA ClearMaps == ASSUME QueueInv, QueueInv', QueueClear PROVE List!ListClear
<1>1. queue' = <<>> /\ queueLast' = 0 /\ queueSize' = queueSize - Len(queue) /\ usedPush' = usedPush
  BY DEF QueueClear
<1>2. Len(Keys(queue)) = Len(queue) /\ Keys(queue') = <<>> /\ Len(queue') = 0
  BY <1>1, KeysAre, NoKeys DEF QueueInv
<1>3. Cardinality(Lost)' = Cardinality(Lost)
  <2>1. QueueInv' => LostIsRest'
    BY LostCounted, PTL
  <2>2. LostIsRest
    BY LostCounted
  <2> QED BY <1>1, <1>2, <2>1, <2>2 DEF LostIsRest
<1> QED BY <1>1, <1>2, <1>3 DEF List!ListClear, Keys

LEMMA StepMaps == QueueInv /\ QueueInv' /\ [QueueNext]_queueVars => [List!ListNext]_(List!listVars)
<1> SUFFICES ASSUME QueueInv, QueueInv', [QueueNext]_queueVars PROVE [List!ListNext]_(List!listVars)
  OBVIOUS
<1>1. CASE CallUnset \/ UNCHANGED queueVars \/ \E f \in Callbacks : SetCallback(f)
  <2>1. UNCHANGED <<queue, queueLast, queueSize, given, back, cleared, usedPush>>
    BY <1>1 DEF SetCallback, CallUnset, queueVars
  <2> QED BY <2>1 DEF List!listVars, Lost
<1>2. CASE QueuePop
  BY <1>2, PopMaps DEF List!ListNext
<1>3. CASE QueueClear
  BY <1>3, ClearMaps DEF List!ListNext
<1>4. ASSUME NEW e \in Entries, QueuePush(e) PROVE [List!ListNext]_(List!listVars)
  BY <1>4, PushMaps, KeyIsNat DEF List!ListNext
<1>5. ASSUME NEW e \in Entries, QueueErase(EntryKeys[e]) PROVE [List!ListNext]_(List!listVars)
  BY <1>5, EraseMaps, KeyIsNat DEF List!ListNext
<1>6. ASSUME NEW e \in Entries, NEW reused \in BOOLEAN, QueueInsert(e, reused)
      PROVE  [List!ListNext]_(List!listVars)
  BY <1>6, InsertMaps, KeyIsNat DEF List!ListNext
<1> QED BY <1>1, <1>2, <1>3, <1>4, <1>5, <1>6 DEF QueueNext

\* The queue of pointers is the list of integers over the keys of its entries:
\* each call of queue.c does to them what that of linked_list.c does, also
\* where last has gone astray, for any number of entries with any keys.
THEOREM QueueImplementsList == QueueSpec => IsIntList
<1> USE DEF IsIntList, List!ListSpec
<1> QED BY ListInitMaps, StepMaps, QueueInvInit, QueueInvNext, PTL DEF QueueSpec

-----------------------------------------------------------------------------
(* the calculator: sums over finite sets *)

\* Induction over the subsets of a finite set.
LEMMA SubsetInduction ==
  ASSUME NEW T, IsFiniteSet(T), NEW P,
         \A s \in SUBSET T : (\A x \in s : s \ {x} \in P) => s \in P
  PROVE  SUBSET T \subseteq P
<1> DEFINE N == {n \in Nat : \A s \in SUBSET T : Cardinality(s) = n => s \in P}
<1>1. \A s \in SUBSET T : /\ IsFiniteSet(s) /\ Cardinality(s) \in Nat
                          /\ Cardinality(s) = 0 => s = {}
                          /\ \A x \in s : s \ {x} \in SUBSET T /\ Cardinality(s \ {x}) = Cardinality(s) - 1
  BY FS_Subset, FS_CardinalityType, FS_EmptySet, FS_RemoveElement
<1>2. 0 \in N
  BY <1>1
<1>3. ASSUME NEW n \in Nat, n \in N PROVE n + 1 \in N
  <2> SUFFICES ASSUME NEW s \in SUBSET T, Cardinality(s) = n + 1 PROVE s \in P
    OBVIOUS
  <2>1. ASSUME NEW x \in s PROVE s \ {x} \in P
    BY <1>1, <1>3
  <2> QED BY <2>1
<1> HIDE DEF N
<1>4. Nat \subseteq N
  BY <1>2, <1>3, SetInduction
<1> QED BY <1>1, <1>4 DEF N

Sigma(G, S) == MapThenSumSet(LAMBDA k : G[k], S)

Chosen(s) == CHOOSE x \in s : TRUE
SumStep(G, h, s) == IF s = {} THEN 0 ELSE G[Chosen(s)] + h[s \ {Chosen(s)}]
Sums(G, T, h) == h = [s \in SUBSET T |-> SumStep(G, h, s)]

\* There are such sums, and two of them agree where their summands do.
LEMMA SumsExist == ASSUME NEW T, IsFiniteSet(T), NEW G PROVE \E h : Sums(G, T, h)
<1> DEFINE Small(n) == {s \in SUBSET T : Cardinality(s) <= n}
           N == {n \in Nat : \E h : h = [s \in Small(n) |-> SumStep(G, h, s)]}
<1>1. \A s \in SUBSET T : /\ Cardinality(s) \in Nat
                          /\ Cardinality(s) = 0 => s = {}
                          /\ s # {} => /\ s \ {Chosen(s)} \in SUBSET T
                                       /\ Cardinality(s \ {Chosen(s)}) = Cardinality(s) - 1
  BY FS_Subset, FS_CardinalityType, FS_EmptySet, FS_RemoveElement DEF Chosen
<1>2. 0 \in N
  <2> DEFINE h == [s \in Small(0) |-> 0]
  <2>1. ASSUME NEW s \in Small(0) PROVE s = {}
    <3>1. Cardinality(s) \in Nat /\ Cardinality(s) <= 0
      BY <1>1
    <3>2. Cardinality(s) = 0
      BY <3>1
    <3> QED BY <1>1, <3>2
  <2>2. h = [s \in Small(0) |-> SumStep(G, h, s)]
    BY <2>1 DEF SumStep
  <2> QED BY <2>2
<1>3. ASSUME NEW n \in Nat, n \in N PROVE n + 1 \in N
  <2>1. PICK h : h = [s \in Small(n) |-> SumStep(G, h, s)]
    BY <1>3
  <2> DEFINE f == [s \in Small(n + 1) |-> SumStep(G, h, s)]
  <2>2. ASSUME NEW s \in Small(n + 1), s # {}
        PROVE  /\ s \ {Chosen(s)} \in Small(n) /\ s \ {Chosen(s)} \in Small(n + 1)
    BY <1>1, <2>2
  <2>3. ASSUME NEW s \in Small(n) PROVE f[s] = h[s]
    <3>1. s \in SUBSET T /\ Cardinality(s) \in Nat /\ Cardinality(s) <= n
      BY <1>1
    <3>2. s \in Small(n + 1)
      BY <3>1
    <3> QED BY <2>1, <3>2
  <2>4. ASSUME NEW s \in Small(n + 1) PROVE SumStep(G, h, s) = SumStep(G, f, s)
    <3>1. CASE s = {}
      BY <3>1 DEF SumStep
    <3>2. CASE s # {}
      <4>1. f[s \ {Chosen(s)}] = h[s \ {Chosen(s)}]
        BY <2>2, <2>3, <3>2
      <4> QED BY <4>1 DEF SumStep
    <3> QED BY <3>1, <3>2
  <2>5. f = [s \in Small(n + 1) |-> SumStep(G, f, s)]
    <3> DEFINE g == [s \in Small(n + 1) |-> SumStep(G, f, s)]
    <3>1. \A s \in Small(n + 1) : f[s] = g[s]
      BY <2>4
    <3> QED BY <3>1
  <2> HIDE DEF f
  <2> QED BY <2>5
<1> HIDE DEF N
<1>4. Nat \subseteq N
  BY <1>2, <1>3, SetInduction
<1>5. Cardinality(T) \in Nat /\ Small(Cardinality(T)) = SUBSET T
  BY FS_Subset, FS_CardinalityType
<1>6. PICK h : h = [s \in Small(Cardinality(T)) |-> SumStep(G, h, s)]
  BY <1>4, <1>5 DEF N
<1> QED BY <1>5, <1>6 DEF Sums

Alike(G, H, S) == \A x \in S : G[x] = H[x]

LEMMA SumsAgree ==
  ASSUME NEW T, NEW U, IsFiniteSet(U), U \subseteq T, NEW G, NEW H, Alike(G, H, U),
         NEW g, NEW h, Sums(G, T, g), Sums(H, U, h)
  PROVE  \A s \in SUBSET U : g[s] = h[s]
<1> DEFINE P == {s \in SUBSET U : g[s] = h[s]}
<1>1. ASSUME NEW s \in SUBSET U, \A x \in s : s \ {x} \in P PROVE s \in P
  <2>1. g[s] = SumStep(G, g, s) /\ h[s] = SumStep(H, h, s)
    BY DEF Sums
  <2>2. CASE s = {}
    BY <2>1, <2>2 DEF SumStep
  <2>3. CASE s # {}
    <3>1. Chosen(s) \in s
      BY <2>3 DEF Chosen
    <3>2. g[s \ {Chosen(s)}] = h[s \ {Chosen(s)}] /\ G[Chosen(s)] = H[Chosen(s)]
      BY <1>1, <3>1 DEF Alike
    <3> QED BY <2>1, <2>3, <3>2 DEF SumStep
  <2> QED BY <2>2, <2>3
<1> HIDE DEF P
<1>2. SUBSET U \subseteq P
  BY <1>1, SubsetInduction
<1> QED BY <1>2 DEF P

LEMMA SigmaChosen ==
  ASSUME NEW G, NEW S, NEW g, Sums(G, S, g)
  PROVE  \E h : Sums(G, S, h) /\ Sigma(G, S) = h[S]
BY DEF Sigma, MapThenSumSet, MapThenFoldSet, Sums, SumStep, Chosen

\* A sum over a part of T is what any such function on the parts of T says.
LEMMA SigmaIs ==
  ASSUME NEW T, IsFiniteSet(T), NEW G, NEW h, Sums(G, T, h), NEW S \in SUBSET T
  PROVE  Sigma(G, S) = h[S]
<1>1. IsFiniteSet(S)
  BY FS_Subset
<1>2. PICK g : Sums(G, S, g)
  BY <1>1, SumsExist
<1>3. PICK f : Sums(G, S, f) /\ Sigma(G, S) = f[S]
  BY <1>2, SigmaChosen
<1>4. h[S] = f[S]
  BY <1>1, <1>3, SumsAgree DEF Alike
<1> QED BY <1>3, <1>4

LEMMA SigmaStep ==
  ASSUME NEW S, IsFiniteSet(S), NEW G
  PROVE  Sigma(G, S) = IF S = {} THEN 0 ELSE G[Chosen(S)] + Sigma(G, S \ {Chosen(S)})
<1>1. PICK h : Sums(G, S, h)
  BY SumsExist
<1>2. Sigma(G, S) = h[S] /\ Sigma(G, S \ {Chosen(S)}) = h[S \ {Chosen(S)}]
  BY <1>1, SigmaIs
<1>3. h[S] = SumStep(G, h, S)
  BY <1>1 DEF Sums
<1> QED BY <1>2, <1>3 DEF SumStep

\* Only the summands count.
LEMMA SigmaSame ==
  ASSUME NEW S, IsFiniteSet(S), NEW G, NEW H, Alike(G, H, S)
  PROVE  Sigma(G, S) = Sigma(H, S)
<1>1. PICK g, h : Sums(G, S, g) /\ Sums(H, S, h)
  BY SumsExist
<1>2. \A s \in SUBSET S : g[s] = h[s]
  <2>1. S \subseteq S
    OBVIOUS
  <2> QED BY <1>1, <2>1, SumsAgree
<1>3. Sigma(G, S) = g[S] /\ Sigma(H, S) = h[S]
  BY <1>1, SigmaIs
<1> QED BY <1>2, <1>3

Summands(G, S) == \A x \in S : G[x] \in Int

LEMMA SigmaTyped ==
  ASSUME NEW S, IsFiniteSet(S), NEW G, Summands(G, S)
  PROVE  \A s \in SUBSET S : Sigma(G, s) \in Int
<1> DEFINE P == {s \in SUBSET S : Sigma(G, s) \in Int}
<1>1. ASSUME NEW s \in SUBSET S, \A x \in s : s \ {x} \in P PROVE s \in P
  <2>1. Sigma(G, s) = IF s = {} THEN 0 ELSE G[Chosen(s)] + Sigma(G, s \ {Chosen(s)})
    BY FS_Subset, SigmaStep
  <2>2. CASE s = {}
    BY <2>1, <2>2
  <2>3. CASE s # {}
    <3>1. Chosen(s) \in s
      BY <2>3 DEF Chosen
    <3>2. G[Chosen(s)] \in Int /\ Sigma(G, s \ {Chosen(s)}) \in Int
      BY <1>1, <3>1 DEF Summands
    <3> QED BY <2>1, <2>3, <3>2
  <2> QED BY <2>2, <2>3
<1> HIDE DEF P
<1>2. SUBSET S \subseteq P
  BY <1>1, SubsetInduction
<1> QED BY <1>2 DEF P

\* The sum does not depend on the order of its summands.
LEMMA SigmaSplits ==
  ASSUME NEW S, IsFiniteSet(S), NEW G, Summands(G, S)
  PROVE  \A x \in S : Sigma(G, S) = G[x] + Sigma(G, S \ {x})
<1> DEFINE P == {s \in SUBSET S : \A x \in s : Sigma(G, s) = G[x] + Sigma(G, s \ {x})}
<1>1. ASSUME NEW s \in SUBSET S, \A x \in s : s \ {x} \in P PROVE s \in P
  <2>1. IsFiniteSet(s)
    BY FS_Subset
  <2>2. CASE s = {}
    BY <2>2
  <2>3. CASE s # {}
    <3> DEFINE c == Chosen(s)
    <3>1. c \in s
      BY <2>3 DEF Chosen
    <3>2. Sigma(G, s) = G[c] + Sigma(G, s \ {c})
      BY <2>1, <2>3, SigmaStep
    <3> HIDE DEF c
    <3>3. G[c] \in Int /\ Sigma(G, s \ {c}) \in Int
      BY <3>1, SigmaTyped DEF Summands
    <3>4. ASSUME NEW x \in s PROVE Sigma(G, s) = G[x] + Sigma(G, s \ {x})
      <4>1. CASE x = c
        BY <3>2, <4>1
      <4>2. CASE x # c
        <5>1. x \in s \ {c} /\ c \in s \ {x} /\ (s \ {c}) \ {x} = (s \ {x}) \ {c}
          BY <3>1, <4>2
        <5>2. Sigma(G, s \ {c}) = G[x] + Sigma(G, (s \ {c}) \ {x})
          BY <1>1, <3>1, <5>1
        <5>3. Sigma(G, s \ {x}) = G[c] + Sigma(G, (s \ {x}) \ {c})
          BY <1>1, <3>1, <5>1
        <5>4. G[x] \in Int /\ (s \ {x}) \ {c} \in SUBSET S
          BY <1>1, <3>1 DEF Summands
        <5>5. Sigma(G, (s \ {c}) \ {x}) \in Int
          BY <5>1, <5>4, SigmaTyped
        <5>6. Sigma(G, s \ {x}) = G[c] + Sigma(G, (s \ {c}) \ {x})
          BY <5>1, <5>3
        <5> DEFINE r == Sigma(G, (s \ {c}) \ {x})
        <5>7. Sigma(G, s) = G[c] + (G[x] + r) /\ Sigma(G, s \ {x}) = G[c] + r /\ r \in Int
          BY <3>2, <5>2, <5>5, <5>6
        <5> HIDE DEF r
        <5> QED BY <3>3, <5>4, <5>7
      <4> QED BY <4>1, <4>2
    <3> QED BY <3>4
  <2> QED BY <2>2, <2>3
<1> HIDE DEF P
<1>2. SUBSET S \subseteq P
  BY <1>1, SubsetInduction
<1> QED BY <1>2 DEF P

-----------------------------------------------------------------------------
(* the calculator: rows times columns *)

LEMMA SigmaUpto ==
  ASSUME NEW n \in Nat, NEW G, Summands(G, 1 .. n + 1)
  PROVE  /\ Sigma(G, 1 .. n) \in Int
         /\ Sigma(G, 1 .. n + 1) = Sigma(G, 1 .. n) + G[n + 1]
<1>1. /\ IsFiniteSet(1 .. n + 1) /\ n + 1 \in 1 .. n + 1
      /\ (1 .. n + 1) \ {n + 1} = 1 .. n /\ 1 .. n \in SUBSET (1 .. n + 1)
  <2>1. IsFiniteSet(1 .. n + 1)
    BY FS_Interval
  <2>2. (1 .. n + 1) \ {n + 1} = 1 .. n
    OBVIOUS
  <2>3. n + 1 \in 1 .. n + 1 /\ 1 .. n \in SUBSET (1 .. n + 1)
    OBVIOUS
  <2> QED BY <2>1, <2>2, <2>3
<1>2. Sigma(G, 1 .. n) \in Int
  BY <1>1, SigmaTyped
<1>3. Sigma(G, 1 .. n + 1) = G[n + 1] + Sigma(G, 1 .. n)
  BY <1>1, SigmaSplits
<1>4. G[n + 1] \in Int
  BY <1>1 DEF Summands
<1> DEFINE p == Sigma(G, 1 .. n)
           q == G[n + 1]
<1> HIDE DEF p, q
<1>5. p \in Int /\ q \in Int /\ Sigma(G, 1 .. n + 1) = q + p
  BY <1>2, <1>3, <1>4 DEF p, q
<1>6. q + p = p + q
  BY <1>5
<1> QED BY <1>2, <1>5, <1>6 DEF p, q

LEMMA SigmaNone == ASSUME NEW G PROVE Sigma(G, 1 .. 0) = 0
<1>1. IsFiniteSet({}) /\ 1 .. 0 = {}
  BY FS_EmptySet
<1> QED BY <1>1, SigmaStep

\* The first n elements of u and v, multiplied and summed.
Dot(u, v, n) == Sigma([k \in 1 .. n |-> u[k] * v[k]], 1 .. n)
Integers(u, n) == \A k \in 1 .. n : u[k] \in Int

LEMMA DotNone == ASSUME NEW u, NEW v PROVE Dot(u, v, 0) = 0
BY SigmaNone DEF Dot

LEMMA DotStep ==
  ASSUME NEW n \in Nat, NEW u, NEW v, Integers(u, n + 1), Integers(v, n + 1)
  PROVE  /\ Dot(u, v, n) \in Int
         /\ Dot(u, v, n + 1) = Dot(u, v, n) + u[n + 1] * v[n + 1]
<1> DEFINE G == [k \in 1 .. n + 1 |-> u[k] * v[k]]
           H == [k \in 1 .. n |-> u[k] * v[k]]
<1>1. \A k \in 1 .. n + 1 : u[k] \in Int /\ v[k] \in Int
  BY DEF Integers
<1>2. \A x \in Int, y \in Int : x * y \in Int
  OBVIOUS
<1>3. \A k \in 1 .. n + 1 : G[k] \in Int
  BY <1>1, <1>2
<1>4. /\ IsFiniteSet(1 .. n) /\ 1 .. n \subseteq 1 .. n + 1 /\ n + 1 \in 1 .. n + 1
  BY FS_Interval
<1>5. \A k \in 1 .. n : G[k] = H[k]
  BY <1>4
<1>6. G[n + 1] = u[n + 1] * v[n + 1]
  BY <1>4
<1> HIDE DEF G, H
<1>7. Sigma(G, 1 .. n) = Sigma(H, 1 .. n)
  <2>1. Alike(G, H, 1 .. n)
    BY <1>5 DEF Alike
  <2> QED BY <1>4, <2>1, SigmaSame
<1>8. Sigma(G, 1 .. n) \in Int /\ Sigma(G, 1 .. n + 1) = Sigma(G, 1 .. n) + G[n + 1]
  BY <1>3, SigmaUpto DEF Summands
<1>9. Dot(u, v, n) = Sigma(H, 1 .. n) /\ Dot(u, v, n + 1) = Sigma(G, 1 .. n + 1)
  BY DEF Dot, G, H
<1> QED BY <1>6, <1>7, <1>8, <1>9

\* It is an integer.
LEMMA DotTyped ==
  ASSUME NEW n \in Nat, NEW u, NEW v, Integers(u, n), Integers(v, n)
  PROVE  Dot(u, v, n) \in Int
<1>1. CASE n = 0
  BY <1>1, DotNone
<1>2. CASE n # 0
  <2>1. PICK m \in Nat : n = m + 1
    <3>1. n - 1 \in Nat /\ n = (n - 1) + 1
      BY <1>2
    <3> QED BY <3>1
  <2>2. Dot(u, v, m) \in Int /\ Dot(u, v, n) = Dot(u, v, m) + u[n] * v[n]
    BY <2>1, DotStep
  <2>3. u[n] \in Int /\ v[n] \in Int
    BY <1>2 DEF Integers
  <2>4. u[n] * v[n] \in Int
    BY <2>3
  <2> QED BY <2>2, <2>4
<1> QED BY <1>1, <1>2

\* Only the first n elements count.
LEMMA DotSame ==
  ASSUME NEW n \in Nat, NEW u, NEW v, NEW x, NEW y, Alike(u, x, 1 .. n), Alike(v, y, 1 .. n)
  PROVE  Dot(u, v, n) = Dot(x, y, n)
<1> DEFINE G == [k \in 1 .. n |-> u[k] * v[k]]
           H == [k \in 1 .. n |-> x[k] * y[k]]
<1>1. \A k \in 1 .. n : u[k] * v[k] = x[k] * y[k]
  BY DEF Alike
<1>2. G = H
  BY <1>1
<1> QED BY <1>2 DEF Dot

\* A row that is the sum of one and a multiple of another.
LEMMA DotLinear ==
  ASSUME NEW n \in Nat, NEW p, NEW q, NEW r, NEW c, NEW x \in Int,
         Integers(p, n), Integers(q, n), Integers(c, n),
         \A k \in 1 .. n : r[k] = p[k] + x * q[k]
  PROVE  Dot(r, c, n) = Dot(p, c, n) + x * Dot(q, c, n)
<1> DEFINE N == {m \in Nat : m <= n => Dot(r, c, m) = Dot(p, c, m) + x * Dot(q, c, m)}
<1>1. 0 \in N
  <2>1. Dot(r, c, 0) = 0 /\ Dot(p, c, 0) = 0 /\ Dot(q, c, 0) = 0
    BY DotNone
  <2> QED BY <2>1
<1>2. ASSUME NEW m \in Nat, m \in N PROVE m + 1 \in N
  <2> SUFFICES ASSUME m + 1 <= n PROVE Dot(r, c, m + 1) = Dot(p, c, m + 1) + x * Dot(q, c, m + 1)
    OBVIOUS
  <2>1. 1 .. m + 1 \subseteq 1 .. n /\ m + 1 \in 1 .. n
    OBVIOUS
  <2>2. \A k \in 1 .. n : p[k] \in Int /\ q[k] \in Int /\ c[k] \in Int /\ r[k] \in Int
    BY DEF Integers
  <2>3. Integers(p, m + 1) /\ Integers(q, m + 1) /\ Integers(c, m + 1) /\ Integers(r, m + 1)
    BY <2>1, <2>2 DEF Integers
  <2> DEFINE dr == Dot(r, c, m)
             dp == Dot(p, c, m)
             dq == Dot(q, c, m)
             pk == p[m + 1]
             qk == q[m + 1]
             ck == c[m + 1]
  <2>4. /\ dr \in Int /\ Dot(r, c, m + 1) = dr + r[m + 1] * ck
        /\ dp \in Int /\ Dot(p, c, m + 1) = dp + pk * ck
        /\ dq \in Int /\ Dot(q, c, m + 1) = dq + qk * ck
    BY <2>3, DotStep
  <2>5. pk \in Int /\ qk \in Int /\ ck \in Int /\ r[m + 1] = pk + x * qk
    BY <2>1, <2>2
  <2>6. dr = dp + x * dq
    BY <1>2, <2>1
  <2> HIDE DEF dr, dp, dq, pk, qk, ck
  <2>7. (dp + x * dq) + (pk + x * qk) * ck = (dp + pk * ck) + x * (dq + qk * ck)
    <3>1. (pk + x * qk) * ck = pk * ck + x * (qk * ck)
      BY <2>5
    <3>2. x * (dq + qk * ck) = x * dq + x * (qk * ck)
      BY <2>4, <2>5
    <3>3. pk * ck \in Int /\ x * (qk * ck) \in Int /\ x * dq \in Int
      BY <2>4, <2>5
    <3> QED BY <2>4, <3>1, <3>2, <3>3
  <2> QED BY <2>4, <2>5, <2>6, <2>7
<1> HIDE DEF N
<1>3. Nat \subseteq N
  BY <1>1, <1>2, SetInduction
<1> QED BY <1>3 DEF N

\* A column of b, what the rows of b give with v, and u with its columns.
Column(b, j, n) == [k \in 1 .. n |-> b[k][j]]
Dots(b, v, n, m) == [k \in 1 .. n |-> Dot(b[k], v, m)]
ColumnDots(u, b, n, m) == [l \in 1 .. m |-> Dot(u, Column(b, l, n), n)]

LEMMA DotOfNone ==
  ASSUME NEW m \in Nat, NEW z, NEW v, Integers(v, m), \A l \in 1 .. m : z[l] = 0
  PROVE  Dot(z, v, m) = 0
<1>1. Integers(z, m) /\ \A l \in 1 .. m : z[l] = z[l] + 1 * z[l]
  BY DEF Integers
<1> DEFINE d == Dot(z, v, m)
<1>2. d \in Int
  BY <1>1, DotTyped
<1>3. d = d + 1 * d
  BY <1>1, DotLinear
<1> HIDE DEF d
<1>4. d = 0
  BY <1>2, <1>3
<1> QED BY <1>4 DEF d

\* A double sum may be taken in either order.
LEMMA DotSwap ==
  ASSUME NEW n \in Nat, NEW m \in Nat, NEW u, NEW v, Integers(u, n), Integers(v, m),
         NEW b, \A k \in 1 .. n : Integers(b[k], m)
  PROVE  Dot(u, Dots(b, v, n, m), n) = Dot(ColumnDots(u, b, n, m), v, m)
<1> DEFINE R(t) == [l \in 1 .. m |-> Dot(u, Column(b, l, n), t)]
           w == Dots(b, v, n, m)
           N == {t \in Nat : t <= n => Dot(u, w, t) = Dot(R(t), v, m)}
<1>1. 0 \in N
  <2>1. \A l \in 1 .. m : R(0)[l] = 0
    BY DotNone
  <2> HIDE DEF R
  <2>2. Dot(R(0), v, m) = 0 /\ Dot(u, w, 0) = 0
    BY <2>1, DotOfNone, DotNone
  <2> QED BY <2>2
<1>2. ASSUME NEW t \in Nat, t \in N PROVE t + 1 \in N
  <2> SUFFICES ASSUME t + 1 <= n PROVE Dot(u, w, t + 1) = Dot(R(t + 1), v, m)
    OBVIOUS
  <2>1. t + 1 \in 1 .. n /\ 1 .. t + 1 \subseteq 1 .. n /\ 1 .. t \subseteq 1 .. n
    OBVIOUS
  <2>2. Integers(u, t + 1) /\ Integers(u, t) /\ u[t + 1] \in Int
    BY <2>1 DEF Integers
  <2>3. \A k \in 1 .. n : w[k] = Dot(b[k], v, m) /\ w[k] \in Int
    <3> TAKE k \in 1 .. n
    <3>1. w[k] = Dot(b[k], v, m)
      BY DEF Dots
    <3> QED BY <3>1, DotTyped
  <2>4. Integers(w, t + 1)
    BY <2>1, <2>3 DEF Integers
  <2>5. Dot(u, w, t + 1) = Dot(u, w, t) + u[t + 1] * Dot(b[t + 1], v, m)
    <3> HIDE DEF w
    <3>1. Dot(u, w, t + 1) = Dot(u, w, t) + u[t + 1] * w[t + 1]
      BY <2>2, <2>4, DotStep
    <3> QED BY <2>1, <2>3, <3>1
  <2>6. ASSUME NEW l \in 1 .. m
        PROVE  R(t)[l] \in Int /\ R(t + 1)[l] = R(t)[l] + u[t + 1] * b[t + 1][l]
    <3> DEFINE col == Column(b, l, n)
    <3>1. \A k \in 1 .. n : col[k] = b[k][l] /\ col[k] \in Int
      BY DEF Column, Integers
    <3>2. Integers(col, t + 1)
      BY <2>1, <3>1 DEF Integers
    <3>3. R(t)[l] = Dot(u, col, t) /\ R(t + 1)[l] = Dot(u, col, t + 1)
      OBVIOUS
    <3> HIDE DEF R, col
    <3>4. Dot(u, col, t) \in Int /\ Dot(u, col, t + 1) = Dot(u, col, t) + u[t + 1] * col[t + 1]
      BY <2>2, <3>2, DotStep
    <3> QED BY <2>1, <3>1, <3>3, <3>4
  <2> DEFINE p == R(t)
             q == b[t + 1]
             r == R(t + 1)
  <2>7. /\ Integers(p, m) /\ Integers(q, m)
        /\ \A l \in 1 .. m : r[l] = p[l] + u[t + 1] * q[l]
    BY <2>1, <2>6 DEF Integers
  <2>8. Dot(u, w, t) = Dot(p, v, m)
    BY <1>2, <2>1
  <2> HIDE DEF p, q, r, R
  <2>9. Dot(r, v, m) = Dot(p, v, m) + u[t + 1] * Dot(q, v, m)
    BY <2>2, <2>7, DotLinear
  <2> QED BY <2>5, <2>8, <2>9 DEF q, r
<1> HIDE DEF N
<1>3. Nat \subseteq N
  BY <1>1, <1>2, SetInduction
<1> QED BY <1>3 DEF N, R, ColumnDots

-----------------------------------------------------------------------------
(* the calculator: matrices *)

Matrix(r, c) == [1 .. r -> [1 .. c -> Int]]
Sizes == Nat \ {0}

\* Rows and Cols give the sizes back.
LEMMA MatrixSizes ==
  ASSUME NEW r \in Sizes, NEW c \in Nat, NEW a \in Matrix(r, c)
  PROVE  /\ Rows(a) = r /\ Cols(a) = c /\ a # NoMatrix
         /\ a \in Seq(Seq(Int))
<1>1. \A i \in 1 .. r : a[i] \in Seq(Int) /\ Len(a[i]) = c
  BY SeqDef DEF Matrix, Sizes
<1>2. a \in [1 .. r -> Seq(Int)]
  BY <1>1 DEF Matrix
<1>3. a \in Seq(Seq(Int)) /\ Len(a) = r
  BY <1>2, SeqDef DEF Sizes
<1>4. 1 \in 1 .. r /\ r # 0
  BY DEF Sizes
<1>5. a # <<>>
  BY <1>3, <1>4, EmptySeq
<1> QED BY <1>1, <1>3, <1>4, <1>5 DEF Rows, Cols, NoMatrix

Products(a, b, r, n, c) == [i \in 1 .. r |-> [j \in 1 .. c |-> Dot(a[i], Column(b, j, n), n)]]
Element(a, b, i, j, n) == MapThenSumSet(LAMBDA k : a[i][k] * b[k][j], 1 .. n)

\* An element of the product, which is a sum over a set in MatrixCalc.
LEMMA ElementIs ==
  ASSUME NEW a, NEW b, NEW i, NEW j, NEW n \in Nat
  PROVE  Element(a, b, i, j, n) = Dot(a[i], Column(b, j, n), n)
<1> DEFINE G == [k \in 1 .. n |-> a[i][k] * Column(b, j, n)[k]]
           Part(h, s) == IF s = {} THEN 0
                            ELSE a[i][CHOOSE x \in s : TRUE] * b[CHOOSE x \in s : TRUE][j] + h[s \ {CHOOSE x \in s : TRUE}]
<1>1. IsFiniteSet(1 .. n)
  BY FS_Interval
<1>2. \A k \in 1 .. n : G[k] = a[i][k] * b[k][j]
  BY DEF Column
<1> HIDE DEF G
<1>3. ASSUME NEW h, NEW s \in SUBSET (1 .. n) PROVE Part(h, s) = SumStep(G, h, s)
  <2>1. s # {} => (CHOOSE x \in s : TRUE) \in 1 .. n
    OBVIOUS
  <2> QED BY <1>2, <2>1 DEF SumStep, Chosen
<1>4. \A h : [s \in SUBSET (1 .. n) |-> Part(h, s)] = [s \in SUBSET (1 .. n) |-> SumStep(G, h, s)]
  BY <1>3
<1>5. PICK h : Sums(G, 1 .. n, h)
  BY <1>1, SumsExist
<1>6. h = [s \in SUBSET (1 .. n) |-> Part(h, s)]
  BY <1>4, <1>5 DEF Sums
<1>7. \E f : /\ f = [s \in SUBSET (1 .. n) |-> Part(f, s)]
             /\ Element(a, b, i, j, n) = f[1 .. n]
  BY <1>6 DEF Element, MapThenSumSet, MapThenFoldSet
<1>8. PICK f : /\ f = [s \in SUBSET (1 .. n) |-> Part(f, s)]
               /\ Element(a, b, i, j, n) = f[1 .. n]
  BY <1>7
<1>9. Sums(G, 1 .. n, f)
  BY <1>4, <1>8 DEF Sums
<1>10. Sigma(G, 1 .. n) = f[1 .. n]
  BY <1>1, <1>9, SigmaIs
<1> QED BY <1>8, <1>10 DEF Dot, G

\* The product, by its elements.
LEMMA MultiplyIs ==
  ASSUME NEW r \in Sizes, NEW n \in Sizes, NEW c \in Nat, NEW a \in Matrix(r, n), NEW b \in Matrix(n, c)
  PROVE  /\ MatrixMultiply(a, b) \in Matrix(r, c)
         /\ MatrixMultiply(a, b) = Products(a, b, r, n, c)
<1>1. Rows(a) = r /\ Cols(a) = n /\ Cols(b) = c /\ n \in Nat
  BY MatrixSizes DEF Sizes
<1>2. MatrixMultiply(a, b) = [i \in 1 .. r |-> [j \in 1 .. c |-> Element(a, b, i, j, n)]]
  BY <1>1 DEF MatrixMultiply, Element
<1>3. \A i \in 1 .. r, j \in 1 .. c :
         Element(a, b, i, j, n) = Dot(a[i], Column(b, j, n), n)
  BY <1>1, ElementIs
<1>4. MatrixMultiply(a, b) = Products(a, b, r, n, c)
  BY <1>2, <1>3 DEF Products
<1>5. ASSUME NEW i \in 1 .. r, NEW j \in 1 .. c PROVE Dot(a[i], Column(b, j, n), n) \in Int
  <2>1. Integers(a[i], n) /\ Integers(Column(b, j, n), n)
    BY DEF Integers, Column, Matrix
  <2> QED BY <1>1, <2>1, DotTyped
<1> QED BY <1>4, <1>5 DEF Matrix, Products

\* The order in which factors are multiplied does not matter.
LEMMA MultiplyAssociates ==
  ASSUME NEW r \in Sizes, NEW n \in Sizes, NEW m \in Sizes, NEW c \in Nat,
         NEW x \in Matrix(r, n), NEW y \in Matrix(n, m), NEW z \in Matrix(m, c)
  PROVE  MatrixMultiply(MatrixMultiply(x, y), z) = MatrixMultiply(x, MatrixMultiply(y, z))
<1> DEFINE xy == MatrixMultiply(x, y)
           yz == MatrixMultiply(y, z)
<1>0. m \in Nat /\ n \in Nat
  BY DEF Sizes
<1>1. xy \in Matrix(r, m) /\ xy = Products(x, y, r, n, m)
  BY <1>0, MultiplyIs
<1>2. yz \in Matrix(n, c) /\ yz = Products(y, z, n, m, c)
  BY MultiplyIs
<1> HIDE DEF xy, yz
<1>3. MatrixMultiply(xy, z) = Products(xy, z, r, m, c)
  BY <1>1, MultiplyIs
<1>4. MatrixMultiply(x, yz) = Products(x, yz, r, n, c)
  BY <1>2, MultiplyIs
<1>5. ASSUME NEW i \in 1 .. r, NEW j \in 1 .. c
      PROVE  Dot(xy[i], Column(z, j, m), m) = Dot(x[i], Column(yz, j, n), n)
  <2> DEFINE v == Column(z, j, m)
  <2>1. Integers(x[i], n) /\ Integers(v, m) /\ \A k \in 1 .. n : Integers(y[k], m)
    BY DEF Integers, Column, Matrix
  <2>2. Column(yz, j, n) = Dots(y, v, n, m)
    <3>1. \A k \in 1 .. n : yz[k][j] = Dot(y[k], v, m)
      BY <1>2 DEF Products
    <3> QED BY <3>1 DEF Column, Dots
  <2>3. xy[i] = ColumnDots(x[i], y, n, m)
    BY <1>1 DEF Products, ColumnDots
  <2> HIDE DEF v
  <2> DEFINE u == x[i]
  <2> HIDE DEF u
  <2>4. Dot(u, Dots(y, v, n, m), n) = Dot(ColumnDots(u, y, n, m), v, m)
    BY <1>0, <2>1, DotSwap DEF u
  <2> QED BY <2>2, <2>3, <2>4 DEF u, v
<1> QED BY <1>3, <1>4, <1>5 DEF xy, yz, Products

-----------------------------------------------------------------------------
(* the calculator: products of sequences of matrices *)

MatrixSequences == Seq(Seq(Seq(Int)))
ProductStep(h, fs) == IF Len(fs) <= 1 THEN fs[1] ELSE MatrixMultiply(fs[1], h[Tail(fs)])
ShortOnes(n) == {fs \in MatrixSequences : Len(fs) <= n}
ShortProducts(n, h) == h = [fs \in ShortOnes(n) |-> ProductStep(h, fs)]

LEMMA TailShorter ==
  ASSUME NEW fs \in MatrixSequences, ~(Len(fs) <= 1)
  PROVE  Len(fs) \in Nat /\ Tail(fs) \in MatrixSequences /\ Len(Tail(fs)) = Len(fs) - 1
<1>1. Len(fs) \in Nat /\ fs # <<>>
  BY LenProperties, EmptySeq DEF MatrixSequences
<1> QED BY <1>1, HeadTailProperties DEF MatrixSequences

\* There is such a function, and two of them agree where both say something.
LEMMA ShortProductsExist == \A n \in Nat : \E h : ShortProducts(n, h)
<1> DEFINE N == {n \in Nat : \E h : ShortProducts(n, h)}
<1>1. 0 \in N
  <2> DEFINE h == [fs \in ShortOnes(0) |-> fs[1]]
  <2>1. \A fs \in ShortOnes(0) : ProductStep(h, fs) = fs[1]
    BY LenProperties DEF ShortOnes, ProductStep, MatrixSequences
  <2>2. h = [fs \in ShortOnes(0) |-> ProductStep(h, fs)]
    BY <2>1
  <2> HIDE DEF h
  <2> QED BY <2>2 DEF ShortProducts
<1>2. ASSUME NEW n \in Nat, n \in N PROVE n + 1 \in N
  <2>1. PICK h : ShortProducts(n, h)
    BY <1>2
  <2> DEFINE f == [fs \in ShortOnes(n + 1) |-> ProductStep(h, fs)]
  <2>2. ASSUME NEW fs \in ShortOnes(n + 1) PROVE ProductStep(h, fs) = ProductStep(f, fs)
    <3>1. CASE Len(fs) <= 1
      BY <3>1 DEF ProductStep
    <3>2. CASE ~(Len(fs) <= 1)
      <4>1. Len(fs) \in Nat /\ Tail(fs) \in MatrixSequences /\ Len(Tail(fs)) = Len(fs) - 1 /\ Len(fs) <= n + 1
        BY <3>2, TailShorter DEF ShortOnes
      <4>2. Tail(fs) \in ShortOnes(n) /\ Tail(fs) \in ShortOnes(n + 1)
        BY <4>1 DEF ShortOnes
      <4>3. f[Tail(fs)] = h[Tail(fs)]
        BY <2>1, <4>2 DEF ShortProducts
      <4> QED BY <3>2, <4>3 DEF ProductStep
    <3> QED BY <3>1, <3>2
  <2> DEFINE g == [fs \in ShortOnes(n + 1) |-> ProductStep(f, fs)]
  <2>3. f = g
    BY <2>2
  <2>4. f = [fs \in ShortOnes(n + 1) |-> ProductStep(f, fs)]
    BY <2>3
  <2> HIDE DEF f
  <2> QED BY <2>4 DEF ShortProducts
<1> HIDE DEF N
<1>3. Nat \subseteq N
  BY <1>1, <1>2, SetInduction
<1> QED BY <1>3 DEF N

LEMMA ShortProductsAgree ==
  ASSUME NEW n \in Nat, NEW m \in Nat, NEW g, NEW h, ShortProducts(n, g), ShortProducts(m, h)
  PROVE  \A fs \in MatrixSequences : Len(fs) <= n /\ Len(fs) <= m => g[fs] = h[fs]
<1> DEFINE N == {k \in Nat : \A fs \in MatrixSequences : Len(fs) <= k /\ k <= n /\ k <= m => g[fs] = h[fs]}
<1>0. ASSUME NEW fs \in MatrixSequences, Len(fs) <= n, Len(fs) <= m
      PROVE  g[fs] = ProductStep(g, fs) /\ h[fs] = ProductStep(h, fs)
  BY <1>0 DEF ShortProducts, ShortOnes
<1>1. 0 \in N
  <2> SUFFICES ASSUME NEW fs \in MatrixSequences, Len(fs) <= 0 PROVE g[fs] = h[fs]
    OBVIOUS
  <2>1. Len(fs) \in Nat
    BY LenProperties DEF MatrixSequences
  <2>2. Len(fs) <= n /\ Len(fs) <= m /\ Len(fs) <= 1
    BY <2>1
  <2> QED BY <1>0, <2>2 DEF ProductStep
<1>2. ASSUME NEW k \in Nat, k \in N PROVE k + 1 \in N
  <2> SUFFICES ASSUME NEW fs \in MatrixSequences, Len(fs) <= k + 1, k + 1 <= n, k + 1 <= m PROVE g[fs] = h[fs]
    OBVIOUS
  <2>1. Len(fs) \in Nat
    BY LenProperties DEF MatrixSequences
  <2>2. g[fs] = ProductStep(g, fs) /\ h[fs] = ProductStep(h, fs)
    BY <1>0, <2>1
  <2>3. CASE Len(fs) <= 1
    BY <2>2, <2>3 DEF ProductStep
  <2>4. CASE ~(Len(fs) <= 1)
    <3>1. Tail(fs) \in MatrixSequences /\ Len(Tail(fs)) <= k /\ k <= n /\ k <= m
      BY <2>1, <2>4, TailShorter
    <3>2. g[Tail(fs)] = h[Tail(fs)]
      BY <1>2, <3>1
    <3> QED BY <2>2, <2>4, <3>2 DEF ProductStep
  <2> QED BY <2>3, <2>4
<1> HIDE DEF N
<1>3. Nat \subseteq N
  BY <1>1, <1>2, SetInduction
<1> TAKE fs \in MatrixSequences
<1>4. Len(fs) \in Nat
  BY LenProperties DEF MatrixSequences
<1>5. Len(fs) \in N
  BY <1>3, <1>4
<1> QED BY <1>4, <1>5 DEF N

\* ProductOf is the function its definition asks for.
LEMMA ProductIs == \A fs \in MatrixSequences : ProductOf[fs] = ProductStep(ProductOf, fs)
<1> DEFINE H(n) == CHOOSE h : ShortProducts(n, h)
           F == [fs \in MatrixSequences |-> H(Len(fs))[fs]]
<1>1. \A n \in Nat : ShortProducts(n, H(n))
  BY ShortProductsExist
<1> HIDE DEF H
<1>2. ASSUME NEW fs \in MatrixSequences PROVE F[fs] = ProductStep(F, fs)
  <2> DEFINE n == Len(fs)
  <2>1. n \in Nat
    BY LenProperties DEF MatrixSequences
  <2>2. fs \in ShortOnes(n) /\ ShortProducts(n, H(n))
    BY <1>1, <2>1 DEF ShortOnes
  <2>3. F[fs] = H(n)[fs]
    OBVIOUS
  <2>4. H(n)[fs] = ProductStep(H(n), fs)
    BY <2>2 DEF ShortProducts
  <2>5. CASE Len(fs) <= 1
    BY <2>3, <2>4, <2>5 DEF ProductStep
  <2>6. CASE ~(Len(fs) <= 1)
    <3>1. Tail(fs) \in MatrixSequences /\ Len(Tail(fs)) = n - 1 /\ n - 1 \in Nat
      BY <2>1, <2>6, TailShorter
    <3> DEFINE m == n - 1
    <3>2. m \in Nat /\ Len(Tail(fs)) <= m /\ Len(Tail(fs)) <= n /\ ShortProducts(m, H(m))
      BY <1>1, <2>1, <3>1
    <3>3. F[Tail(fs)] = H(m)[Tail(fs)]
      BY <3>1
    <3> HIDE DEF m, n, F
    <3>4. H(m)[Tail(fs)] = H(n)[Tail(fs)]
      <4> DEFINE g == H(m)
                 h == H(n)
                 t == Tail(fs)
      <4>1. ShortProducts(m, g) /\ ShortProducts(n, h) /\ t \in MatrixSequences /\ Len(t) <= m /\ Len(t) <= n
        BY <2>2, <3>1, <3>2
      <4> HIDE DEF g, h, t
      <4>2. g[t] = h[t]
        BY <2>1, <3>2, <4>1, ShortProductsAgree
      <4> QED BY <4>2 DEF g, h, t
    <3> QED BY <2>3, <2>4, <2>6, <3>3, <3>4 DEF ProductStep
  <2> QED BY <2>5, <2>6
<1> DEFINE E == [fs \in MatrixSequences |-> ProductStep(F, fs)]
<1>3. F = E
  BY <1>2
<1>4. F = [fs \in MatrixSequences |-> ProductStep(F, fs)]
  BY <1>3
<1> HIDE DEF F
<1>5. ProductOf = [fs \in MatrixSequences |-> ProductStep(ProductOf, fs)]
  BY <1>4 DEF ProductOf, ProductStep, MatrixSequences
<1> QED BY <1>5

AnyMatrix == UNION {Matrix(r, c) : r \in Sizes, c \in Nat}

\* The same of a matrix of any sizes.
LEMMA AnyMatrixSizes ==
  ASSUME NEW a \in AnyMatrix
  PROVE  /\ Rows(a) \in Sizes /\ Cols(a) \in Nat /\ a \in Matrix(Rows(a), Cols(a))
         /\ a # NoMatrix /\ a \in Seq(Seq(Int))
<1>1. PICK r \in Sizes, c \in Nat : a \in Matrix(r, c)
  BY DEF AnyMatrix
<1> QED BY <1>1, MatrixSizes

LEMMA MatrixIsAny ==
  ASSUME NEW r \in Sizes, NEW c \in Nat, NEW a \in Matrix(r, c)
  PROVE  a \in AnyMatrix
BY DEF AnyMatrix

\* a has the rows of x and the columns of y.
Between(a, x, y) == a \in AnyMatrix /\ Rows(a) = Rows(x) /\ Cols(a) = Cols(y)

\* A product has the rows of the first and the columns of the last.
LEMMA MultiplyBetween ==
  ASSUME NEW a \in AnyMatrix, NEW b \in AnyMatrix, Cols(a) = Rows(b)
  PROVE  Between(MatrixMultiply(a, b), a, b)
<1>1. /\ Rows(a) \in Sizes /\ Cols(a) \in Sizes /\ Cols(b) \in Nat
      /\ a \in Matrix(Rows(a), Cols(a)) /\ b \in Matrix(Cols(a), Cols(b))
  BY AnyMatrixSizes
<1>2. MatrixMultiply(a, b) \in Matrix(Rows(a), Cols(b))
  BY <1>1, MultiplyIs
<1> QED BY <1>1, <1>2, MatrixSizes, MatrixIsAny DEF Between

\* The product is associative, as long as the sizes fit.
LEMMA AnyAssociates ==
  ASSUME NEW a \in AnyMatrix, NEW b \in AnyMatrix, NEW c \in AnyMatrix, Cols(a) = Rows(b), Cols(b) = Rows(c)
  PROVE  MatrixMultiply(MatrixMultiply(a, b), c) = MatrixMultiply(a, MatrixMultiply(b, c))
<1>1. /\ Rows(a) \in Sizes /\ Cols(a) \in Sizes /\ Cols(b) \in Sizes /\ Cols(c) \in Nat
      /\ a \in Matrix(Rows(a), Cols(a)) /\ b \in Matrix(Cols(a), Cols(b)) /\ c \in Matrix(Cols(b), Cols(c))
  BY AnyMatrixSizes
<1> QED BY <1>1, MultiplyAssociates

\* Factors of which each fits the next.
Fitting(fs) ==
  /\ fs \in Seq(AnyMatrix) /\ fs # <<>>
  /\ \A k \in 1 .. Len(fs) - 1 : Cols(fs[k]) = Rows(fs[k + 1])

LEMMA FittingSequence ==
  ASSUME NEW fs \in Seq(AnyMatrix)
  PROVE  fs \in MatrixSequences
<1>1. AnyMatrix \subseteq Seq(Seq(Int))
  BY AnyMatrixSizes
<1> HIDE DEF AnyMatrix
<1>2. Len(fs) \in Nat /\ fs \in [1 .. Len(fs) -> AnyMatrix]
  BY LenProperties
<1>3. fs \in [1 .. Len(fs) -> Seq(Seq(Int))]
  BY <1>1, <1>2
<1> QED BY <1>2, <1>3, SeqDef DEF MatrixSequences

\* The first factor, and the rest.
LEMMA FittingTail ==
  ASSUME NEW fs, Fitting(fs), Len(fs) # 1
  PROVE  /\ Len(fs) \in Nat /\ Len(fs) > 1 /\ Len(Tail(fs)) = Len(fs) - 1 /\ fs[1] \in AnyMatrix
         /\ Fitting(Tail(fs)) /\ Tail(fs)[1] = fs[2] /\ Tail(fs)[Len(Tail(fs))] = fs[Len(fs)]
         /\ Cols(fs[1]) = Rows(fs[2])
         /\ ProductOf[fs] = MatrixMultiply(fs[1], ProductOf[Tail(fs)])
<1>1. fs \in Seq(AnyMatrix) /\ fs # <<>>
  BY DEF Fitting
<1>2. Len(fs) \in Nat \ {0} /\ Len(fs) > 1
  <2>1. Len(fs) \in Nat \ {0}
    BY <1>1, EmptySeq
  <2> DEFINE n == Len(fs)
  <2>2. n \in Nat \ {0} /\ n # 1
    BY <2>1
  <2> HIDE DEF n
  <2>3. n > 1
    BY <2>2
  <2> QED BY <2>1, <2>3 DEF n
<1> DEFINE t == Tail(fs)
<1>3. t \in Seq(AnyMatrix) /\ Len(t) = Len(fs) - 1 /\ \A i \in 1 .. Len(t) : t[i] = fs[i + 1]
  BY <1>1, HeadTailProperties
<1>4. t # <<>>
  BY <1>2, <1>3, EmptySeq
<1> HIDE DEF t
<1>5. t[1] = fs[2] /\ t[Len(t)] = fs[Len(fs)]
  BY <1>2, <1>3
<1>6. ASSUME NEW k \in 1 .. Len(t) - 1 PROVE Cols(t[k]) = Rows(t[k + 1])
  <2>1. k \in 1 .. Len(t) /\ k + 1 \in 1 .. Len(t) /\ k + 1 \in 1 .. Len(fs) - 1
    BY <1>2, <1>3
  <2>2. Cols(fs[k + 1]) = Rows(fs[(k + 1) + 1])
    BY <2>1 DEF Fitting
  <2> QED BY <1>3, <2>1, <2>2
<1>7. 1 \in 1 .. Len(fs) - 1 /\ 1 \in 1 .. Len(fs)
  BY <1>2
<1>8. fs[1] \in AnyMatrix /\ Cols(fs[1]) = Rows(fs[2])
  BY <1>1, <1>7, ElementOfSeq DEF Fitting
<1>9. ProductOf[fs] = MatrixMultiply(fs[1], ProductOf[t])
  BY <1>1, <1>2, FittingSequence, ProductIs DEF ProductStep, t
<1> QED BY <1>2, <1>3, <1>4, <1>5, <1>6, <1>8, <1>9 DEF Fitting, t

\* A single factor.
LEMMA ProductOfOne ==
  ASSUME NEW fs, Fitting(fs), Len(fs) = 1
  PROVE  ProductOf[fs] = fs[1] /\ fs[1] \in AnyMatrix
<1>1. fs \in Seq(AnyMatrix) /\ fs \in MatrixSequences
  BY FittingSequence DEF Fitting
<1>2. ProductOf[fs] = ProductStep(ProductOf, fs)
  BY <1>1, ProductIs
<1>3. Len(fs) <= 1 /\ 1 \in 1 .. Len(fs)
  OBVIOUS
<1> QED BY <1>1, <1>2, <1>3, ElementOfSeq DEF ProductStep

\* The sizes of a product of many.
LEMMA ProductBetween == ASSUME NEW fs, Fitting(fs) PROVE Between(ProductOf[fs], fs[1], fs[Len(fs)])
<1> DEFINE N == {n \in Nat : \A gs \in Seq(AnyMatrix) :
                     Len(gs) = n + 1 /\ Fitting(gs) => Between(ProductOf[gs], gs[1], gs[Len(gs)])}
<1>1. 0 \in N
  <2> SUFFICES ASSUME NEW gs \in Seq(AnyMatrix), Len(gs) = 0 + 1, Fitting(gs)
               PROVE  Between(ProductOf[gs], gs[1], gs[Len(gs)])
    OBVIOUS
  <2> QED BY ProductOfOne DEF Between
<1>2. ASSUME NEW n \in Nat, n \in N PROVE n + 1 \in N
  <2> SUFFICES ASSUME NEW gs \in Seq(AnyMatrix), Len(gs) = (n + 1) + 1, Fitting(gs)
               PROVE  Between(ProductOf[gs], gs[1], gs[Len(gs)])
    OBVIOUS
  <2> DEFINE t == Tail(gs)
  <2>1. /\ Len(t) = n + 1 /\ gs[1] \in AnyMatrix
        /\ Fitting(t) /\ t[1] = gs[2] /\ t[Len(t)] = gs[Len(gs)]
        /\ Cols(gs[1]) = Rows(gs[2])
        /\ ProductOf[gs] = MatrixMultiply(gs[1], ProductOf[t])
    BY FittingTail
  <2> HIDE DEF t
  <2>2. Between(ProductOf[t], t[1], t[Len(t)])
    BY <1>2, <2>1 DEF Fitting
  <2>3. Between(ProductOf[gs], gs[1], ProductOf[t])
    BY <2>1, <2>2, MultiplyBetween DEF Between
  <2> QED BY <2>1, <2>2, <2>3 DEF Between
<1> HIDE DEF N
<1>3. Nat \subseteq N
  BY <1>1, <1>2, SetInduction
<1>4. fs \in Seq(AnyMatrix) /\ Len(fs) - 1 \in Nat /\ Len(fs) = (Len(fs) - 1) + 1
  BY EmptySeq DEF Fitting
<1>5. Len(fs) - 1 \in N
  BY <1>3, <1>4
<1> QED BY <1>4, <1>5 DEF N

\* A further factor may be multiplied to the product of the others, as the
\* loop does, which reads them from the left.
LEMMA ProductAppended ==
  ASSUME NEW fs, Fitting(fs), NEW m \in AnyMatrix, Cols(fs[Len(fs)]) = Rows(m)
  PROVE  /\ Fitting(Append(fs, m))
         /\ ProductOf[Append(fs, m)] = MatrixMultiply(ProductOf[fs], m)
<1>1. ASSUME NEW gs, Fitting(gs), Cols(gs[Len(gs)]) = Rows(m)
      PROVE  /\ Fitting(Append(gs, m)) /\ Append(gs, m)[1] = gs[1]
             /\ Len(gs) \in Nat /\ Len(Append(gs, m)) = Len(gs) + 1
  <2> DEFINE a == Append(gs, m)
  <2>1. gs \in Seq(AnyMatrix) /\ Len(gs) \in Nat \ {0}
    BY <1>1, EmptySeq DEF Fitting
  <2>2. /\ a \in Seq(AnyMatrix) /\ a # <<>> /\ Len(a) = Len(gs) + 1
        /\ \A i \in 1 .. Len(gs) : a[i] = gs[i]
        /\ a[Len(gs) + 1] = m
    BY <2>1, AppendProperties
  <2> HIDE DEF a
  <2>3. ASSUME NEW k \in 1 .. Len(a) - 1 PROVE Cols(a[k]) = Rows(a[k + 1])
    <3>1. CASE k = Len(gs)
      BY <1>1, <2>1, <2>2, <3>1
    <3>2. CASE k # Len(gs)
      <4>1. k \in 1 .. Len(gs) - 1 /\ k \in 1 .. Len(gs) /\ k + 1 \in 1 .. Len(gs)
        BY <2>1, <2>2, <3>2
      <4>2. Cols(gs[k]) = Rows(gs[k + 1])
        BY <1>1, <4>1 DEF Fitting
      <4> QED BY <2>2, <4>1, <4>2
    <3> QED BY <3>1, <3>2
  <2>4. 1 \in 1 .. Len(gs)
    BY <2>1
  <2> QED BY <2>1, <2>2, <2>3, <2>4 DEF Fitting, a
<1> DEFINE N == {n \in Nat : \A gs \in Seq(AnyMatrix) :
                     Len(gs) = n + 1 /\ Fitting(gs) /\ Cols(gs[Len(gs)]) = Rows(m)
                     => ProductOf[Append(gs, m)] = MatrixMultiply(ProductOf[gs], m)}
<1>2. ASSUME NEW gs \in Seq(AnyMatrix), Fitting(gs), Cols(gs[Len(gs)]) = Rows(m)
      PROVE  ProductOf[Append(gs, m)] = MatrixMultiply(gs[1], ProductOf[Append(Tail(gs), m)]) \/ Len(gs) = 1
  <2>1. Fitting(Append(gs, m)) /\ Append(gs, m)[1] = gs[1] /\ Len(Append(gs, m)) = Len(gs) + 1 /\ Len(gs) \in Nat
    BY <1>1, <1>2
  <2>2. gs # <<>> /\ Len(gs) # 0
    BY <1>2, EmptySeq DEF Fitting
  <2>3. ProductOf[Append(gs, m)] = MatrixMultiply(Append(gs, m)[1], ProductOf[Tail(Append(gs, m))])
    <3> DEFINE a == Append(gs, m)
    <3>1. Fitting(a) /\ Len(a) # 1
      BY <2>1, <2>2
    <3> HIDE DEF a
    <3>2. ProductOf[a] = MatrixMultiply(a[1], ProductOf[Tail(a)])
      BY <3>1, FittingTail
    <3> QED BY <3>2 DEF a
  <2>4. Tail(Append(gs, m)) = Append(Tail(gs), m)
    BY <2>2, HeadTailAppend
  <2> QED BY <2>1, <2>3, <2>4
<1>3. 0 \in N
  <2> SUFFICES ASSUME NEW gs \in Seq(AnyMatrix), Len(gs) = 0 + 1, Fitting(gs), Cols(gs[Len(gs)]) = Rows(m)
               PROVE  ProductOf[Append(gs, m)] = MatrixMultiply(ProductOf[gs], m)
    OBVIOUS
  <2> DEFINE a == Append(gs, m)
             t == Tail(a)
  <2>0. Len(gs) = 1 /\ Len(a) = Len(gs) + 1
    BY <1>1
  <2>1. Fitting(a) /\ a[1] = gs[1] /\ Len(a) = 2
    BY <1>1, <2>0
  <2> HIDE DEF a
  <2>2. /\ Len(t) = 1 /\ Fitting(t) /\ t[Len(t)] = a[Len(a)]
        /\ ProductOf[a] = MatrixMultiply(a[1], ProductOf[t])
    BY <2>1, FittingTail
  <2>3. a[2] = m
    <3>1. a[Len(gs) + 1] = m
      BY AppendProperties DEF a
    <3> QED BY <2>0, <3>1
  <2> HIDE DEF t
  <2>4. ProductOf[t] = m
    BY <2>1, <2>2, <2>3, ProductOfOne
  <2>5. ProductOf[gs] = gs[1]
    BY <2>0, ProductOfOne
  <2> QED BY <2>1, <2>2, <2>4, <2>5 DEF a
<1>4. ASSUME NEW n \in Nat, n \in N PROVE n + 1 \in N
  <2> SUFFICES ASSUME NEW gs \in Seq(AnyMatrix), Len(gs) = (n + 1) + 1, Fitting(gs), Cols(gs[Len(gs)]) = Rows(m)
               PROVE  ProductOf[Append(gs, m)] = MatrixMultiply(ProductOf[gs], m)
    OBVIOUS
  <2> DEFINE t == Tail(gs)
             p == ProductOf[t]
             e == gs[1]
  <2>0. Len(gs) # 1 /\ Len(gs) - 1 = n + 1
    OBVIOUS
  <2>1. ProductOf[Append(gs, m)] = MatrixMultiply(e, ProductOf[Append(t, m)])
    BY <1>2, <2>0
  <2>2. /\ Len(t) = n + 1 /\ e \in AnyMatrix
        /\ Fitting(t) /\ t[1] = gs[2] /\ t[Len(t)] = gs[Len(gs)]
        /\ Cols(e) = Rows(gs[2])
        /\ ProductOf[gs] = MatrixMultiply(e, p)
    BY <2>0, FittingTail
  <2> HIDE DEF t, e
  <2>3. ProductOf[Append(t, m)] = MatrixMultiply(p, m)
    BY <1>4, <2>2 DEF Fitting
  <2>4. p \in AnyMatrix /\ Cols(e) = Rows(p) /\ Cols(p) = Rows(m)
    BY <2>2, ProductBetween DEF Between
  <2> HIDE DEF p
  <2>5. MatrixMultiply(MatrixMultiply(e, p), m) = MatrixMultiply(e, MatrixMultiply(p, m))
    BY <2>2, <2>4, AnyAssociates
  <2> QED BY <2>1, <2>2, <2>3, <2>5
<1> HIDE DEF N
<1>5. Nat \subseteq N
  BY <1>3, <1>4, SetInduction
<1>6. fs \in Seq(AnyMatrix) /\ Len(fs) - 1 \in Nat /\ Len(fs) = (Len(fs) - 1) + 1
  BY EmptySeq DEF Fitting
<1>7. Len(fs) - 1 \in N
  BY <1>5, <1>6
<1> QED BY <1>1, <1>6, <1>7 DEF N

-----------------------------------------------------------------------------
(* the calculator: the terms of the input *)

\* What MatrixCalc says of terms, of any sequence of them.
Starts(t) == {i \in DOMAIN t : t[i][1] # "*"}
EndOf(t, i) == Min({j \in i .. Len(t) : j = Len(t) \/ j + 1 \in Starts(t)})
FactorsOf(t, i) == [k \in 1 .. EndOf(t, i) - i + 1 |-> t[i + k - 1][2]]
Signed(t, i) == IF t[i][1] = "-" THEN -1 ELSE 1
Added(t, S, r, c) == [i \in S |-> Signed(t, i) * ProductOf[FactorsOf(t, i)][r][c]]
RowsOf(t) == Rows(t[1][2])
ColsOf(t) == Cols(t[EndOf(t, 1)][2])

\* The value of the terms that start in S, and their sizes.
ValueOn(t, S) == [r \in 1 .. RowsOf(t) |-> [c \in 1 .. ColsOf(t) |-> Sigma(Added(t, S, r, c), S)]]
SizedOn(t, S) ==
    \A i \in S : Fitting(FactorsOf(t, i)) /\ Rows(t[i][2]) = RowsOf(t) /\ Cols(t[EndOf(t, i)][2]) = ColsOf(t)

TermType(t) == t \in Seq({"+", "-", "*"} \X Matrices) /\ t # <<>> /\ t[1][1] = "+"

\* A term from place i to place j.
IsTerm(t, i, j) ==
    /\ i \in Starts(t) /\ j \in i .. Len(t) /\ (j = Len(t) \/ j + 1 \in Starts(t))
    /\ \A k \in i + 1 .. j : k \notin Starts(t)

\* The matrices of the input are matrices.
LEMMA MatricesAny == Matrices \subseteq AnyMatrix
<1> SUFFICES ASSUME NEW m \in Matrices PROVE m \in AnyMatrix
  OBVIOUS
<1>1. m \in Seq(Seq(Int)) /\ m # <<>> /\ \A r \in DOMAIN m : Len(m[r]) = Len(m[1])
  BY CalcAssumption
<1> DEFINE n == Len(m)
           c == Len(m[1])
<1>2. n \in Nat \ {0} /\ m \in [1 .. n -> Seq(Int)] /\ DOMAIN m = 1 .. n
  BY <1>1, LenProperties, EmptySeq
<1>3. \A r \in 1 .. n : m[r] \in Seq(Int) /\ Len(m[r]) = c
  BY <1>1, <1>2
<1>4. 1 \in 1 .. n
  BY <1>2
<1>5. c \in Nat
  BY <1>3, <1>4, LenProperties
<1> HIDE DEF n, c
<1>6. \A r \in 1 .. n : m[r] \in [1 .. c -> Int]
  BY <1>3, LenProperties
<1>7. m \in Matrix(n, c)
  BY <1>2, <1>6 DEF Matrix
<1> QED BY <1>2, <1>5, <1>7, MatrixIsAny DEF Sizes

\* The terms, by their places.
LEMMA TermsAre ==
  ASSUME NEW t, TermType(t)
  PROVE  /\ Len(t) \in Nat \ {0} /\ DOMAIN t = 1 .. Len(t) /\ 1 \in Starts(t) /\ Starts(t) \subseteq 1 .. Len(t)
         /\ \A k \in 1 .. Len(t) : t[k][1] \in {"+", "-", "*"} /\ t[k][2] \in Matrices /\ t[k][2] \in AnyMatrix
<1>1. t \in Seq({"+", "-", "*"} \X Matrices) /\ t # <<>> /\ t[1][1] = "+"
  BY DEF TermType
<1>2. Len(t) \in Nat \ {0} /\ DOMAIN t = 1 .. Len(t)
  BY <1>1, LenProperties, EmptySeq
<1>3. \A k \in 1 .. Len(t) : t[k] \in {"+", "-", "*"} \X Matrices
  BY <1>1, ElementOfSeq
<1>4. 1 \in DOMAIN t
  BY <1>2
<1> QED BY <1>1, <1>2, <1>3, <1>4, MatricesAny DEF Starts

\* EndOf finds the end of a term, and there is one.
LEMMA EndIs == ASSUME NEW t, TermType(t), NEW i, NEW j, IsTerm(t, i, j) PROVE EndOf(t, i) = j
<1> DEFINE E == {k \in i .. Len(t) : k = Len(t) \/ k + 1 \in Starts(t)}
<1>1. Len(t) \in Nat /\ i \in 1 .. Len(t) /\ j \in i .. Len(t)
  BY TermsAre DEF IsTerm
<1>2. j \in E
  BY DEF IsTerm
<1>3. ASSUME NEW k \in E PROVE j <= k
  <2> SUFFICES ASSUME k < j PROVE FALSE
    BY <1>1
  <2>1. k \in i .. Len(t) /\ k # Len(t) /\ k + 1 \in i + 1 .. j /\ k + 1 \in Starts(t)
    BY <1>1
  <2> QED BY <2>1 DEF IsTerm
<1>4. E \subseteq Int /\ j \in Int
  BY <1>1
<1> HIDE DEF E
<1>5. ASSUME NEW x \in E, \A y \in E : x <= y PROVE x = j
  BY <1>2, <1>3, <1>4, <1>5
<1>6. Min(E) = j
  BY <1>2, <1>3, <1>5 DEF Min
<1> QED BY <1>6 DEF EndOf, E

\* Every term ends.
LEMMA EndExists == ASSUME NEW t, TermType(t), NEW i \in Starts(t) PROVE \E j \in i .. Len(t) : IsTerm(t, i, j)
<1>1. Len(t) \in Nat /\ i \in 1 .. Len(t)
  BY TermsAre
<1> SUFFICES ASSUME \A j \in i .. Len(t) : ~IsTerm(t, i, j) PROVE FALSE
  OBVIOUS
<1> DEFINE Z == {n \in Nat : i + n <= Len(t) /\ \A k \in i + 1 .. i + n : k \notin Starts(t)}
<1>2. 0 \in Z
  BY <1>1
<1>3. ASSUME NEW n \in Nat, n \in Z PROVE n + 1 \in Z
  <2>1. i + n \in i .. Len(t) /\ i + n <= Len(t)
    BY <1>1, <1>3
  <2>2. ~IsTerm(t, i, i + n)
    BY <2>1
  <2>3. i + n # Len(t) /\ (i + n) + 1 \notin Starts(t)
    BY <1>3, <2>1, <2>2 DEF IsTerm
  <2>4. i + (n + 1) <= Len(t)
    BY <1>1, <2>1, <2>3
  <2>5. ASSUME NEW k \in i + 1 .. i + (n + 1) PROVE k \notin Starts(t)
    <3>1. k \in i + 1 .. i + n \/ k = (i + n) + 1
      BY <1>1
    <3> QED BY <1>3, <2>3, <3>1
  <2> QED BY <2>4, <2>5
<1> HIDE DEF Z
<1>4. Nat \subseteq Z
  BY <1>2, <1>3, SetInduction
<1>5. Len(t) \in Z
  BY <1>1, <1>4
<1> QED BY <1>1, <1>5 DEF Z

\* u is t with one more element at the end.
Longer(t, u, e) ==
    /\ Len(u) = Len(t) + 1 /\ u[Len(t) + 1] = e
    /\ \A k \in 1 .. Len(t) : u[k] = t[k]

\* One more matrix is read.
LEMMA TermAppended ==
  ASSUME NEW t, TermType(t), NEW g \in {"+", "-", "*"}, NEW m \in Matrices
  PROVE  TermType(Append(t, <<g, m>>)) /\ Longer(t, Append(t, <<g, m>>), <<g, m>>)
<1> DEFINE e == <<g, m>>
           u == Append(t, e)
<1>1. t \in Seq({"+", "-", "*"} \X Matrices) /\ e \in {"+", "-", "*"} \X Matrices
  BY DEF TermType
<1>2. 1 \in 1 .. Len(t)
  BY TermsAre
<1> HIDE DEF e
<1>3. /\ u \in Seq({"+", "-", "*"} \X Matrices) /\ u # <<>> /\ Len(u) = Len(t) + 1
      /\ \A k \in 1 .. Len(t) : u[k] = t[k]
      /\ u[Len(t) + 1] = e
  BY <1>1, AppendProperties
<1> HIDE DEF u
<1>4. u[1] = t[1]
  BY <1>2, <1>3
<1>5. TermType(u) /\ Longer(t, u, e)
  BY <1>3, <1>4 DEF TermType, Longer
<1> QED BY <1>5 DEF e, u

\* A sign other than a star begins a term.
LEMMA StartsLonger ==
  ASSUME NEW t, TermType(t), NEW u, TermType(u), NEW e, Longer(t, u, e)
  PROVE  /\ e[1] = "*" => Starts(u) = Starts(t)
         /\ e[1] # "*" => Starts(u) = Starts(t) \cup {Len(t) + 1}
<1>1. Len(t) \in Nat /\ DOMAIN t = 1 .. Len(t) /\ DOMAIN u = 1 .. Len(t) + 1
  BY TermsAre DEF Longer
<1>2. \A k \in DOMAIN u : k \in DOMAIN t \/ k = Len(t) + 1
  BY <1>1
<1>3. DOMAIN t \subseteq DOMAIN u /\ Len(t) + 1 \in DOMAIN u /\ Len(t) + 1 \notin DOMAIN t
  BY <1>1
<1>4. \A k \in DOMAIN t : u[k] = t[k]
  BY <1>1 DEF Longer
<1>5. u[Len(t) + 1] = e
  BY DEF Longer
<1> QED BY <1>2, <1>3, <1>4, <1>5 DEF Starts

\* What a further element does to the terms.
LEMMA TermsLonger ==
  ASSUME NEW t, TermType(t), NEW u, TermType(u), NEW e, Longer(t, u, e), NEW i, NEW j, IsTerm(t, i, j)
  PROVE  /\ j < Len(t) \/ e[1] # "*" => IsTerm(u, i, j)
         /\ j = Len(t) /\ e[1] = "*" => IsTerm(u, i, Len(t) + 1)
<1>1. Len(t) \in Nat /\ i \in 1 .. Len(t) /\ j \in i .. Len(t) /\ Len(u) = Len(t) + 1
  BY TermsAre DEF IsTerm, Longer
<1>2. /\ Starts(t) \subseteq Starts(u) /\ Starts(t) \subseteq 1 .. Len(t)
      /\ \A k \in 1 .. Len(t) : k \in Starts(u) => k \in Starts(t)
      /\ e[1] # "*" => Len(t) + 1 \in Starts(u)
      /\ e[1] = "*" => Len(t) + 1 \notin Starts(u)
  <2>1. Starts(t) \subseteq 1 .. Len(t)
    BY TermsAre
  <2>2. Len(t) + 1 \notin 1 .. Len(t)
    BY <1>1
  <2> QED BY <2>1, <2>2, StartsLonger
<1>3. i \in Starts(u) /\ j \in i .. Len(u) /\ Len(t) + 1 \in i .. Len(u)
  BY <1>1, <1>2 DEF IsTerm
<1>4. \A k \in i + 1 .. j : k \notin Starts(u)
  <2> TAKE k \in i + 1 .. j
  <2>1. k \in 1 .. Len(t)
    BY <1>1
  <2> QED BY <1>2, <2>1 DEF IsTerm
<1>5. ASSUME j < Len(t) \/ e[1] # "*" PROVE IsTerm(u, i, j)
  <2>1. j + 1 \in Starts(u)
    <3>1. CASE j = Len(t)
      BY <1>1, <1>2, <1>5, <3>1
    <3>2. CASE j # Len(t)
      BY <1>2, <3>2 DEF IsTerm
    <3> QED BY <3>1, <3>2
  <2> QED BY <1>3, <1>4, <2>1 DEF IsTerm
<1>6. ASSUME j = Len(t), e[1] = "*" PROVE IsTerm(u, i, Len(t) + 1)
  <2>1. \A k \in i + 1 .. Len(t) + 1 : k \in i + 1 .. j \/ k = Len(t) + 1
    BY <1>1, <1>6
  <2> QED BY <1>1, <1>2, <1>3, <1>4, <1>6, <2>1 DEF IsTerm
<1> QED BY <1>5, <1>6

\* The terms of t that start in S are the same in u.
SameTerm(t, u, i) ==
    /\ u[i] = t[i] /\ EndOf(u, i) = EndOf(t, i) /\ u[EndOf(t, i)] = t[EndOf(t, i)]
    /\ FactorsOf(u, i) = FactorsOf(t, i)
SameTerms(t, u, S) == \A i \in S : SameTerm(t, u, i)

\* A term that ends where it did is the same.
LEMMA TermSame ==
  ASSUME NEW t, TermType(t), NEW u, TermType(u), NEW e, Longer(t, u, e), NEW i, NEW j,
         IsTerm(t, i, j), IsTerm(u, i, j)
  PROVE  SameTerm(t, u, i)
<1>1. Len(t) \in Nat /\ i \in 1 .. Len(t) /\ j \in i .. Len(t)
  BY TermsAre DEF IsTerm
<1>2. EndOf(t, i) = j /\ EndOf(u, i) = j
  BY EndIs
<1>3. \A k \in 1 .. j - i + 1 : u[i + k - 1] = t[i + k - 1]
  <2> TAKE k \in 1 .. j - i + 1
  <2>1. i + k - 1 \in 1 .. Len(t)
    BY <1>1
  <2> QED BY <2>1 DEF Longer
<1>4. FactorsOf(u, i) = FactorsOf(t, i)
  BY <1>2, <1>3 DEF FactorsOf
<1>5. j \in 1 .. Len(t)
  BY <1>1
<1> QED BY <1>1, <1>2, <1>4, <1>5 DEF Longer, SameTerm

\* The same terms have the same value.
LEMMA ValueSame ==
  ASSUME NEW t, NEW u, NEW S, 1 \in S, SameTerms(t, u, S)
  PROVE  /\ ValueOn(u, S) = ValueOn(t, S)
         /\ SizedOn(u, S) <=> SizedOn(t, S)
         /\ RowsOf(u) = RowsOf(t) /\ ColsOf(u) = ColsOf(t)
<1>1. RowsOf(u) = RowsOf(t) /\ ColsOf(u) = ColsOf(t)
  BY DEF SameTerms, SameTerm, RowsOf, ColsOf
<1>2. \A r, c : Added(u, S, r, c) = Added(t, S, r, c)
  BY DEF SameTerms, SameTerm, Added, Signed
<1>3. ValueOn(u, S) = ValueOn(t, S)
  BY <1>1, <1>2 DEF ValueOn
<1> QED BY <1>1, <1>3 DEF SizedOn, SameTerms, SameTerm

\* The factors of a term.
FactorList(t, i, j, fs) ==
    /\ EndOf(t, i) = j /\ i \in 1 .. Len(t) /\ j \in 1 .. Len(t) /\ i <= j
    /\ fs \in Seq(AnyMatrix) /\ fs # <<>> /\ Len(fs) = j - i + 1
    /\ \A k \in 1 .. j - i + 1 : fs[k] = t[i + k - 1][2]
    /\ fs[1] = t[i][2] /\ fs[Len(fs)] = t[j][2]

LEMMA FactorsAre ==
  ASSUME NEW t, TermType(t), NEW i, NEW j, IsTerm(t, i, j)
  PROVE  FactorList(t, i, j, FactorsOf(t, i))
<1> DEFINE n == j - i + 1
           fs == FactorsOf(t, i)
<1>1. Len(t) \in Nat /\ i \in 1 .. Len(t) /\ j \in 1 .. Len(t) /\ i <= j /\ n \in Nat \ {0}
  <2>1. Len(t) \in Nat /\ i \in 1 .. Len(t) /\ j \in i .. Len(t)
    BY TermsAre DEF IsTerm
  <2> QED BY <2>1
<1>2. EndOf(t, i) = j
  BY EndIs
<1>3. \A k \in 1 .. n : i + k - 1 \in 1 .. Len(t) /\ t[i + k - 1][2] \in AnyMatrix
  <2> TAKE k \in 1 .. n
  <2>1. i + k - 1 \in 1 .. Len(t)
    BY <1>1
  <2> QED BY <2>1, TermsAre
<1>4. fs = [k \in 1 .. n |-> t[i + k - 1][2]]
  BY <1>2 DEF FactorsOf
<1>5. fs \in [1 .. n -> AnyMatrix] /\ \A k \in 1 .. n : fs[k] = t[i + k - 1][2]
  BY <1>3, <1>4
<1>6. 1 \in 1 .. n /\ n \in 1 .. n /\ i + 1 - 1 = i /\ i + n - 1 = j
  BY <1>1
<1>7. fs[1] = t[i][2] /\ fs[n] = t[j][2]
  <2>1. fs[1] = t[i + 1 - 1][2] /\ fs[n] = t[i + n - 1][2]
    BY <1>5, <1>6
  <2> QED BY <1>6, <2>1
<1> HIDE DEF fs
<1>8. fs \in Seq(AnyMatrix) /\ Len(fs) = n
  <2>1. n \in Nat /\ fs \in [1 .. n -> AnyMatrix]
    BY <1>1, <1>5
  <2> HIDE DEF n
  <2>2. fs \in Seq(AnyMatrix)
    BY <2>1, SeqDef
  <2> QED BY <2>1, <2>2, LenProperties
<1>9. fs # <<>>
  BY <1>1, <1>8, EmptySeq
<1> QED BY <1>1, <1>2, <1>5, <1>7, <1>8, <1>9 DEF fs, FactorList

\* A term of one factor.
LEMMA FactorsOfOne ==
  ASSUME NEW t, TermType(t), NEW i, IsTerm(t, i, i)
  PROVE  /\ EndOf(t, i) = i /\ FactorsOf(t, i) \in Seq(AnyMatrix) /\ FactorsOf(t, i) # <<>>
         /\ Len(FactorsOf(t, i)) = 1 /\ FactorsOf(t, i)[1] = t[i][2] /\ Fitting(FactorsOf(t, i))
<1>1. PICK j : j = i /\ IsTerm(t, i, j)
  OBVIOUS
<1> DEFINE fs == FactorsOf(t, i)
<1>2. EndOf(t, i) = j /\ i \in 1 .. Len(t) /\ fs \in Seq(AnyMatrix) /\ fs # <<>> /\ Len(fs) = j - i + 1 /\ fs[1] = t[i][2]
  BY <1>1, FactorsAre DEF FactorList
<1>3. Len(t) \in Nat
  BY TermsAre
<1> HIDE DEF fs
<1>4. Len(fs) = 1
  BY <1>1, <1>2, <1>3
<1>5. 1 .. Len(fs) - 1 = {}
  BY <1>4
<1>6. fs \in Seq(AnyMatrix) /\ fs # <<>>
  BY <1>2
<1>7. Fitting(fs)
  BY <1>5, <1>6 DEF Fitting
<1> QED BY <1>1, <1>2, <1>4, <1>7 DEF fs

\* The sizes of a value.
LEMMA SizesTyped ==
  ASSUME NEW t, TermType(t)
  PROVE  RowsOf(t) \in Sizes /\ ColsOf(t) \in Nat
<1>1. 1 \in Starts(t) /\ 1 \in 1 .. Len(t)
  BY TermsAre
<1>2. PICK j \in 1 .. Len(t) : IsTerm(t, 1, j)
  BY <1>1, EndExists
<1>3. EndOf(t, 1) = j
  BY <1>2, EndIs
<1>4. t[1][2] \in AnyMatrix /\ t[j][2] \in AnyMatrix
  BY <1>1, TermsAre
<1> QED BY <1>3, <1>4, AnyMatrixSizes DEF RowsOf, ColsOf

\* The product of a term, when its sizes fit.
LEMMA TermTyped ==
  ASSUME NEW t, TermType(t), NEW i \in Starts(t), Fitting(FactorsOf(t, i))
  PROVE  /\ ProductOf[FactorsOf(t, i)] \in AnyMatrix
         /\ Rows(ProductOf[FactorsOf(t, i)]) = Rows(t[i][2])
         /\ Cols(ProductOf[FactorsOf(t, i)]) = Cols(t[EndOf(t, i)][2])
<1>1. PICK j \in i .. Len(t) : IsTerm(t, i, j)
  BY EndExists
<1> DEFINE fs == FactorsOf(t, i)
<1>2. fs[1] = t[i][2] /\ fs[Len(fs)] = t[EndOf(t, i)][2]
  BY <1>1, FactorsAre DEF FactorList
<1> HIDE DEF fs
<1>3. Between(ProductOf[fs], fs[1], fs[Len(fs)])
  BY ProductBetween DEF fs
<1> QED BY <1>2, <1>3 DEF Between, fs

\* The summands of an element are integers.
LEMMA SummandsAdded ==
  ASSUME NEW t, TermType(t), NEW S, S \subseteq Starts(t), SizedOn(t, S),
         NEW r \in 1 .. RowsOf(t), NEW c \in 1 .. ColsOf(t)
  PROVE  IsFiniteSet(S) /\ Summands(Added(t, S, r, c), S) /\ Sigma(Added(t, S, r, c), S) \in Int
<1>1. IsFiniteSet(S)
  <2>1. Len(t) \in Nat /\ S \subseteq 1 .. Len(t)
    BY TermsAre
  <2>2. IsFiniteSet(1 .. Len(t))
    BY <2>1, FS_Interval
  <2> QED BY <2>1, <2>2, FS_Subset
<1>2. ASSUME NEW i \in S PROVE Signed(t, i) * ProductOf[FactorsOf(t, i)][r][c] \in Int
  <2> DEFINE p == ProductOf[FactorsOf(t, i)]
  <2>1. p \in AnyMatrix /\ Rows(p) = RowsOf(t) /\ Cols(p) = ColsOf(t)
    BY TermTyped DEF SizedOn
  <2> HIDE DEF p
  <2>2. p \in Matrix(RowsOf(t), ColsOf(t))
    BY <2>1, AnyMatrixSizes
  <2>3. p[r][c] \in Int
    BY <2>2 DEF Matrix
  <2>4. Signed(t, i) \in Int
    BY DEF Signed
  <2>5. \A x \in Int, y \in Int : x * y \in Int
    OBVIOUS
  <2> QED BY <2>3, <2>4, <2>5 DEF p
<1>3. Summands(Added(t, S, r, c), S)
  BY <1>2 DEF Summands, Added
<1>4. S \in SUBSET S
  OBVIOUS
<1> QED BY <1>1, <1>3, <1>4, SigmaTyped

\* The value is a matrix.
LEMMA ValueTyped ==
  ASSUME NEW t, TermType(t), NEW S, S \subseteq Starts(t), SizedOn(t, S)
  PROVE  ValueOn(t, S) \in AnyMatrix /\ Rows(ValueOn(t, S)) = RowsOf(t) /\ Cols(ValueOn(t, S)) = ColsOf(t)
<1> DEFINE m == ValueOn(t, S)
<1>1. RowsOf(t) \in Sizes /\ ColsOf(t) \in Nat
  BY SizesTyped
<1>2. \A r \in 1 .. RowsOf(t), c \in 1 .. ColsOf(t) : Sigma(Added(t, S, r, c), S) \in Int
  BY SummandsAdded
<1>3. m \in Matrix(RowsOf(t), ColsOf(t))
  BY <1>2 DEF ValueOn, Matrix
<1> HIDE DEF m
<1>4. m \in AnyMatrix /\ Rows(m) = RowsOf(t) /\ Cols(m) = ColsOf(t)
  BY <1>1, <1>3, MatrixSizes, MatrixIsAny
<1> QED BY <1>4 DEF m

\* The value of a single term.
LEMMA ValueOfOne ==
  ASSUME NEW t, TermType(t), SizedOn(t, {1})
  PROVE  ValueOn(t, {1}) = ProductOf[FactorsOf(t, 1)]
<1> DEFINE p == ProductOf[FactorsOf(t, 1)]
<1>1. 1 \in Starts(t) /\ {1} \subseteq Starts(t) /\ t[1][1] # "-"
  BY TermsAre DEF TermType
<1>2. p \in AnyMatrix /\ Rows(p) = RowsOf(t) /\ Cols(p) = ColsOf(t)
  BY <1>1, TermTyped DEF SizedOn
<1>3. \A r, c : Added(t, {1}, r, c)[1] = 1 * p[r][c]
  BY <1>1 DEF Added, Signed
<1> HIDE DEF p
<1>4. p \in Matrix(RowsOf(t), ColsOf(t))
  BY <1>2, AnyMatrixSizes
<1>5. ASSUME NEW r \in 1 .. RowsOf(t), NEW c \in 1 .. ColsOf(t)
      PROVE  Sigma(Added(t, {1}, r, c), {1}) = p[r][c]
  <2> DEFINE G == Added(t, {1}, r, c)
             e == p[r][c]
  <2>1. e \in Int /\ G[1] = 1 * e
    BY <1>3, <1>4 DEF Matrix
  <2>2. IsFiniteSet({1}) /\ Summands(G, {1})
    BY <1>1, SummandsAdded
  <2> HIDE DEF G, e
  <2>3. Sigma(G, {1}) = G[1] + Sigma(G, {1} \ {1})
    BY <2>2, SigmaSplits
  <2>4. {1} \ {1} = 1 .. 0
    OBVIOUS
  <2>5. Sigma(G, {1} \ {1}) = 0
    BY <2>4, SigmaNone
  <2>6. Sigma(G, {1}) = e
    BY <2>1, <2>3, <2>5
  <2> QED BY <2>6 DEF G, e
<1>6. ValueOn(t, {1}) = [r \in 1 .. RowsOf(t) |-> [c \in 1 .. ColsOf(t) |-> p[r][c]]]
  BY <1>5 DEF ValueOn
<1>7. p = [r \in 1 .. RowsOf(t) |-> [c \in 1 .. ColsOf(t) |-> p[r][c]]]
  BY <1>4 DEF Matrix
<1> QED BY <1>6, <1>7 DEF p

\* One more term is added or subtracted.
LEMMA ValueAdded ==
  ASSUME NEW t, TermType(t), NEW S, S \subseteq Starts(t), NEW s \in S, SizedOn(t, S)
  PROVE  ValueOn(t, S) = MatrixSum(ValueOn(t, S \ {s}), ProductOf[FactorsOf(t, s)], IF t[s][1] = "-" THEN "-" ELSE "+")
<1> DEFINE p == ProductOf[FactorsOf(t, s)]
           T == S \ {s}
           m == ValueOn(t, T)
           g == IF t[s][1] = "-" THEN "-" ELSE "+"
<1>1. SizedOn(t, T) /\ T \subseteq Starts(t) /\ s \in Starts(t)
  BY DEF SizedOn
<1>2. p \in AnyMatrix /\ Rows(p) = RowsOf(t) /\ Cols(p) = ColsOf(t)
  BY <1>1, TermTyped DEF SizedOn
<1>3. m \in AnyMatrix /\ Rows(m) = RowsOf(t) /\ Cols(m) = ColsOf(t)
  BY <1>1, ValueTyped
<1>4. ASSUME NEW r \in 1 .. RowsOf(t), NEW c \in 1 .. ColsOf(t)
      PROVE  Sigma(Added(t, S, r, c), S) = IF g = "+" THEN m[r][c] + p[r][c] ELSE m[r][c] - p[r][c]
  <2> DEFINE G == Added(t, S, r, c)
             H == Added(t, T, r, c)
             e == p[r][c]
             v == Sigma(H, T)
  <2>1. IsFiniteSet(S) /\ Summands(G, S)
    BY SummandsAdded
  <2>2. IsFiniteSet(T) /\ v \in Int
    BY <1>1, SummandsAdded
  <2>3. Alike(G, H, T)
    BY DEF Alike, Added
  <2>6. e \in Int
    <3> HIDE DEF p
    <3>1. p \in Matrix(RowsOf(t), ColsOf(t))
      BY <1>2, AnyMatrixSizes
    <3> QED BY <3>1 DEF Matrix
  <2>4. G[s] = IF g = "-" THEN -1 * e ELSE 1 * e
    <3>1. G[s] = Signed(t, s) * e
      BY DEF Added
    <3> HIDE DEF G, e, g
    <3>2. CASE t[s][1] = "-"
      <4>1. Signed(t, s) = -1
        BY <3>2 DEF Signed
      <4>2. g = "-"
        BY <3>2 DEF g
      <4> QED BY <2>6, <3>1, <4>1, <4>2
    <3>3. CASE t[s][1] # "-"
      <4>1. Signed(t, s) = 1
        BY <3>3 DEF Signed
      <4>2. g # "-"
        BY <3>3 DEF g
      <4> QED BY <2>6, <3>1, <4>1, <4>2
    <3> QED BY <3>2, <3>3
  <2>5. m[r][c] = v
    BY DEF ValueOn
  <2> HIDE DEF G, H, e, m
  <2>7. Sigma(G, S) = G[s] + Sigma(G, T)
    BY <2>1, SigmaSplits
  <2> HIDE DEF T
  <2>8. Sigma(G, T) = v
    BY <2>2, <2>3, SigmaSame
  <2> HIDE DEF v, g
  <2>9. CASE g = "-"
    BY <2>2, <2>4, <2>5, <2>6, <2>7, <2>8, <2>9 DEF G, e
  <2>10. CASE g # "-"
    <3>1. g = "+"
      BY <2>10 DEF g
    <3> QED BY <2>2, <2>4, <2>5, <2>6, <2>7, <2>8, <3>1 DEF G, e
  <2> QED BY <2>9, <2>10
<1> HIDE DEF m, p, g
<1>5. MatrixSum(m, p, g) = [r \in 1 .. RowsOf(t) |-> [c \in 1 .. ColsOf(t) |-> IF g = "+" THEN m[r][c] + p[r][c] ELSE m[r][c] - p[r][c]]]
  BY <1>3 DEF MatrixSum
<1>6. ValueOn(t, S) = MatrixSum(m, p, g)
  BY <1>4, <1>5 DEF ValueOn
<1> QED BY <1>6 DEF m, p, g

-----------------------------------------------------------------------------
(* the calculator: the loop of manage_matrices *)

\* At the beginning of a round without m2 (p is none), m is the value of all
\* the terms t, and g the sign read with the last one; without a sign there is
\* one term.
AllSummed(t, g, p, m) ==
    /\ p = NoMatrix /\ g \in {"+", "-", NoSign}
    /\ g = NoSign => Starts(t) = {1}
    /\ SizedOn(t, Starts(t)) /\ m = ValueOn(t, Starts(t))

\* The last term of t starts at s, with the sign g; p is the product of its
\* factors, m the value of the terms before it.
LastTerm(t, s, g, p, m) ==
    /\ TermType(t) /\ s # 1 /\ IsTerm(t, s, Len(t)) /\ g = t[s][1]
    /\ Fitting(FactorsOf(t, s)) /\ p = ProductOf[FactorsOf(t, s)]
    /\ SizedOn(t, Starts(t) \ {s}) /\ m = ValueOn(t, Starts(t) \ {s})

CalcInv ==
    /\ TermType(terms)
    /\ calc \in {"reading", "result", "sizes", "unreadable", "sign error"}
    /\ calc = "reading" =>
          \/ AllSummed(terms, sign1, m2, m1)
          \/ \E s \in Starts(terms) : LastTerm(terms, s, sign1, m2, m1)
    /\ calc = "result" => SizedOn(terms, Starts(terms)) /\ m1 = ValueOn(terms, Starts(terms))
    /\ calc = "sizes" => ~SizedOn(terms, Starts(terms))

\* CalcInv holds at the start.
LEMMA CalcStart == CalcInit => CalcInv
<1> SUFFICES ASSUME CalcInit PROVE CalcInv
  OBVIOUS
<1>1. PICK m \in Matrices : m1 = m /\ terms = << <<"+", m>> >>
  BY DEF CalcInit
<1>2. m2 = NoMatrix /\ sign1 = NoSign /\ calc = "reading"
  BY DEF CalcInit
<1> DEFINE t == << <<"+", m>> >>
<1>3. t \in Seq({"+", "-", "*"} \X Matrices) /\ Len(t) = 1 /\ t[1] = <<"+", m>> /\ DOMAIN t = {1}
  OBVIOUS
<1> HIDE DEF t
<1>4. t[1][1] = "+" /\ t[1][2] = m /\ t # <<>>
  BY <1>3, EmptySeq
<1>5. TermType(t)
  BY <1>3, <1>4 DEF TermType
<1>6. Starts(t) = {1}
  BY <1>3, <1>4 DEF Starts
<1>7. IsTerm(t, 1, 1)
  BY <1>3, <1>6 DEF IsTerm
<1> DEFINE fs == FactorsOf(t, 1)
<1>8. EndOf(t, 1) = 1 /\ Len(fs) = 1 /\ fs[1] = t[1][2] /\ Fitting(fs)
  BY <1>5, <1>7, FactorsOfOne
<1> HIDE DEF fs
<1>10. ProductOf[fs] = m
  BY <1>4, <1>8, ProductOfOne
<1>11. SizedOn(t, {1})
  BY <1>8 DEF SizedOn, RowsOf, ColsOf, fs
<1>12. ValueOn(t, {1}) = m
  BY <1>5, <1>10, <1>11, ValueOfOne DEF fs
<1>13. terms = t
  BY <1>1 DEF t
<1> QED BY <1>1, <1>2, <1>5, <1>6, <1>11, <1>12, <1>13 DEF CalcInv, AllSummed

\* '*' and a matrix lengthen the last term of t and leave the others.
FactorAdded(t, u, s, m) ==
    /\ TermType(u) /\ Starts(u) = Starts(t) /\ IsTerm(u, s, Len(u)) /\ u[s] = t[s]
    /\ FactorsOf(u, s) = Append(FactorsOf(t, s), m)
    /\ SameTerms(t, u, Starts(t) \ {s})

LEMMA FactorRead ==
  ASSUME NEW t, TermType(t), NEW s, IsTerm(t, s, Len(t)), NEW m \in Matrices,
         NEW u, u = Append(t, <<"*", m>>)
  PROVE  FactorAdded(t, u, s, m)
<1> DEFINE e == <<"*", m>>
<1>1. TermType(u) /\ Longer(t, u, e) /\ e[1] = "*" /\ e[2] = m
  BY TermAppended
<1> HIDE DEF e
<1>2. Starts(u) = Starts(t)
  BY <1>1, StartsLonger
<1>3. Len(u) = Len(t) + 1 /\ u[Len(t) + 1] = e /\ \A k \in 1 .. Len(t) : u[k] = t[k]
  BY <1>1 DEF Longer
<1>4. IsTerm(u, s, Len(t) + 1)
  BY <1>1, TermsLonger
<1> DEFINE fs == FactorsOf(t, s)
           gs == FactorsOf(u, s)
<1>5. /\ Len(t) \in Nat /\ s \in 1 .. Len(t) /\ fs \in Seq(AnyMatrix) /\ fs # <<>> /\ Len(fs) = Len(t) - s + 1
      /\ \A k \in 1 .. Len(t) - s + 1 : fs[k] = t[s + k - 1][2]
      /\ fs[Len(fs)] = t[Len(t)][2]
  <2>1. FactorList(t, s, Len(t), fs) /\ Len(t) \in Nat
    BY TermsAre, FactorsAre
  <2> QED BY <2>1 DEF FactorList
<1> HIDE DEF fs, gs
<1> DEFINE n == Len(t) + 1
<1>6. n = Len(t) + 1 /\ n \in Nat
  BY <1>5
<1>7. FactorList(u, s, n, gs)
  BY <1>1, <1>4, FactorsAre DEF gs
<1> HIDE DEF n
<1>8. /\ gs \in Seq(AnyMatrix) /\ Len(gs) = n - s + 1
      /\ \A k \in 1 .. n - s + 1 : gs[k] = u[s + k - 1][2]
      /\ gs[Len(gs)] = u[n][2]
  BY <1>7 DEF FactorList
<1>9. gs = Append(fs, m)
  <2>1. m \in AnyMatrix
    BY MatricesAny
  <2> DEFINE a == Append(fs, m)
  <2>2. /\ a \in Seq(AnyMatrix) /\ Len(a) = Len(fs) + 1 /\ a[Len(fs) + 1] = m
        /\ \A i \in 1 .. Len(fs) : a[i] = fs[i]
    <3>1. fs \in Seq(AnyMatrix)
      BY <1>5
    <3> QED BY ONLY <2>1, <3>1, AppendProperties
  <2> HIDE DEF a
  <2>3. Len(gs) = Len(a) /\ Len(gs) = Len(fs) + 1
    BY <1>5, <1>8, <1>6, <2>2
  <2>4. ASSUME NEW k \in 1 .. Len(gs) PROVE gs[k] = a[k]
    <3>1. CASE k = Len(fs) + 1
      BY <1>1, <1>3, <1>8, <1>6, <2>2, <2>3, <3>1
    <3>2. CASE k # Len(fs) + 1
      <4>1. k \in 1 .. Len(fs) /\ k \in 1 .. Len(t) - s + 1 /\ k \in 1 .. n - s + 1 /\ s + k - 1 \in 1 .. Len(t)
        <5>1. Len(t) \in Nat /\ s \in 1 .. Len(t) /\ Len(fs) = Len(t) - s + 1 /\ n = Len(t) + 1 /\ k \in 1 .. Len(fs) + 1
          BY <1>5, <1>6, <2>3
        <5> QED BY <3>2, <5>1
      <4> QED BY <1>3, <1>5, <1>8, <2>2, <4>1
    <3> QED BY <3>1, <3>2
  <2>5. gs = a
    BY <1>8, <2>2, <2>3, <2>4, SeqEqual
  <2> QED BY <2>5 DEF a
<1>10. ASSUME NEW i \in Starts(t) \ {s} PROVE \E j : IsTerm(t, i, j) /\ IsTerm(u, i, j)
  <2>1. PICK j \in i .. Len(t) : IsTerm(t, i, j)
    BY EndExists
  <2>2. i \in 1 .. Len(t)
    BY TermsAre
  <2>3. j # Len(t)
    <3>1. CASE i < s
      <4>1. j = Len(t) => s \in i + 1 .. j
        BY <1>5, <2>2, <3>1
      <4> QED BY <2>1, <4>1 DEF IsTerm
    <3>2. CASE i > s
      <4>1. i \in s + 1 .. Len(t)
        BY <1>5, <2>2, <3>2
      <4> QED BY <4>1 DEF IsTerm
    <3> QED BY <1>5, <2>2, <3>1, <3>2
  <2>4. j < Len(t)
    BY <1>5, <2>1, <2>2, <2>3
  <2> QED BY <1>1, <2>1, <2>4, TermsLonger
<1>11. SameTerms(t, u, Starts(t) \ {s})
  <2> SUFFICES ASSUME NEW i \in Starts(t) \ {s}
               PROVE  SameTerm(t, u, i)
    BY DEF SameTerms
  <2>1. PICK j : IsTerm(t, i, j) /\ IsTerm(u, i, j)
    BY <1>10
  <2> QED BY <1>1, <2>1, TermSame
<1>12. u[s] = t[s]
  BY <1>3, <1>5
<1> QED BY <1>1, <1>2, <1>3, <1>4, <1>9, <1>11, <1>12 DEF FactorAdded, fs, gs

\* A sign and a matrix begin a term and leave the others.
TermAdded(t, u, s, g, m) ==
    /\ TermType(u) /\ s # 1 /\ IsTerm(u, s, Len(u)) /\ u[s][1] = g
    /\ Starts(t) = Starts(u) \ {s} /\ SameTerms(t, u, Starts(t))
    /\ Fitting(FactorsOf(u, s)) /\ ProductOf[FactorsOf(u, s)] = m

LEMMA TermRead ==
  ASSUME NEW t, TermType(t), NEW g \in {"+", "-"}, NEW m \in Matrices, NEW u, u = Append(t, <<g, m>>)
  PROVE  \E s : TermAdded(t, u, s, g, m)
<1> DEFINE e == <<g, m>>
           s == Len(t) + 1
<1>1. TermType(u) /\ Longer(t, u, e) /\ e[1] = g /\ e[2] = m /\ g # "*"
  BY TermAppended
<1> HIDE DEF e
<1>2. Starts(u) = Starts(t) \cup {s}
  BY <1>1, StartsLonger
<1>3. Len(u) = s /\ u[s] = e
  BY <1>1 DEF Longer
<1>4. Len(t) \in Nat \ {0} /\ Starts(t) \subseteq 1 .. Len(t)
  BY TermsAre
<1>5. s \in Nat /\ s # 1 /\ s \notin 1 .. Len(t)
  BY <1>4
<1> HIDE DEF s
<1>6. IsTerm(u, s, s)
  BY <1>2, <1>3, <1>5 DEF IsTerm
<1>7. SameTerms(t, u, Starts(t))
  <2> SUFFICES ASSUME NEW i \in Starts(t)
               PROVE  SameTerm(t, u, i)
    BY DEF SameTerms
  <2>1. PICK j \in i .. Len(t) : IsTerm(t, i, j)
    BY EndExists
  <2>2. IsTerm(u, i, j)
    BY <1>1, <2>1, TermsLonger
  <2> QED BY <1>1, <2>1, <2>2, TermSame
<1> DEFINE fs == FactorsOf(u, s)
<1>8. Len(fs) = 1 /\ fs[1] = u[s][2] /\ Fitting(fs)
  BY <1>1, <1>6, FactorsOfOne
<1> HIDE DEF fs
<1>9. ProductOf[fs] = m
  BY <1>1, <1>3, <1>8, ProductOfOne
<1> QED BY <1>1, <1>2, <1>3, <1>4, <1>5, <1>6, <1>7, <1>8, <1>9 DEF TermAdded, fs

\* check_sizes tells whether a further factor fits.
LEMMA FactorFits ==
  ASSUME NEW fs, Fitting(fs), NEW m \in AnyMatrix
  PROVE  /\ SizesFit(ProductOf[fs], m, "*") <=> Fitting(Append(fs, m))
         /\ SizesFit(ProductOf[fs], m, "*") =>
                Calculate(ProductOf[fs], m, "*") = ProductOf[Append(fs, m)]
<1> DEFINE p == ProductOf[fs]
           n == Len(fs)
           a == Append(fs, m)
<1>1. p \in AnyMatrix /\ Cols(p) = Cols(fs[n])
  BY ProductBetween DEF Between
<1>2. fs \in Seq(AnyMatrix) /\ n \in Nat \ {0}
  BY EmptySeq DEF Fitting
<1>3. SizesFit(p, m, "*") <=> Cols(fs[n]) = Rows(m)
  BY <1>1 DEF SizesFit
<1>4. ASSUME Cols(fs[n]) = Rows(m) PROVE Fitting(a) /\ ProductOf[a] = MatrixMultiply(p, m)
  BY <1>4, ProductAppended
<1>5. ASSUME Fitting(a) PROVE Cols(fs[n]) = Rows(m)
  <2>1. Len(a) = n + 1 /\ a[n] = fs[n] /\ a[n + 1] = m
    <3>1. n \in 1 .. n
      BY <1>2
    <3> QED BY <1>2, <3>1, AppendProperties
  <2> HIDE DEF a, n
  <2>2. n \in 1 .. Len(a) - 1
    BY <1>2, <2>1
  <2> QED BY <1>5, <2>1, <2>2 DEF Fitting
<1>6. Calculate(p, m, "*") = MatrixMultiply(p, m)
  BY DEF Calculate
<1> QED BY <1>3, <1>4, <1>5, <1>6


\* A single term has nothing to fit.
LEMMA OneSized ==
  ASSUME NEW t
  PROVE  SizedOn(t, {1}) <=> Fitting(FactorsOf(t, 1))
BY DEF SizedOn, RowsOf, ColsOf

\* The sum of a term and those before it.
LEMMA LastAdded ==
  ASSUME NEW t, NEW s, NEW g, NEW p, NEW m, LastTerm(t, s, g, p, m)
  PROVE  /\ g \in {"+", "-"} /\ s \in Starts(t) /\ p # NoMatrix
         /\ SizesFit(m, p, g) <=> SizedOn(t, Starts(t))
         /\ SizedOn(t, Starts(t)) => Calculate(m, p, g) = ValueOn(t, Starts(t))
<1> DEFINE S == Starts(t) \ {s}
<1>1. TermType(t) /\ s # 1 /\ s \in Starts(t) /\ g = t[s][1]
  BY DEF LastTerm, IsTerm
<1>2. g \in {"+", "-"}
  <2>1. s \in 1 .. Len(t) /\ g \in {"+", "-", "*"}
    BY <1>1, TermsAre
  <2>2. g # "*"
    BY <1>1 DEF Starts
  <2> QED BY <2>1, <2>2
<1>3. Fitting(FactorsOf(t, s)) /\ p = ProductOf[FactorsOf(t, s)] /\ SizedOn(t, S) /\ m = ValueOn(t, S)
  BY DEF LastTerm
<1>4. p \in AnyMatrix /\ Rows(p) = Rows(t[s][2]) /\ Cols(p) = Cols(t[EndOf(t, s)][2])
  BY <1>1, <1>3, TermTyped
<1>5. m \in AnyMatrix /\ Rows(m) = RowsOf(t) /\ Cols(m) = ColsOf(t)
  BY <1>1, <1>3, ValueTyped
<1>6. SizesFit(m, p, g) <=> Rows(m) = Rows(p) /\ Cols(m) = Cols(p)
  BY <1>2 DEF SizesFit
<1>7. SizedOn(t, Starts(t)) <=> Rows(t[s][2]) = RowsOf(t) /\ Cols(t[EndOf(t, s)][2]) = ColsOf(t)
  BY <1>1, <1>3 DEF SizedOn
<1>8. ASSUME SizedOn(t, Starts(t)) PROVE Calculate(m, p, g) = ValueOn(t, Starts(t))
  <2>1. ValueOn(t, Starts(t)) = MatrixSum(m, p, IF t[s][1] = "-" THEN "-" ELSE "+")
    BY <1>1, <1>3, <1>8, ValueAdded
  <2>2. (IF t[s][1] = "-" THEN "-" ELSE "+") = g
    BY <1>1, <1>2
  <2>3. Calculate(m, p, g) = MatrixSum(m, p, g)
    BY <1>2 DEF Calculate
  <2> QED BY <2>1, <2>2, <2>3
<1>9. p # NoMatrix
  BY <1>4, AnyMatrixSizes
<1> QED BY <1>1, <1>2, <1>4, <1>5, <1>6, <1>7, <1>8, <1>9

\* What SumRound has read when it has m2: a last term, and the sum of the others.
LEMMA SecondIs ==
  ASSUME CalcInv, calc = "reading",
         NEW sign \in IF sign1 = NoSign THEN {"+", "-"} ELSE {sign1},
         NEW second \in IF m2 = NoMatrix THEN Matrices ELSE {m2},
         NEW read, read = IF m2 = NoMatrix THEN Append(terms, <<sign, second>>) ELSE terms
  PROVE  \E s : LastTerm(read, s, sign, second, m1)
<1>1. TermType(terms)
  BY DEF CalcInv
<1>2. CASE AllSummed(terms, sign1, m2, m1)
  <2>1. /\ m2 = NoMatrix /\ sign1 \in {"+", "-", NoSign}
        /\ SizedOn(terms, Starts(terms)) /\ m1 = ValueOn(terms, Starts(terms))
    BY <1>2 DEF AllSummed
  <2>2. sign \in {"+", "-"} /\ second \in Matrices /\ read = Append(terms, <<sign, second>>)
    BY <2>1
  <2>3. PICK s : TermAdded(terms, read, s, sign, second)
    BY <1>1, <2>2, TermRead
  <2>4. 1 \in Starts(terms)
    BY <1>1, TermsAre
  <2>5. ValueOn(read, Starts(terms)) = ValueOn(terms, Starts(terms)) /\ SizedOn(read, Starts(terms))
    BY <2>1, <2>3, <2>4, ValueSame DEF TermAdded
  <2> QED BY <2>1, <2>3, <2>5 DEF TermAdded, LastTerm
<1>3. CASE \E s \in Starts(terms) : LastTerm(terms, s, sign1, m2, m1)
  <2>1. PICK s \in Starts(terms) : LastTerm(terms, s, sign1, m2, m1)
    BY <1>3
  <2>2. m2 # NoMatrix /\ sign1 \in {"+", "-"}
    BY <2>1, LastAdded
  <2>3. sign = sign1 /\ second = m2 /\ read = terms
    BY <2>2 DEF NoSign
  <2> QED BY <2>1, <2>3
<1> QED BY <1>2, <1>3 DEF CalcInv

\* A round with '*' and no term before: the only term is multiplied.
LEMMA TimesStep ==
  ASSUME CalcInv, NEW m \in Matrices, TimesRound(m)
  PROVE  CalcInv'
<1> DEFINE t == terms
           u == terms'
           fs == FactorsOf(t, 1)
           gs == FactorsOf(u, 1)
<1>1. calc = "reading" /\ sign1 = NoSign /\ u = Append(t, <<"*", m>>) /\ TermType(t)
  BY DEF CalcInv, TimesRound
<1>2. AllSummed(t, sign1, m2, m1)
  <2>1. ~\E s \in Starts(terms) : LastTerm(terms, s, sign1, m2, m1)
    BY <1>1, LastAdded DEF NoSign
  <2> QED BY <1>1, <2>1 DEF CalcInv
<1>3. m2 = NoMatrix /\ Starts(t) = {1} /\ SizedOn(t, {1}) /\ m1 = ValueOn(t, {1})
  BY <1>1, <1>2 DEF AllSummed
<1>4. IsTerm(t, 1, Len(t))
  <2>1. PICK j \in 1 .. Len(t) : IsTerm(t, 1, j)
    BY <1>1, <1>3, EndExists
  <2>2. j + 1 # 1
    BY <2>1
  <2>3. j = Len(t)
    BY <1>3, <2>1, <2>2 DEF IsTerm
  <2> QED BY <2>1, <2>3
<1>5. TermType(u) /\ Starts(u) = {1} /\ gs = Append(fs, m)
  <2>1. FactorAdded(t, u, 1, m)
    BY <1>1, <1>4, FactorRead
  <2> QED BY <1>3, <2>1 DEF FactorAdded
<1>6. Fitting(fs) /\ m1 = ProductOf[fs]
  BY <1>1, <1>3, OneSized, ValueOfOne
<1>7. m \in AnyMatrix
  BY MatricesAny
<1> HIDE DEF fs, gs
<1>8. /\ SizesFit(m1, m, "*") <=> Fitting(gs)
      /\ SizesFit(m1, m, "*") => Calculate(m1, m, "*") = ProductOf[gs]
  BY <1>5, <1>6, <1>7, FactorFits
<1>9. SizedOn(u, {1}) <=> Fitting(gs)
  BY OneSized DEF gs
<1>10. CASE SizesFit(m1, m, "*")
  <2>1. m1' = Calculate(m1, m, "*") /\ m2' = m2 /\ sign1' = sign1 /\ calc' = calc
    BY <1>10 DEF TimesRound
  <2>2. SizedOn(u, {1}) /\ m1' = ProductOf[gs]
    BY <1>8, <1>9, <1>10, <2>1
  <2>3. ValueOn(u, {1}) = ProductOf[gs]
    BY <1>5, <2>2, ValueOfOne DEF gs
  <2>4. AllSummed(u, sign1', m2', m1')
    BY <1>1, <1>3, <1>5, <2>1, <2>2, <2>3 DEF AllSummed
  <2> QED BY <1>1, <1>5, <2>1, <2>4 DEF CalcInv
<1>11. CASE ~SizesFit(m1, m, "*")
  <2>1. calc' = "sizes"
    BY <1>11 DEF TimesRound, SizesDiffer
  <2>2. ~SizedOn(u, {1})
    BY <1>8, <1>9, <1>11
  <2> QED BY <1>5, <2>1, <2>2 DEF CalcInv
<1> QED BY <1>10, <1>11

\* SumRound, its three ends.
LEMMA SumEnds ==
  ASSUME NEW t, NEW s, NEW g, NEW p, LastTerm(t, s, g, p, m1), AtEnd(g, p), terms' = t
  PROVE  CalcInv'
<1>1. TermType(t)
  BY DEF LastTerm
<1>2. CASE SizesFit(m1, p, g)
  <2>1. calc' = "result" /\ m1' = Calculate(m1, p, g)
    BY <1>2 DEF AtEnd
  <2>2. SizedOn(t, Starts(t)) /\ m1' = ValueOn(t, Starts(t))
    BY <1>2, <2>1, LastAdded
  <2> QED BY <1>1, <2>1, <2>2 DEF CalcInv
<1>3. CASE ~SizesFit(m1, p, g)
  <2>1. calc' = "sizes"
    BY <1>3 DEF AtEnd, SizesDiffer
  <2>2. ~SizedOn(t, Starts(t))
    BY <1>3, LastAdded
  <2> QED BY <1>1, <2>1, <2>2 DEF CalcInv
<1> QED BY <1>2, <1>3

LEMMA SumGoesOn ==
  ASSUME NEW t, NEW s, NEW g, NEW p, LastTerm(t, s, g, p, m1), calc = "reading",
         NEW h \in {"+", "-"}, BeforeSum(g, p, h), terms' = t
  PROVE  CalcInv'
<1>1. TermType(t)
  BY DEF LastTerm
<1>2. CASE SizesFit(m1, p, g)
  <2>1. calc' = calc /\ m2' = NoMatrix /\ sign1' = h /\ m1' = Calculate(m1, p, g)
    BY <1>2 DEF BeforeSum, SignOfSum
  <2>2. SizedOn(t, Starts(t)) /\ m1' = ValueOn(t, Starts(t))
    BY <1>2, <2>1, LastAdded
  <2>3. AllSummed(t, sign1', m2', m1')
    BY <2>1, <2>2 DEF AllSummed, NoSign
  <2> QED BY <1>1, <2>1, <2>3 DEF CalcInv
<1>3. CASE ~SizesFit(m1, p, g)
  <2>1. calc' = "sizes"
    BY <1>3 DEF BeforeSum, SizesDiffer
  <2>2. ~SizedOn(t, Starts(t))
    BY <1>3, LastAdded
  <2> QED BY <1>1, <2>1, <2>2 DEF CalcInv
<1> QED BY <1>2, <1>3

LEMMA SumWaits ==
  ASSUME NEW t, NEW s, NEW g, NEW p, LastTerm(t, s, g, p, m1), calc = "reading",
         NEW m \in Matrices, BeforeTimes(g, p, m), terms' = Append(t, <<"*", m>>)
  PROVE  CalcInv'
<1> DEFINE u == terms'
           S == Starts(t) \ {s}
           fs == FactorsOf(t, s)
           gs == FactorsOf(u, s)
<1>1. /\ TermType(t) /\ s # 1 /\ IsTerm(t, s, Len(t)) /\ g = t[s][1]
      /\ Fitting(fs) /\ p = ProductOf[fs]
      /\ SizedOn(t, S) /\ m1 = ValueOn(t, S)
  BY DEF LastTerm
<1> HIDE DEF u, fs
<1>2. FactorAdded(t, u, s, m)
  BY <1>1, FactorRead DEF u
<1>3. TermType(u) /\ Starts(u) = Starts(t) /\ IsTerm(u, s, Len(u)) /\ u[s] = t[s] /\ gs = Append(fs, m) /\ SameTerms(t, u, S)
  BY <1>2 DEF FactorAdded, fs
<1>4. s \in Starts(u) /\ 1 \in S
  BY <1>1, <1>3, TermsAre DEF IsTerm
<1>5. m \in AnyMatrix
  BY MatricesAny
<1> HIDE DEF gs, S
<1>6. /\ SizesFit(p, m, "*") <=> Fitting(gs)
      /\ SizesFit(p, m, "*") => Calculate(p, m, "*") = ProductOf[gs]
  BY <1>1, <1>3, <1>5, FactorFits
<1>7. SizedOn(u, S) /\ m1 = ValueOn(u, S)
  BY <1>1, <1>3, <1>4, ValueSame
<1>8. CASE SizesFit(p, m, "*")
  <2>1. m1' = m1 /\ m2' = ProductOf[gs] /\ sign1' = g /\ calc' = calc /\ Fitting(gs)
    BY <1>6, <1>8 DEF BeforeTimes
  <2>2. LastTerm(u, s, sign1', m2', m1')
    BY <1>1, <1>3, <1>7, <2>1 DEF LastTerm, S, gs
  <2> QED BY <1>3, <1>4, <2>1, <2>2 DEF CalcInv, u
<1>9. CASE ~SizesFit(p, m, "*")
  <2>1. calc' = "sizes" /\ ~Fitting(gs)
    BY <1>6, <1>9 DEF BeforeTimes, SizesDiffer
  <2>2. ~SizedOn(u, Starts(u))
    BY <1>4, <2>1 DEF SizedOn, gs
  <2> QED BY <1>3, <2>1, <2>2 DEF CalcInv, u
<1> QED BY <1>8, <1>9

\* SumRound keeps CalcInv.
LEMMA SumStepKeeps == CalcInv /\ SumRound => CalcInv'
<1> SUFFICES ASSUME CalcInv, SumRound PROVE CalcInv'
  OBVIOUS
<1>1. calc = "reading"
  BY DEF SumRound
<1>2. PICK sign \in IF sign1 = NoSign THEN {"+", "-"} ELSE {sign1},
           second \in IF m2 = NoMatrix THEN Matrices ELSE {m2} :
               LET read == IF m2 = NoMatrix THEN Append(terms, <<sign, second>>) ELSE terms
               IN  \/ AtEnd(sign, second) /\ terms' = read
                   \/ \E third \in Matrices : BeforeTimes(sign, second, third) /\ terms' = Append(read, <<"*", third>>)
                   \/ \E sign2 \in {"+", "-"} : BeforeSum(sign, second, sign2) /\ terms' = read
  BY DEF SumRound
<1> DEFINE read == IF m2 = NoMatrix THEN Append(terms, <<sign, second>>) ELSE terms
<1>3. \/ AtEnd(sign, second) /\ terms' = read
      \/ \E third \in Matrices : BeforeTimes(sign, second, third) /\ terms' = Append(read, <<"*", third>>)
      \/ \E sign2 \in {"+", "-"} : BeforeSum(sign, second, sign2) /\ terms' = read
  BY <1>2
<1>4. PICK s : LastTerm(read, s, sign, second, m1)
  BY <1>1, SecondIs
<1> HIDE DEF read
<1>5. CASE AtEnd(sign, second) /\ terms' = read
  BY <1>4, <1>5, SumEnds
<1>6. CASE \E third \in Matrices : BeforeTimes(sign, second, third) /\ terms' = Append(read, <<"*", third>>)
  BY <1>1, <1>4, <1>6, SumWaits
<1>7. CASE \E sign2 \in {"+", "-"} : BeforeSum(sign, second, sign2) /\ terms' = read
  BY <1>1, <1>4, <1>7, SumGoesOn
<1> QED BY <1>3, <1>5, <1>6, <1>7

\* So does every step.
LEMMA CalcStep == CalcInv /\ [CalcNext]_calcVars => CalcInv'
<1> SUFFICES ASSUME CalcInv, [CalcNext]_calcVars PROVE CalcInv'
  OBVIOUS
<1>1. CASE BadInput
  BY <1>1 DEF BadInput, CalcInv
<1>2. CASE EndOfOne
  <2>1. /\ calc = "reading" /\ sign1 = NoSign /\ calc' = "result" /\ TermType(terms)
        /\ m1' = m1 /\ terms' = terms
    BY <1>2 DEF EndOfOne, CalcInv
  <2>2. AllSummed(terms, sign1, m2, m1)
    <3>1. ~\E s \in Starts(terms) : LastTerm(terms, s, sign1, m2, m1)
      BY <2>1, LastAdded DEF NoSign
    <3> QED BY <2>1, <3>1 DEF CalcInv
  <2>3. SizedOn(terms, Starts(terms)) /\ m1 = ValueOn(terms, Starts(terms))
    BY <2>2 DEF AllSummed
  <2> QED BY <2>1, <2>3 DEF CalcInv
<1>3. CASE SumRound
  BY <1>3, SumStepKeeps
<1>4. CASE \E m \in Matrices : TimesRound(m)
  BY <1>4, TimesStep
<1>5. CASE UNCHANGED calcVars
  BY <1>5 DEF calcVars, CalcInv
<1> QED BY <1>1, <1>2, <1>3, <1>4, <1>5 DEF CalcNext

-----------------------------------------------------------------------------
(* the calculator: the value of the input *)

\* The factors of a term fit as they follow each other in the input.
LEMMA FittingTerm ==
  ASSUME NEW t, TermType(t), NEW i, NEW j, IsTerm(t, i, j)
  PROVE  Fitting(FactorsOf(t, i)) <=> \A k \in i .. j - 1 : SizesFit(t[k][2], t[k + 1][2], "*")
<1> DEFINE fs == FactorsOf(t, i)
<1>1. /\ i \in 1 .. Len(t) /\ j \in 1 .. Len(t) /\ i <= j /\ Len(t) \in Nat
      /\ fs \in Seq(AnyMatrix) /\ fs # <<>> /\ Len(fs) = j - i + 1
      /\ \A k \in 1 .. j - i + 1 : fs[k] = t[i + k - 1][2]
  <2>1. FactorList(t, i, j, fs) /\ Len(t) \in Nat
    BY FactorsAre, TermsAre
  <2> HIDE DEF fs
  <2> QED BY <2>1 DEF FactorList
<1> HIDE DEF fs
<1>2. i \in Nat /\ j \in Nat
  BY <1>1
<1>3. ASSUME NEW l \in 1 .. j - i
      PROVE  /\ i + l - 1 \in i .. j - 1
             /\ fs[l] = t[i + l - 1][2] /\ fs[l + 1] = t[(i + l - 1) + 1][2]
  <2>1. l \in 1 .. j - i + 1 /\ l + 1 \in 1 .. j - i + 1 /\ i + l - 1 \in i .. j - 1 /\ i + (l + 1) - 1 = (i + l - 1) + 1
    BY <1>2
  <2> QED BY <1>1, <2>1
<1>4. ASSUME \A l \in 1 .. j - i : Cols(fs[l]) = Rows(fs[l + 1]), NEW k \in i .. j - 1
      PROVE  SizesFit(t[k][2], t[k + 1][2], "*")
  <2> DEFINE l == k - i + 1
  <2>1. l \in 1 .. j - i /\ i + l - 1 = k
    BY <1>2
  <2> HIDE DEF l
  <2>2. fs[l] = t[k][2] /\ fs[l + 1] = t[k + 1][2]
    BY <1>3, <2>1
  <2> QED BY <1>4, <2>1, <2>2 DEF SizesFit
<1>5. ASSUME \A k \in i .. j - 1 : SizesFit(t[k][2], t[k + 1][2], "*"), NEW l \in 1 .. j - i
      PROVE  Cols(fs[l]) = Rows(fs[l + 1])
  BY <1>3, <1>5 DEF SizesFit
<1>6. Len(fs) - 1 = j - i
  BY <1>1, <1>2
<1>7. Fitting(fs) <=> \A l \in 1 .. j - i : Cols(fs[l]) = Rows(fs[l + 1])
  BY <1>1, <1>6 DEF Fitting
<1> QED BY <1>4, <1>5, <1>7 DEF fs

\* What MatrixCalc says of terms is what is said here.
LEMMA TermsNamed == /\ TermStarts = Starts(terms)
                    /\ \A i : TermEnd(i) = EndOf(terms, i) /\ Factors(i) = FactorsOf(terms, i)
<1>1. TermStarts = Starts(terms)
  BY DEF TermStarts, Starts
<1>2. \A i : TermEnd(i) = EndOf(terms, i)
  BY <1>1 DEF TermEnd, EndOf
<1> QED BY <1>1, <1>2 DEF Factors, FactorsOf

\* The sizes of the input.
LEMMA SizedIs ==
  ASSUME TermType(terms)
  PROVE  WellSized <=> SizedOn(terms, Starts(terms))
<1>1. ASSUME NEW i \in Starts(terms)
      PROVE  Fitting(FactorsOf(terms, i)) <=> \A k \in i .. EndOf(terms, i) - 1 : SizesFit(terms[k][2], terms[k + 1][2], "*")
  <2>1. PICK j \in i .. Len(terms) : IsTerm(terms, i, j)
    BY EndExists
  <2>2. EndOf(terms, i) = j
    BY <2>1, EndIs
  <2> QED BY <2>1, <2>2, FittingTerm
<1> QED BY <1>1, TermsNamed DEF WellSized, SizedOn, RowsOf, ColsOf

\* An element of Value, which is a sum over a set in MatrixCalc.
Total(t, S, r, c) == MapThenSumSet(LAMBDA i : (IF t[i][1] = "-" THEN -1 ELSE 1) * ProductOf[FactorsOf(t, i)][r][c], S)

\* The same sum.
LEMMA TotalIs ==
  ASSUME NEW t, NEW S, IsFiniteSet(S), NEW r, NEW c
  PROVE  Total(t, S, r, c) = Sigma(Added(t, S, r, c), S)
<1> DEFINE G == Added(t, S, r, c)
           F(i) == (IF t[i][1] = "-" THEN -1 ELSE 1) * ProductOf[FactorsOf(t, i)][r][c]
           Part(h, s) == IF s = {} THEN 0 ELSE F(CHOOSE x \in s : TRUE) + h[s \ {CHOOSE x \in s : TRUE}]
<1>1. \A i \in S : G[i] = F(i)
  BY DEF Added, Signed
<1> HIDE DEF G
<1>2. ASSUME NEW h, NEW s \in SUBSET S PROVE Part(h, s) = SumStep(G, h, s)
  <2>1. s # {} => (CHOOSE x \in s : TRUE) \in S
    OBVIOUS
  <2> HIDE DEF F
  <2> QED BY <1>1, <2>1 DEF SumStep, Chosen
<1>3. \A h : [s \in SUBSET S |-> Part(h, s)] = [s \in SUBSET S |-> SumStep(G, h, s)]
  BY <1>2
<1>4. PICK h : Sums(G, S, h)
  BY SumsExist
<1>5. h = [s \in SUBSET S |-> Part(h, s)]
  BY <1>3, <1>4 DEF Sums
<1>6. \E f : f = [s \in SUBSET S |-> Part(f, s)] /\ Total(t, S, r, c) = f[S]
  BY <1>5 DEF Total, MapThenSumSet, MapThenFoldSet
<1>7. PICK f : f = [s \in SUBSET S |-> Part(f, s)] /\ Total(t, S, r, c) = f[S]
  BY <1>6
<1>8. Sums(G, S, f)
  BY <1>3, <1>7 DEF Sums
<1>9. Sigma(G, S) = f[S]
  BY <1>8, SigmaIs
<1> QED BY <1>7, <1>9 DEF G

\* The value of the input.
LEMMA ValueIs ==
  ASSUME TermType(terms), SizedOn(terms, Starts(terms))
  PROVE  Value = ValueOn(terms, Starts(terms))
<1>1. Value = [r \in 1 .. RowsOf(terms) |-> [c \in 1 .. ColsOf(terms) |-> Total(terms, Starts(terms), r, c)]]
  BY DEF Value, Total, RowsOf, ColsOf, Factors, FactorsOf, TermEnd, EndOf, TermStarts, Starts
<1>2. ASSUME NEW r \in 1 .. RowsOf(terms), NEW c \in 1 .. ColsOf(terms)
      PROVE  Total(terms, Starts(terms), r, c) = Sigma(Added(terms, Starts(terms), r, c), Starts(terms))
  <2>1. IsFiniteSet(Starts(terms))
    BY SummandsAdded
  <2> QED BY <2>1, TotalIs
<1> QED BY <1>1, <1>2 DEF ValueOn

\* The property follows.
LEMMA CalcInvGives == CalcInv => CalcIsArithmetic
BY SizedIs, ValueIs DEF CalcInv, CalcIsArithmetic

\* However '*' is mixed with '+' and '-', what the loop of manage_matrices
\* computes as it reads is the value of the input by the rules of arithmetic, and
\* check_sizes fails exactly when two sizes of the input do not fit: for matrices
\* of any sizes and inputs of any length.
THEOREM CalculatorIsRight == CalcSpec => []CalcIsArithmetic
<1>1. CalcSpec => []CalcInv
  BY CalcStart, CalcStep, PTL DEF CalcSpec
<1> QED BY <1>1, CalcInvGives, PTL

-----------------------------------------------------------------------------
(* a function by recursion over places *)

\* The places a recursion goes through: with each one the one before.
Downward(D) == D \subseteq Nat /\ 0 \in D /\ \A k \in D : k # 0 => k - 1 \in D

\* h takes step from place to place up to n, first being its value at 0.
Steps(h, first, step, D, S, n) ==
    /\ h \in [0 .. n -> S] /\ h[0] = first
    /\ \A k \in 1 .. n : h[k] = IF k \in D THEN step[<<k, h[k - 1]>>] ELSE h[k - 1]

LEMMA StepsExist ==
  ASSUME NEW D, Downward(D), NEW S, NEW first \in S, NEW step \in [D \X S -> S]
  PROVE  \A n \in Nat : \E h : Steps(h, first, step, D, S, n)
<1> DEFINE N == {n \in Nat : \E h : Steps(h, first, step, D, S, n)}
<1>1. 0 \in N
  <2>1. Steps([k \in 0 .. 0 |-> first], first, step, D, S, 0)
    BY DEF Steps
  <2> QED BY <2>1
<1>2. ASSUME NEW n \in Nat, n \in N PROVE n + 1 \in N
  <2>1. PICK h : Steps(h, first, step, D, S, n)
    BY <1>2
  <2> DEFINE m == n + 1
             e == IF m \in D THEN step[<<m, h[n]>>] ELSE h[n]
             g == [k \in 0 .. m |-> IF k = m THEN e ELSE h[k]]
  <2>2. h[n] \in S /\ h \in [0 .. n -> S] /\ m \in Nat /\ m - 1 = n /\ m # 0
    BY <2>1 DEF Steps
  <2>3. e \in S
    BY <2>2
  <2> HIDE DEF e
  <2>4. g \in [0 .. m -> S] /\ g[0] = first
    BY <2>1, <2>2, <2>3 DEF Steps
  <2>5. ASSUME NEW k \in 1 .. m PROVE g[k] = IF k \in D THEN step[<<k, g[k - 1]>>] ELSE g[k - 1]
    <3>1. CASE k = m
      <4>1. g[k] = e /\ g[k - 1] = h[n] /\ k - 1 = n
        BY <2>2, <3>1
      <4> QED BY <3>1, <4>1 DEF e
    <3>2. CASE k # m
      <4>1. k \in 1 .. n /\ g[k] = h[k] /\ g[k - 1] = h[k - 1]
        BY <2>2, <3>2
      <4> QED BY <2>1, <4>1 DEF Steps
    <3> QED BY <3>1, <3>2
  <2>6. Steps(g, first, step, D, S, m)
    <3> HIDE DEF g, m
    <3> QED BY <2>4, <2>5 DEF Steps
  <2> QED BY <2>6
<1> HIDE DEF N
<1>3. Nat \subseteq N
  BY <1>1, <1>2, SetInduction
<1> QED BY <1>3 DEF N

LEMMA StepsAgree ==
  ASSUME NEW D, NEW S, NEW first \in S, NEW step, NEW n \in Nat, NEW m \in Nat, n <= m,
         NEW g, NEW h, Steps(g, first, step, D, S, n), Steps(h, first, step, D, S, m)
  PROVE  \A k \in 0 .. n : g[k] = h[k]
<1> DEFINE N == {k \in Nat : k <= n => g[k] = h[k]}
<1>1. 0 \in N
  BY DEF Steps
<1>2. ASSUME NEW k \in Nat, k \in N PROVE k + 1 \in N
  <2> SUFFICES ASSUME k + 1 <= n PROVE g[k + 1] = h[k + 1]
    OBVIOUS
  <2>1. k + 1 \in 1 .. n /\ k + 1 \in 1 .. m /\ (k + 1) - 1 = k /\ g[k] = h[k]
    BY <1>2
  <2> DEFINE j == k + 1
  <2>2. j \in 1 .. n /\ j \in 1 .. m /\ g[j - 1] = h[j - 1]
    BY <2>1
  <2> HIDE DEF j
  <2>3. g[j] = h[j]
    BY <2>2 DEF Steps
  <2> QED BY <2>3 DEF j
<1> HIDE DEF N
<1>3. Nat \subseteq N
  BY <1>1, <1>2, SetInduction
<1> QED BY <1>3 DEF N

\* f is what a recursion over the places in D asks for.
Recursion(f, first, step, D, S) ==
    /\ f \in [D -> S] /\ f[0] = first
    /\ \A k \in D : k # 0 => f[k] = step[<<k, f[k - 1]>>]

LEMMA RecursionExists ==
  ASSUME NEW D, Downward(D), NEW S, NEW first \in S, NEW step \in [D \X S -> S]
  PROVE  \E f : Recursion(f, first, step, D, S)
<1> DEFINE H(n) == CHOOSE h : Steps(h, first, step, D, S, n)
           f == [k \in D |-> H(k)[k]]
<1>1. \A n \in Nat : Steps(H(n), first, step, D, S, n)
  BY StepsExist
<1> HIDE DEF H
<1>2. D \subseteq Nat /\ 0 \in D
  BY DEF Downward
<1>3. f \in [D -> S]
  <2> SUFFICES ASSUME NEW k \in D PROVE H(k)[k] \in S
    OBVIOUS
  <2> QED BY <1>1, <1>2 DEF Steps
<1>4. f[0] = first
  BY <1>1, <1>2 DEF Steps
<1>5. ASSUME NEW k \in D, k # 0 PROVE f[k] = step[<<k, f[k - 1]>>]
  <2> DEFINE j == k - 1
             g == H(j)
             h == H(k)
  <2>1. k \in Nat /\ j \in Nat /\ j \in D /\ j <= k /\ k \in 1 .. k /\ j \in 0 .. j
    BY <1>2, <1>5 DEF Downward
  <2>2. Steps(g, first, step, D, S, j) /\ Steps(h, first, step, D, S, k)
    BY <1>1, <2>1
  <2>3. f[k] = h[k] /\ f[j] = g[j]
    BY <2>1
  <2> HIDE DEF f, g, h
  <2>4. h[k] = step[<<k, h[j]>>]
    BY <2>1, <2>2 DEF Steps
  <2> HIDE DEF j
  <2>5. g[j] = h[j]
    BY <2>1, <2>2, StepsAgree
  <2>6. f[k] = step[<<k, f[j]>>]
    BY <2>3, <2>4, <2>5
  <2> QED BY <2>6 DEF j
<1> HIDE DEF f
<1> QED BY <1>3, <1>4, <1>5 DEF Recursion

LEMMA NatDownward == Downward(Nat)
BY DEF Downward
LEMMA UptoDownward == ASSUME NEW n \in Nat PROVE Downward(0 .. n)
BY DEF Downward

-----------------------------------------------------------------------------
(* the prime factors *)

\* One number divides another when it is a factor of it.
LEMMA Dividing ==
  ASSUME NEW n \in Nat, NEW d \in Nat \ {0}
  PROVE  n % d = 0 <=> \E e \in Nat : n = d * e
<1>1. n = d * (n \div d) + (n % d) /\ n \div d \in Nat /\ n % d \in 0 .. d - 1
  OBVIOUS
<1>2. CASE n % d = 0
  <2>1. n = d * (n \div d)
    BY <1>1, <1>2
  <2> QED BY <1>1, <1>2, <2>1
<1>3. ASSUME NEW e \in Nat, n = d * e PROVE n % d = 0
  <2>1. (d * e) % d = 0
    OBVIOUS
  <2> QED BY <1>3, <2>1
<1> QED BY <1>2, <1>3

LEMMA ProductsOfTwo ==
  ASSUME NEW a \in Nat, NEW b \in Nat
  PROVE  /\ a * b \in Nat /\ a * b = b * a
         /\ a # 0 => b <= a * b
         /\ a # 0 /\ b # 0 => a * b # 0
         /\ a > 1 /\ b # 0 => b < a * b
OBVIOUS

LEMMA ProductsAssociate ==
  ASSUME NEW a \in Nat, NEW b \in Nat, NEW c \in Nat
  PROVE  a * (b * c) = (a * b) * c
OBVIOUS

\* What divides a factor divides the product.
LEMMA DividesOn ==
  ASSUME NEW n \in Nat, NEW m \in Nat, NEW d \in Nat \ {0}, NEW x \in Nat, n = m * x, m % d = 0
  PROVE  n % d = 0
<1>1. PICK e \in Nat : m = d * e
  BY Dividing
<1>2. n = d * (e * x) /\ e * x \in Nat
  BY <1>1, ProductsAssociate, ProductsOfTwo
<1> QED BY <1>2, Dividing

LEMMA PowerIs ==
  ASSUME NEW p \in Nat
  PROVE  Power(p, 0) = 1 /\ \A c \in Nat : Power(p, c) \in Nat /\ Power(p, c + 1) = p * Power(p, c)
<1> DEFINE next(f) == [k \in Nat |-> IF k = 0 THEN 1 ELSE p * f[k - 1]]
           F == CHOOSE f : f = next(f)
           step == [s \in Nat \X Nat |-> p * s[2]]
<1>1. PICK f : Recursion(f, 1, step, Nat, Nat)
  <2>1. step \in [Nat \X Nat -> Nat]
    BY ProductsOfTwo
  <2> HIDE DEF step
  <2> QED BY <2>1, NatDownward, RecursionExists
<1>2. f = next(f)
  <2>1. ASSUME NEW k \in Nat PROVE f[k] = IF k = 0 THEN 1 ELSE p * f[k - 1]
    <3>1. CASE k # 0
      <4>1. step[<<k, f[k - 1]>>] = p * f[k - 1]
        <5>1. k - 1 \in Nat /\ f \in [Nat -> Nat]
          BY <1>1, <3>1 DEF Recursion
        <5>2. f[k - 1] \in Nat
          BY <5>1
        <5> QED BY <5>2
      <4> HIDE DEF step
      <4>2. f[k] = step[<<k, f[k - 1]>>]
        BY <1>1, <3>1 DEF Recursion
      <4> QED BY <3>1, <4>1, <4>2
    <3> QED BY <1>1, <3>1 DEF Recursion
  <2> HIDE DEF step
  <2> QED BY <1>1, <2>1 DEF Recursion
<1>3. F = next(F)
  <2> HIDE DEF next
  <2> QED BY <1>2
<1>4. \A c \in Nat : Power(p, c) = F[c]
  BY DEF Power
<1> HIDE DEF F
<1>5. F[0] = 1 /\ \A c \in Nat : F[c + 1] = p * F[c]
  <2>1. F[0] = 1
    BY <1>3
  <2>2. ASSUME NEW c \in Nat PROVE F[c + 1] = p * F[c]
    <3> DEFINE k == c + 1
    <3>1. k \in Nat /\ k # 0 /\ k - 1 = c
      OBVIOUS
    <3> HIDE DEF k
    <3>2. F[k] = p * F[k - 1]
      BY <1>3, <3>1
    <3> QED BY <3>1, <3>2 DEF k
  <2> QED BY <2>1, <2>2
<1>6. \A c \in Nat : F[c] \in Nat
  <2> DEFINE N == {c \in Nat : F[c] \in Nat}
  <2>1. 0 \in N /\ \A c \in Nat : c \in N => c + 1 \in N
    BY <1>5, ProductsOfTwo
  <2> HIDE DEF N
  <2>2. Nat \subseteq N
    BY <2>1, SetInduction
  <2> QED BY <2>2 DEF N
<1> QED BY <1>4, <1>5, <1>6

LEMMA PowerGrows ==
  ASSUME NEW p \in Nat, p > 1
  PROVE  \A c \in Nat : Power(p, c) > c
<1> DEFINE N == {c \in Nat : Power(p, c) > c}
<1>1. 0 \in N
  BY PowerIs
<1>2. ASSUME NEW c \in Nat, c \in N PROVE c + 1 \in N
  <2> DEFINE q == Power(p, c)
  <2>1. q \in Nat /\ Power(p, c + 1) = p * q /\ q > c
    BY <1>2, PowerIs
  <2> HIDE DEF q
  <2>2. q < p * q /\ p * q \in Nat
    BY <2>1, ProductsOfTwo
  <2> QED BY <2>1, <2>2
<1> HIDE DEF N
<1>3. Nat \subseteq N
  BY <1>1, <1>2, SetInduction
<1> QED BY <1>3 DEF N

\* What dividing leaves, after some rounds.
DividesOut(s, p, n, k) ==
    /\ s \in Nat \X Nat /\ s[1] # 0
    /\ n = s[1] * Power(p, s[2])
    /\ s[1] % p = 0 => s[2] = k

\* A factor p has gone from m into its power.
Goes(m, p, c) == m \div p \in Nat /\ m \div p # 0 /\ m * Power(p, c) = (m \div p) * Power(p, c + 1)

LEMMA OneDivided ==
  ASSUME NEW p \in Nat, p > 1, NEW m \in Nat, m # 0, NEW c \in Nat, m % p = 0
  PROVE  Goes(m, p, c)
<1> DEFINE q == m \div p
<1>1. q \in Nat /\ m = p * q
  OBVIOUS
<1>2. Power(p, c) \in Nat /\ Power(p, c + 1) = p * Power(p, c)
  BY PowerIs
<1> DEFINE r == Power(p, c)
<1> HIDE DEF q, r
<1>3. q # 0
  BY <1>1
<1>4. m * r = q * (p * r)
  <2>1. r \in Nat
    BY <1>2 DEF r
  <2>2. m = q * p
    BY <1>1, ProductsOfTwo
  <2> QED BY <1>1, <2>1, <2>2, ProductsAssociate
<1> QED BY <1>1, <1>2, <1>3, <1>4 DEF q, r, Goes

\* Divide() takes all of a factor out of a number.
LEMMA DivideIs ==
  ASSUME NEW p \in Nat, p > 1, NEW n \in Nat, n # 0, n % p = 0
  PROVE  LET s == Divide(p, n) IN
         /\ s[1] \in Nat /\ s[1] # 0 /\ s[2] \in Nat /\ s[2] # 0
         /\ n = s[1] * Power(p, s[2]) /\ s[1] % p # 0
<1> DEFINE next(s) == IF s[1] % p # 0 THEN s ELSE <<s[1] \div p, s[2] + 1>>
           whole(f) == [k \in Nat |-> IF k = 0 THEN <<n, 0>> ELSE next(f[k - 1])]
           F == CHOOSE f : f = whole(f)
           S == Nat \X Nat
           step == [s \in Nat \X S |-> next(s[2])]
<1>1. \A s \in S : next(s) \in S
  <2> SUFFICES ASSUME NEW s \in S PROVE next(s) \in S
    OBVIOUS
  <2>1. s[1] \in Nat /\ s[2] \in Nat /\ s[1] \div p \in Nat
    OBVIOUS
  <2> QED BY <2>1
<1>2. step \in [Nat \X S -> S]
  <2> HIDE DEF next, S
  <2> QED BY <1>1
<1>3. <<n, 0>> \in S
  OBVIOUS
<1>4. \A k \in Nat, s \in S : step[<<k, s>>] = next(s)
  <2> HIDE DEF next, S
  <2> QED OBVIOUS
<1> HIDE DEF step, S
<1>5. PICK f : Recursion(f, <<n, 0>>, step, Nat, S)
  BY <1>2, <1>3, NatDownward, RecursionExists
<1>6. f = whole(f)
  <2>1. ASSUME NEW k \in Nat PROVE f[k] = IF k = 0 THEN <<n, 0>> ELSE next(f[k - 1])
    <3> HIDE DEF next
    <3>1. CASE k # 0
      <4>1. k - 1 \in Nat /\ f \in [Nat -> S]
        BY <1>5, <3>1 DEF Recursion
      <4>2. f[k - 1] \in S
        BY <4>1
      <4>3. step[<<k, f[k - 1]>>] = next(f[k - 1])
        BY <1>4, <4>2
      <4>4. f[k] = step[<<k, f[k - 1]>>]
        BY <1>5, <3>1 DEF Recursion
      <4> QED BY <3>1, <4>3, <4>4
    <3> QED BY <1>5, <3>1 DEF Recursion
  <2>2. f \in [Nat -> S]
    BY <1>5 DEF Recursion
  <2> HIDE DEF next
  <2> QED BY <2>1, <2>2
<1>7. F = whole(F)
  <2> HIDE DEF whole
  <2> QED BY <1>6
<1>8. Divide(p, n) = F[n]
  BY DEF Divide
<1> HIDE DEF F
<1>9. F[0] = <<n, 0>> /\ \A k \in Nat : F[k + 1] = next(F[k])
  <2>1. F[0] = <<n, 0>>
    BY <1>7
  <2>2. ASSUME NEW c \in Nat PROVE F[c + 1] = next(F[c])
    <3> DEFINE k == c + 1
    <3>1. k \in Nat /\ k # 0 /\ k - 1 = c
      OBVIOUS
    <3> HIDE DEF k, next
    <3>2. F[k] = next(F[k - 1])
      BY <1>7, <3>1
    <3> QED BY <3>1, <3>2 DEF k
  <2> QED BY <2>1, <2>2
<1> DEFINE N == {k \in Nat : DividesOut(F[k], p, n, k)}
<1>10. 0 \in N
  <2>1. Power(p, 0) = 1
    BY PowerIs
  <2>2. n = n * Power(p, 0)
    BY <2>1
  <2> DEFINE q == Power(p, 0)
  <2> HIDE DEF q
  <2>3. DividesOut(<<n, 0>>, p, n, 0)
    BY <2>2 DEF DividesOut
  <2> QED BY <1>9, <2>3
<1>11. ASSUME NEW k \in Nat, k \in N PROVE k + 1 \in N
  <2> DEFINE m == F[k][1]
             c == F[k][2]
  <2>1. m \in Nat /\ m # 0 /\ c \in Nat /\ n = m * Power(p, c) /\ (m % p = 0 => c = k) /\ F[k] = <<m, c>>
    BY <1>11 DEF DividesOut
  <2>2. F[k + 1] = next(F[k])
    BY <1>9
  <2>3. CASE m % p # 0
    <3>1. F[k + 1] = F[k]
      BY <2>2, <2>3
    <3> QED BY <1>11, <2>3, <3>1 DEF DividesOut
  <2>4. CASE m % p = 0
    <3>1. F[k + 1] = <<m \div p, c + 1>>
      BY <2>2, <2>4
    <3>2. /\ m \div p \in Nat /\ m \div p # 0 /\ n = (m \div p) * Power(p, c + 1) /\ c + 1 = k + 1
      <4> HIDE DEF m, c
      <4>1. Goes(m, p, c)
        BY <2>1, <2>4, OneDivided
      <4> QED BY <2>1, <2>4, <4>1 DEF Goes
    <3> DEFINE q == m \div p
    <3> HIDE DEF q, m, c
    <3>3. DividesOut(<<q, c + 1>>, p, n, k + 1)
      BY <2>1, <3>2 DEF DividesOut, q
    <3> QED BY <3>1, <3>3 DEF q
  <2> QED BY <2>3, <2>4
<1> HIDE DEF N
<1>12. Nat \subseteq N
  BY <1>10, <1>11, SetInduction
<1>13. DividesOut(F[n], p, n, n)
  BY <1>12 DEF N
<1> DEFINE m == F[n][1]
           c == F[n][2]
<1>14. m \in Nat /\ m # 0 /\ c \in Nat /\ n = m * Power(p, c) /\ (m % p = 0 => c = n)
  BY <1>13 DEF DividesOut
<1> HIDE DEF m, c
<1>15. m % p # 0
  <2> SUFFICES ASSUME m % p = 0 PROVE FALSE
    OBVIOUS
  <2> DEFINE q == Power(p, n)
  <2>1. q \in Nat /\ q > n /\ n = m * q
    BY <1>14, PowerIs, PowerGrows
  <2> HIDE DEF q
  <2>2. q <= m * q
    BY <1>14, <2>1, ProductsOfTwo
  <2> QED BY <2>1, <2>2
<1>16. c # 0
  <2> SUFFICES ASSUME c = 0 PROVE FALSE
    OBVIOUS
  <2>1. Power(p, c) = 1
    BY PowerIs
  <2>2. n = m
    BY <1>14, <2>1
  <2> QED BY <1>15, <2>2
<1> QED BY <1>8, <1>14, <1>15, <1>16 DEF m, c

\* Only composite numbers are crossed out.
LEMMA CrossedAre ==
  \A i \in Nat : \A x \in Crossed[i] : x \in {0, 1} \/ \E a, b \in Nat : a > 1 /\ b > 1 /\ x = a * b
<1> DEFINE more(i, s) == IF i < 2 THEN {0, 1} ELSE IF i \in s THEN s ELSE s \cup {i * j : j \in i .. Sieved \div i}
           whole(f) == [i \in Nat |-> IF i < 2 THEN {0, 1}
                                      ELSE IF i \in f[i - 1] THEN f[i - 1]
                                      ELSE f[i - 1] \cup {i * j : j \in i .. Sieved \div i}]
           S == SUBSET Nat
           step == [t \in Nat \X S |-> more(t[1], t[2])]
<1>0. Sieved \in Nat
  BY SievedAssumption
<1>1. \A i \in Nat, s \in S : more(i, s) \in S
  <2> TAKE i \in Nat, s \in S
  <2>1. ASSUME i >= 2, NEW j \in i .. Sieved \div i PROVE i * j \in Nat
    <3>1. Sieved \div i \in Int
      BY <1>0, <2>1
    <3>2. j \in Nat
      BY <3>1
    <3> QED BY <3>2, ProductsOfTwo
  <2> DEFINE new == {i * j : j \in i .. Sieved \div i}
  <2>2. i >= 2 => new \in S
    BY <2>1, Zenon
  <2> HIDE DEF new
  <2>3. (IF i < 2 THEN {0, 1} ELSE IF i \in s THEN s ELSE s \cup new) \in S
    <3>1. CASE i < 2
      BY <3>1
    <3>2. CASE i >= 2
      <4>1. s \cup new \in S
        BY <2>2, <3>2
      <4> QED BY <3>2, <4>1
    <3> QED BY <3>1, <3>2
  <2> QED BY <2>3 DEF new
<1>2. step \in [Nat \X S -> S] /\ {0, 1} \in S
  <2> HIDE DEF more
  <2> QED BY <1>1
<1>3. ASSUME NEW k \in Nat, NEW s \in S PROVE step[<<k, s>>] = more(k, s)
  <2> DEFINE t == <<k, s>>
  <2>1. t \in Nat \X S /\ t[1] = k /\ t[2] = s
    OBVIOUS
  <2> HIDE DEF t, more
  <2>2. step[t] = more(t[1], t[2])
    BY <2>1
  <2>3. more(t[1], t[2]) = more(k, s)
    BY <2>1
  <2> QED BY <2>2, <2>3 DEF t
<1> HIDE DEF step, S
<1>4. PICK f : Recursion(f, {0, 1}, step, Nat, S)
  BY <1>2, NatDownward, RecursionExists
<1>5. f = whole(f)
  <2>1. ASSUME NEW k \in Nat PROVE f[k] = whole(f)[k]
    <3>1. CASE k # 0
      <4>1. k - 1 \in Nat /\ f \in [Nat -> S]
        BY <1>4, <3>1 DEF Recursion
      <4>2. f[k - 1] \in S
        BY <4>1
      <4>3. step[<<k, f[k - 1]>>] = more(k, f[k - 1])
        <5> HIDE DEF more
        <5> QED BY <1>3, <4>2
      <4>4. f[k] = step[<<k, f[k - 1]>>]
        BY <1>4, <3>1 DEF Recursion
      <4>5. f[k] = more(k, f[k - 1])
        BY <4>3, <4>4
      <4> QED BY <4>5
    <3>2. CASE k = 0
      BY <1>4, <3>2 DEF Recursion
    <3> QED BY <3>1, <3>2
  <2>2. f \in [Nat -> S]
    BY <1>4 DEF Recursion
  <2> HIDE DEF whole
  <2>3. DOMAIN whole(f) = Nat /\ whole(f) = [i \in Nat |-> whole(f)[i]]
    BY DEF whole
  <2> QED BY <2>1, <2>2, <2>3
<1>6. Crossed = whole(Crossed)
  <2>1. (CHOOSE g : g = whole(g)) = whole(CHOOSE g : g = whole(g))
    <3> HIDE DEF whole
    <3> QED BY <1>5
  <2> QED BY <2>1 DEF Crossed
<1> DEFINE Right(s) == \A x \in s : x \in {0, 1} \/ \E a, b \in Nat : a > 1 /\ b > 1 /\ x = a * b
           N == {i \in Nat : Right(Crossed[i])}
<1>7. Crossed[0] = {0, 1} /\ \A i \in Nat : Crossed[i + 1] = more(i + 1, Crossed[i])
  <2>1. Crossed[0] = {0, 1}
    BY <1>6
  <2>2. ASSUME NEW i \in Nat PROVE Crossed[i + 1] = more(i + 1, Crossed[i])
    <3> DEFINE k == i + 1
    <3>1. k \in Nat /\ k - 1 = i
      OBVIOUS
    <3> HIDE DEF k
    <3>2. Crossed[k] = more(k, Crossed[k - 1])
      BY <1>6, <3>1
    <3> QED BY <3>1, <3>2 DEF k
  <2> HIDE DEF more
  <2> QED BY <2>1, <2>2
<1>8. 0 \in N
  BY <1>7
<1>9. ASSUME NEW i \in Nat, i \in N PROVE i + 1 \in N
  <2> DEFINE k == i + 1
  <2>1. k \in Nat /\ Crossed[k] = more(k, Crossed[i]) /\ Right(Crossed[i])
    <3>1. k \in Nat
      OBVIOUS
    <3> HIDE DEF more, Right
    <3>2. Crossed[k] = more(k, Crossed[i]) /\ Right(Crossed[i])
      BY <1>7, <1>9, Zenon
    <3> QED BY <3>1, <3>2
  <2> HIDE DEF k
  <2>2. ASSUME k >= 2, NEW x \in {k * j : j \in k .. Sieved \div k}
        PROVE  \E a, b \in Nat : a > 1 /\ b > 1 /\ x = a * b
    <3>1. PICK j \in k .. Sieved \div k : x = k * j
      BY <2>2
    <3>2. Sieved \div k \in Int
      BY <1>0, <2>1, <2>2
    <3>3. j \in Nat /\ j > 1
      BY <2>1, <2>2, <3>2
    <3>4. k \in Nat /\ j \in Nat /\ k > 1 /\ j > 1 /\ x = k * j
      BY <2>1, <2>2, <3>1, <3>3
    <3> QED BY <3>4, Zenon
  <2> DEFINE new == {k * j : j \in k .. Sieved \div k}
  <2>3. k >= 2 => Right(new)
    BY <2>2
  <2>4. Right({0, 1})
    OBVIOUS
  <2>5. more(k, Crossed[i]) = IF k < 2 THEN {0, 1} ELSE IF k \in Crossed[i] THEN Crossed[i] ELSE Crossed[i] \cup new
    OBVIOUS
  <2> HIDE DEF new, more
  <2>6. Right(more(k, Crossed[i]))
    <3>1. CASE k < 2
      BY <2>4, <2>5, <3>1
    <3>2. CASE k >= 2 /\ k \in Crossed[i]
      BY <2>1, <2>5, <3>2
    <3>3. CASE k >= 2 /\ k \notin Crossed[i]
      <4>1. Right(Crossed[i]) /\ Right(new) /\ more(k, Crossed[i]) = Crossed[i] \cup new
        BY <2>1, <2>3, <2>5, <3>3
      <4> QED BY <4>1
    <3> QED BY <2>1, <3>1, <3>2, <3>3
  <2> QED BY <2>1, <2>6 DEF k
<1> HIDE DEF N
<1>10. Nat \subseteq N
  BY <1>8, <1>9, SetInduction
<1> QED BY <1>10 DEF N

\* What prime_factoring() prints of one factor.
PrintedFactors == [factor : Nat \ {0}, power : Nat \ {0}, times : BOOLEAN]

\* f[k] is the product of the first k factors printed.
PartialProducts(text, f) ==
    /\ f \in [0 .. Len(text) -> Nat] /\ f[0] = 1
    /\ \A k \in 1 .. Len(text) : f[k] = f[k - 1] * Power(text[k].factor, text[k].power)

LEMMA PowerOfPrinted == ASSUME NEW e \in PrintedFactors PROVE Power(e.factor, e.power) \in Nat
BY PowerIs DEF PrintedFactors

LEMMA PartialProductsExist ==
  ASSUME NEW text \in Seq(PrintedFactors)
  PROVE  \E f : PartialProducts(text, f) /\ Product(text) = f[Len(text)]
<1> DEFINE n == Len(text)
           D == 0 .. n
           whole(f) == [k \in D |-> IF k = 0 THEN 1 ELSE f[k - 1] * Power(text[k].factor, text[k].power)]
           F == CHOOSE f : f = whole(f)
           step == [t \in D \X Nat |-> IF t[1] = 0 THEN 1 ELSE t[2] * Power(text[t[1]].factor, text[t[1]].power)]
           pow(k) == Power(text[k].factor, text[k].power)
<1>0. n \in Nat /\ \A k \in 1 .. n : text[k] \in PrintedFactors
  BY LenProperties, ElementOfSeq
<1>1. \A k \in 1 .. n : pow(k) \in Nat
  BY <1>0, PowerOfPrinted
<1>2. step \in [D \X Nat -> Nat]
  <2> SUFFICES ASSUME NEW k \in D, NEW m \in Nat PROVE (IF k = 0 THEN 1 ELSE m * pow(k)) \in Nat
    OBVIOUS
  <2> HIDE DEF pow
  <2>1. k # 0 => k \in 1 .. n
    BY <1>0
  <2>2. k # 0 => m * pow(k) \in Nat
    BY <1>1, <2>1, ProductsOfTwo
  <2> QED BY <2>2
<1>3. \A k \in D, m \in Nat : k # 0 => step[<<k, m>>] = m * pow(k)
  OBVIOUS
<1> HIDE DEF step
<1>4. PICK f : Recursion(f, 1, step, D, Nat)
  <2>1. Downward(D)
    BY <1>0, UptoDownward
  <2> HIDE DEF D
  <2> QED BY <1>2, <2>1, RecursionExists
<1>5. f = whole(f)
  <2>1. ASSUME NEW k \in D PROVE f[k] = IF k = 0 THEN 1 ELSE f[k - 1] * pow(k)
    <3> HIDE DEF pow
    <3>1. CASE k # 0
      <4>1. k - 1 \in D /\ f \in [D -> Nat]
        BY <1>0, <1>4, <3>1 DEF Recursion
      <4>2. f[k - 1] \in Nat
        BY <4>1
      <4>3. step[<<k, f[k - 1]>>] = f[k - 1] * pow(k)
        BY <1>3, <3>1, <4>2
      <4>4. f[k] = step[<<k, f[k - 1]>>]
        BY <1>4, <3>1 DEF Recursion
      <4> QED BY <3>1, <4>3, <4>4
    <3> QED BY <1>4, <3>1 DEF Recursion
  <2>2. f \in [D -> Nat]
    BY <1>4 DEF Recursion
  <2> HIDE DEF D
  <2> QED BY <2>1, <2>2
<1>6. F = whole(F)
  <2> HIDE DEF whole
  <2> QED BY <1>5
<1>7. Product(text) = F[n]
  BY DEF Product
<1> HIDE DEF F
<1>8. F[0] = 1 /\ \A k \in 1 .. n : F[k] = F[k - 1] * pow(k)
  <2>1. F[0] = 1
    BY <1>0, <1>6
  <2>2. ASSUME NEW k \in 1 .. n PROVE F[k] = F[k - 1] * pow(k)
    <3>1. k \in D /\ k # 0
      BY <1>0
    <3> QED BY <1>6, <3>1
  <2> QED BY <2>1, <2>2
<1>9. \A k \in D : F[k] \in Nat
  <2> DEFINE N == {k \in Nat : k <= n => F[k] \in Nat}
  <2>1. 0 \in N
    BY <1>8
  <2>2. ASSUME NEW k \in Nat, k \in N PROVE k + 1 \in N
    <3> SUFFICES ASSUME k + 1 <= n PROVE F[k + 1] \in Nat
      OBVIOUS
    <3> HIDE DEF pow
    <3> DEFINE j == k + 1
    <3>1. j \in 1 .. n /\ j - 1 = k /\ F[k] \in Nat
      BY <1>0, <2>2
    <3> HIDE DEF j
    <3>2. F[j] = F[j - 1] * pow(j) /\ pow(j) \in Nat
      BY <1>1, <1>8, <3>1
    <3>3. F[j] \in Nat
      BY <3>1, <3>2, ProductsOfTwo
    <3> QED BY <3>3 DEF j
  <2> HIDE DEF N
  <2>3. Nat \subseteq N
    BY <2>1, <2>2, SetInduction
  <2> QED BY <1>0, <2>3 DEF N
<1>10. F \in [D -> Nat]
  BY <1>6, <1>9
<1> QED BY <1>7, <1>8, <1>10 DEF PartialProducts

\* s and t are the same up to n.
SameUpto(s, t, n) ==
    Len(s) \in Nat /\ Len(t) \in Nat /\ n <= Len(s) /\ n <= Len(t) /\ \A k \in 1 .. n : s[k] = t[k]

LEMMA PartialProductsAgree ==
  ASSUME NEW s, NEW t, NEW f, NEW g, NEW n \in Nat, SameUpto(s, t, n), PartialProducts(s, f), PartialProducts(t, g)
  PROVE  f[n] = g[n]
<1> DEFINE N == {k \in Nat : k <= n => f[k] = g[k]}
<1>1. 0 \in N
  BY DEF PartialProducts
<1>2. ASSUME NEW k \in Nat, k \in N PROVE k + 1 \in N
  <2> SUFFICES ASSUME k + 1 <= n PROVE f[k + 1] = g[k + 1]
    OBVIOUS
  <2> DEFINE j == k + 1
  <2>1. j \in 1 .. n /\ j \in 1 .. Len(s) /\ j \in 1 .. Len(t) /\ j - 1 = k /\ f[k] = g[k]
    BY <1>2 DEF SameUpto
  <2> HIDE DEF j
  <2>2. f[j] = f[j - 1] * Power(s[j].factor, s[j].power) /\ g[j] = g[j - 1] * Power(t[j].factor, t[j].power)
    BY <2>1 DEF PartialProducts
  <2>3. s[j] = t[j]
    BY <2>1 DEF SameUpto
  <2> QED BY <2>1, <2>2, <2>3 DEF j
<1> HIDE DEF N
<1>3. Nat \subseteq N
  BY <1>1, <1>2, SetInduction
<1> QED BY <1>3 DEF N

LEMMA NothingPrinted == Product(<<>>) = 1
<1>1. <<>> \in Seq(PrintedFactors) /\ Len(<<>>) = 0
  BY EmptySeq
<1> DEFINE t == <<>>
<1> HIDE DEF t
<1>2. t \in Seq(PrintedFactors) /\ Len(t) = 0
  BY <1>1 DEF t
<1>3. PICK f : PartialProducts(t, f) /\ Product(t) = f[Len(t)]
  BY <1>2, PartialProductsExist
<1>4. Product(t) = 1
  BY <1>2, <1>3 DEF PartialProducts
<1> QED BY <1>4 DEF t

LEMMA OneMorePrinted ==
  ASSUME NEW text \in Seq(PrintedFactors), NEW e \in PrintedFactors
  PROVE  Product(text) \in Nat /\ Product(Append(text, e)) = Product(text) * Power(e.factor, e.power)
<1> DEFINE t == Append(text, e)
           n == Len(text)
           m == n + 1
<1>1. /\ t \in Seq(PrintedFactors) /\ n \in Nat /\ m \in Nat /\ Len(t) = m /\ t[m] = e /\ m - 1 = n
      /\ n <= Len(t) /\ \A k \in 1 .. n : text[k] = t[k]
  BY AppendProperties, LenProperties
<1>2. PICK f : PartialProducts(text, f) /\ Product(text) = f[n]
  BY PartialProductsExist
<1> HIDE DEF t
<1>3. PICK g : PartialProducts(t, g) /\ Product(t) = g[Len(t)]
  BY <1>1, PartialProductsExist
<1> HIDE DEF n, m
<1>4. Len(text) = n
  BY DEF n
<1>5. SameUpto(text, t, n)
  BY <1>1, <1>4 DEF SameUpto
<1>6. f[n] = g[n]
  BY <1>1, <1>2, <1>3, <1>5, PartialProductsAgree
<1>7. m \in 1 .. Len(t) /\ n \in 0 .. Len(text)
  BY <1>1, <1>4 DEF m
<1>8. g[m] = g[m - 1] * Power(t[m].factor, t[m].power)
  BY <1>3, <1>7 DEF PartialProducts
<1>9. f[n] \in Nat
  BY <1>2, <1>7 DEF PartialProducts
<1> QED BY <1>1, <1>2, <1>3, <1>6, <1>8, <1>9 DEF t

\* A number with a proper divisor.
HasDivisor(n) == \E d \in 2 .. n - 1 : n % d = 0

\* What prime_factoring() has left of n and printed, when every p so far is tried.
Found(s, p, n) ==
    /\ s \in [num : Nat \ {0}, text : Seq(PrintedFactors)]
    /\ n = Product(s.text) * s.num
    /\ n = 1 => s.text = <<>>
    /\ \A k \in 1 .. Len(s.text) : /\ s.text[k].factor \in 2 .. p /\ ~HasDivisor(s.text[k].factor)
                                   /\ s.text[k].times <=> k > 1
    /\ \A j, k \in 1 .. Len(s.text) : j < k => s.text[j].factor < s.text[k].factor
    /\ \A d \in 2 .. p : s.num % d # 0

\* A number that is not a prime of the sieve has a smaller divisor.
LEMMA NotPrimeIs ==
  ASSUME NEW p \in 2 .. Sieved, ~Prime(p)
  PROVE  \E a \in 2 .. p - 1 : p % a = 0
<1>1. Sieved \in Nat /\ p \in Nat
  BY SievedAssumption
<1>2. p \in Crossed[Root]
  BY DEF Prime
<1>3. Root \in Nat
  <2> DEFINE R(r) == r * r <= Sieved /\ (r + 1) * (r + 1) > Sieved
             N == {r \in Nat : r * r <= Sieved}
  <2>1. ~(Nat \subseteq N)
    <3> SUFFICES ASSUME Nat \subseteq N PROVE FALSE
      OBVIOUS
    <3> DEFINE q == Sieved + 1
    <3>1. q \in N /\ q \in Nat /\ q # 0 /\ q > Sieved
      BY <1>1
    <3>2. q * q <= Sieved /\ q <= q * q /\ q * q \in Nat
      BY <3>1, ProductsOfTwo
    <3> HIDE DEF q
    <3> QED BY <1>1, <3>1, <3>2
  <2>2. 0 \in N
    BY <1>1
  <2>3. PICK r \in Nat : r \in N /\ r + 1 \notin N
    <3> HIDE DEF N
    <3> QED BY <2>1, <2>2, SetInduction
  <2>4. r * r \in Nat /\ (r # 0 => r <= r * r) /\ (r + 1) * (r + 1) \in Nat
    BY ProductsOfTwo
  <2>5. r \in 0 .. Sieved /\ R(r)
    BY <1>1, <2>3, <2>4
  <2>6. Root \in 0 .. Sieved
    <3> HIDE DEF R
    <3>1. (CHOOSE x \in 0 .. Sieved : R(x)) \in 0 .. Sieved
      BY <2>5
    <3> QED BY <3>1 DEF Root, R
  <2> QED BY <1>1, <2>6
<1>4. PICK a, b \in Nat : a > 1 /\ b > 1 /\ p = a * b
  BY <1>1, <1>2, <1>3, CrossedAre
<1>5. a * b = b * a /\ a < b * a
  BY <1>4, ProductsOfTwo
<1>6. a \in 2 .. p - 1
  BY <1>1, <1>4, <1>5
<1>7. p % a = 0
  BY <1>1, <1>4, Dividing
<1> QED BY <1>6, <1>7

\* Trying one more p.
LEMMA OneTried ==
  ASSUME NEW n \in Nat, NEW p \in 1 .. Sieved, NEW s, Found(s, p - 1, n)
  PROVE  Found(Try(s, p), p, n)
<1> DEFINE m == s.num
           text == s.text
<1>0. Sieved \in Nat /\ p \in Nat /\ p - 1 \in Nat /\ 2 .. p - 1 \subseteq 2 .. p
  BY SievedAssumption
<1>1. m \in Nat /\ m # 0 /\ text \in Seq(PrintedFactors) /\ s = [num |-> m, text |-> text]
  BY DEF Found
<1>2. CASE ~Prime(p) \/ p > m \/ m % p # 0
  <2>1. Try(s, p) = s
    BY <1>2 DEF Try
  <2>2. p > 1 => m % p # 0
    <3> SUFFICES ASSUME p > 1, m % p = 0 PROVE FALSE
      OBVIOUS
    <3>1. CASE p > m
      <4>1. m % p = m
        BY <1>0, <1>1, <3>1
      <4> QED BY <1>1, <3>1, <4>1
    <3>2. CASE ~Prime(p)
      <4>1. p \in 2 .. Sieved
        BY <1>0
      <4>2. PICK a \in 2 .. p - 1 : p % a = 0
        BY <3>2, <4>1, NotPrimeIs
      <4>3. a \in Nat \ {0}
        BY <1>0
      <4>4. PICK e \in Nat : m = p * e
        <5>1. m \in Nat /\ p \in Nat \ {0} /\ m % p = 0
          BY <1>0, <1>1
        <5> HIDE DEF m
        <5> QED BY <5>1, Dividing
      <4>5. m % a = 0
        BY <1>0, <1>1, <4>2, <4>3, <4>4, DividesOn
      <4> QED BY <1>1, <4>5 DEF Found
    <3> QED BY <1>2, <3>1, <3>2
  <2>3. \A d \in 2 .. p : m % d # 0
    <3> SUFFICES ASSUME NEW d \in 2 .. p, d # p PROVE m % d # 0
      BY <1>0, <2>2
    <3>1. d \in 2 .. p - 1
      BY <1>0
    <3> QED BY <3>1 DEF Found
  <2>4. \A k \in 1 .. Len(text) : text[k].factor \in 2 .. p
    BY <1>0 DEF Found
  <2> QED BY <2>1, <2>3, <2>4 DEF Found
<1>3. CASE Prime(p) /\ p <= m /\ m % p = 0
  <2>1. p > 1
    BY <1>0, <1>3 DEF Prime
  <2> DEFINE q == Divide(p, m)[1]
             c == Divide(p, m)[2]
             e == [factor |-> p, power |-> c, times |-> text # <<>>]
             t == Append(text, e)
             l == Len(text)
  <2>2. q \in Nat /\ q # 0 /\ c \in Nat /\ c # 0 /\ m = q * Power(p, c) /\ q % p # 0
    BY <1>0, <1>1, <1>3, <2>1, DivideIs
  <2>3. Try(s, p) = [num |-> q, text |-> t]
    BY <1>0, <1>1, <1>3 DEF Try
  <2> HIDE DEF q, c
  <2>4. e \in PrintedFactors
    BY <1>0, <2>1, <2>2 DEF PrintedFactors
  <2>5. e.factor = p /\ e.power = c /\ (e.times <=> text # <<>>)
    OBVIOUS
  <2> HIDE DEF e
  <2>6. /\ t \in Seq(PrintedFactors) /\ l \in Nat /\ Len(t) = l + 1 /\ t[l + 1] = e
        /\ \A k \in 1 .. l : t[k] = text[k]
    BY <1>1, <2>4, AppendProperties, LenProperties
  <2>7. n = Product(t) * q
    <3>1. Product(text) \in Nat /\ Product(t) = Product(text) * Power(p, c)
      BY <1>1, <2>4, <2>5, OneMorePrinted
    <3>2. n = Product(text) * m
      BY DEF Found
    <3> DEFINE x == Product(text)
               y == Power(p, c)
               z == Product(t)
    <3>3. x \in Nat /\ y \in Nat /\ z = x * y /\ m = q * y /\ n = x * m
      BY <1>0, <2>2, <3>1, <3>2, PowerIs
    <3> HIDE DEF x, y, z, m
    <3>4. n = x * (y * q)
      BY <2>2, <3>3, ProductsOfTwo
    <3>5. n = z * q
      BY <2>2, <3>3, <3>4, ProductsAssociate
    <3> QED BY <3>5 DEF z
  <2> DEFINE w == Power(p, c)
  <2>8. w \in Nat
    BY <1>0, <2>2, PowerIs
  <2>9. \A d \in 2 .. p : q % d # 0
    <3> SUFFICES ASSUME NEW d \in 2 .. p, d # p, q % d = 0 PROVE FALSE
      BY <2>2
    <3>1. d \in 2 .. p - 1 /\ d \in Nat \ {0}
      BY <1>0
    <3>2. m = q * w
      BY <2>2
    <3> HIDE DEF m, w
    <3>3. m % d = 0
      BY <1>1, <2>2, <2>8, <3>1, <3>2, DividesOn
    <3> QED BY <3>1, <3>3 DEF Found, m
  <2>10. ~HasDivisor(p)
    <3> SUFFICES ASSUME NEW d \in 2 .. p - 1, p % d = 0 PROVE FALSE
      BY DEF HasDivisor
    <3>1. PICK x \in Nat : m = p * x
      BY <1>0, <1>1, <1>3, <2>1, Dividing
    <3>2. d \in Nat \ {0}
      BY <1>0
    <3>3. m % d = 0
      BY <1>0, <1>1, <3>1, <3>2, DividesOn
    <3> QED BY <3>3 DEF Found
  <2>11. n # 1
    <3> SUFFICES ASSUME n = 1 PROVE FALSE
      OBVIOUS
    <3>1. text = <<>> /\ n = Product(text) * m
      BY DEF Found
    <3>2. n = 1 * m
      BY <3>1, NothingPrinted
    <3> QED BY <1>1, <1>3, <2>1, <1>0, <3>2
  <2>12. text # <<>> <=> l + 1 > 1
    BY <1>1, <2>6, EmptySeq, LenProperties
  <2>13. \A k \in 1 .. l + 1 : t[k].factor \in 2 .. p /\ ~HasDivisor(t[k].factor) /\ (t[k].times <=> k > 1)
    <3> SUFFICES ASSUME NEW k \in 1 .. l + 1
                 PROVE  t[k].factor \in 2 .. p /\ ~HasDivisor(t[k].factor) /\ (t[k].times <=> k > 1)
      OBVIOUS
    <3>1. CASE k = l + 1
      BY <1>0, <2>1, <2>5, <2>6, <2>10, <2>12, <3>1
    <3>2. CASE k \in 1 .. l
      <4>1. t[k] = text[k]
        BY <2>6, <3>2
      <4>2. text[k].factor \in 2 .. p - 1 /\ ~HasDivisor(text[k].factor) /\ (text[k].times <=> k > 1)
        BY <3>2 DEF Found
      <4>3. text[k].factor \in 2 .. p
        BY <1>0, <4>2
      <4> QED BY <4>1, <4>2, <4>3
    <3> QED BY <2>6, <3>1, <3>2
  <2>14. \A j, k \in 1 .. l + 1 : j < k => t[j].factor < t[k].factor
    <3> SUFFICES ASSUME NEW j \in 1 .. l + 1, NEW k \in 1 .. l + 1, j < k PROVE t[j].factor < t[k].factor
      OBVIOUS
    <3>1. j \in 1 .. l /\ t[j] = text[j] /\ text[j].factor \in 2 .. p - 1
      BY <2>6 DEF Found
    <3>2. CASE k = l + 1
      <4>1. t[k].factor = p
        BY <2>5, <2>6, <3>2
      <4> QED BY <1>0, <3>1, <4>1
    <3>3. CASE k \in 1 .. l
      <4>1. t[k] = text[k] /\ text[j].factor < text[k].factor
        BY <2>6, <3>1, <3>3 DEF Found
      <4> QED BY <3>1, <4>1
    <3> QED BY <2>6, <3>2, <3>3
  <2> DEFINE u == [num |-> q, text |-> t]
  <2> HIDE DEF t, l
  <2>15. u \in [num : Nat \ {0}, text : Seq(PrintedFactors)] /\ u.num = q /\ u.text = t
    BY <2>2, <2>6
  <2> HIDE DEF u
  <2>16. Found(u, p, n)
    BY <2>6, <2>7, <2>9, <2>11, <2>13, <2>14, <2>15 DEF Found
  <2> QED BY <2>3, <2>16 DEF u, t
<1> QED BY <1>0, <1>1, <1>2, <1>3

LEMMA TryTyped ==
  ASSUME NEW p \in Nat, NEW s \in [num : Nat \ {0}, text : Seq(PrintedFactors)]
  PROVE  Try(s, p) \in [num : Nat \ {0}, text : Seq(PrintedFactors)]
<1> DEFINE m == s.num
<1>1. CASE ~Prime(p) \/ p > m \/ m % p # 0
  <2>1. Try(s, p) = s
    BY <1>1 DEF Try
  <2> QED BY <2>1
<1>2. CASE Prime(p) /\ p <= m /\ m % p = 0
  <2>1. p > 1
    BY <1>2, SievedAssumption DEF Prime
  <2> DEFINE q == Divide(p, m)[1]
             c == Divide(p, m)[2]
             e == [factor |-> p, power |-> c, times |-> s.text # <<>>]
  <2>2. q \in Nat /\ q # 0 /\ c \in Nat /\ c # 0
    <3>1. m \in Nat /\ m # 0
      OBVIOUS
    <3> HIDE DEF m
    <3> QED BY <1>2, <2>1, <3>1, DivideIs
  <2>3. ~(~Prime(p) \/ p > s.num \/ s.num % p # 0)
    BY <1>2
  <2>4. Try(s, p) = [num |-> q, text |-> Append(s.text, e)]
    BY <2>3 DEF Try
  <2> HIDE DEF q, c, m
  <2>5. e \in PrintedFactors
    BY <2>1, <2>2 DEF PrintedFactors
  <2> HIDE DEF e
  <2>6. Append(s.text, e) \in Seq(PrintedFactors)
    BY <2>5, AppendProperties
  <2> QED BY <2>2, <2>4, <2>6
<1>3. m \in Nat
  OBVIOUS
<1> QED BY <1>1, <1>2, <1>3

\* What is left at the end of the sieve, and what Factoring() makes of it.
LEMMA AllTried ==
  ASSUME NEW n \in Nat \ {0}
  PROVE  \E s : /\ Found(s, Sieved, n)
                /\ Factoring(n) = IF s.num # 1 \/ n = 1
                                  THEN Append(s.text, [factor |-> s.num, power |-> 1, times |-> FALSE]) ELSE s.text
<1> DEFINE S == [num : Nat \ {0}, text : Seq(PrintedFactors)]
           first == [num |-> n, text |-> <<>>]
           whole(f) == [p \in Nat |-> IF p = 0 THEN first ELSE Try(f[p - 1], p)]
           F == CHOOSE f : f = whole(f)
           step == [t \in Nat \X S |-> Try(t[2], t[1])]
<1>0. Sieved \in Nat
  BY SievedAssumption
<1>1. \A p \in Nat, s \in S : Try(s, p) \in S
  BY TryTyped
<1>2. first \in S /\ first.num = n /\ first.text = <<>>
  BY EmptySeq
<1> HIDE DEF S
<1>3. step \in [Nat \X S -> S]
  BY <1>1
<1>4. \A p \in Nat, s \in S : step[<<p, s>>] = Try(s, p)
  OBVIOUS
<1> HIDE DEF step, first
<1>5. PICK f : Recursion(f, first, step, Nat, S)
  BY <1>2, <1>3, NatDownward, RecursionExists
<1>6. f = whole(f)
  <2>1. ASSUME NEW p \in Nat PROVE f[p] = IF p = 0 THEN first ELSE Try(f[p - 1], p)
    <3>1. CASE p # 0
      <4>1. p - 1 \in Nat /\ f \in [Nat -> S]
        BY <1>5, <3>1 DEF Recursion
      <4>2. f[p - 1] \in S
        BY <4>1
      <4>3. step[<<p, f[p - 1]>>] = Try(f[p - 1], p)
        BY <1>4, <4>2
      <4>4. f[p] = step[<<p, f[p - 1]>>]
        BY <1>5, <3>1 DEF Recursion
      <4> QED BY <3>1, <4>3, <4>4
    <3> QED BY <1>5, <3>1 DEF Recursion
  <2>2. f \in [Nat -> S]
    BY <1>5 DEF Recursion
  <2> QED BY <2>1, <2>2
<1>7. F = whole(F)
  <2> HIDE DEF whole
  <2> QED BY <1>6
<1>8. Factoring(n) = IF F[Sieved].num # 1 \/ n = 1
                     THEN Append(F[Sieved].text, [factor |-> F[Sieved].num, power |-> 1, times |-> FALSE])
                     ELSE F[Sieved].text
  BY DEF Factoring, first
<1> HIDE DEF F
<1> DEFINE N == {p \in Nat : p <= Sieved => Found(F[p], p, n)}
<1>9. 0 \in N
  <2>1. F[0] = first
    BY <1>7
  <2>2. 2 .. 0 = {} /\ Len(<<>>) = 0 /\ 1 .. 0 = {} /\ n = 1 * n
    BY EmptySeq
  <2>3. first \in [num : Nat \ {0}, text : Seq(PrintedFactors)]
    BY <1>2 DEF S
  <2>4. Found(first, 0, n)
    BY <1>2, <2>2, <2>3, NothingPrinted DEF Found
  <2> QED BY <2>1, <2>4
<1>10. ASSUME NEW p \in Nat, p \in N PROVE p + 1 \in N
  <2> SUFFICES ASSUME p + 1 <= Sieved PROVE Found(F[p + 1], p + 1, n)
    OBVIOUS
  <2> DEFINE q == p + 1
  <2>1. q \in 1 .. Sieved /\ q \in Nat /\ q # 0 /\ q - 1 = p /\ Found(F[p], p, n)
    BY <1>0, <1>10
  <2> HIDE DEF q
  <2>2. Found(F[q - 1], q - 1, n) /\ F[q] = Try(F[q - 1], q)
    BY <1>7, <2>1
  <2> DEFINE s == F[q - 1]
  <2>3. Found(Try(s, q), q, n)
    <3> HIDE DEF s
    <3>1. Found(s, q - 1, n)
      BY <2>2 DEF s
    <3> QED BY <2>1, <3>1, OneTried
  <2> QED BY <2>2, <2>3 DEF q
<1> HIDE DEF N
<1>11. Nat \subseteq N
  BY <1>9, <1>10, SetInduction
<1>12. Found(F[Sieved], Sieved, n)
  BY <1>0, <1>11 DEF N
<1> QED BY <1>8, <1>12

\* What Factorised says, of a number and of what is printed for it.
RightFactors(n, text) ==
    /\ text \in Seq(PrintedFactors)
    /\ Product(text) = n
    /\ \A j, k \in 1 .. Len(text) : j < k => text[j].factor < text[k].factor
    /\ \A k \in 1 .. Len(text) : \A d \in 2 .. Sieved : d < text[k].factor => text[k].factor % d # 0
    /\ \A k \in 1 .. Len(text) : text[k].factor <= Sieved => (text[k].times <=> k > 1)

\* A factor without a divisor has none within the sieve either.
LEMMA NoDivisorBelow ==
  ASSUME NEW q \in Nat, ~HasDivisor(q), NEW d \in 2 .. Sieved, d < q
  PROVE  q % d # 0
<1>1. d \in 2 .. q - 1
  BY SievedAssumption
<1> QED BY <1>1 DEF HasDivisor

LEMMA FactoringIs ==
  ASSUME NEW n \in Nat \ {0}
  PROVE  RightFactors(n, Factoring(n))
<1>0. Sieved \in Nat /\ Sieved > 1
  BY SievedAssumption
<1>1. PICK s : /\ Found(s, Sieved, n)
               /\ Factoring(n) = IF s.num # 1 \/ n = 1
                                 THEN Append(s.text, [factor |-> s.num, power |-> 1, times |-> FALSE]) ELSE s.text
  BY AllTried
<1> DEFINE m == s.num
           text == s.text
           l == Len(text)
           e == [factor |-> m, power |-> 1, times |-> FALSE]
           t == Append(text, e)
<1>2. m \in Nat /\ m # 0 /\ text \in Seq(PrintedFactors) /\ l \in Nat /\ n = Product(text) * m
  BY <1>1, LenProperties DEF Found
<1>3. \A k \in 1 .. l : /\ text[k].factor \in 2 .. Sieved /\ ~HasDivisor(text[k].factor)
                        /\ text[k].times <=> k > 1
  BY <1>1 DEF Found
<1>4. \A j, k \in 1 .. l : j < k => text[j].factor < text[k].factor
  BY <1>1 DEF Found
<1>7. \A k \in 1 .. l : \A d \in 2 .. Sieved : d < text[k].factor => text[k].factor % d # 0
  <2> SUFFICES ASSUME NEW k \in 1 .. l, NEW d \in 2 .. Sieved, d < text[k].factor PROVE text[k].factor % d # 0
    OBVIOUS
  <2>1. text[k].factor \in Nat /\ ~HasDivisor(text[k].factor)
    BY <1>0, <1>3
  <2> QED BY <2>1, NoDivisorBelow
<1>5. CASE ~(m # 1 \/ n = 1)
  <2>1. Factoring(n) = text
    BY <1>1, <1>5
  <2>2. Product(text) \in Nat
    BY <1>2, PartialProductsExist, <1>0 DEF PartialProducts
  <2>3. Product(text) = n
    BY <1>2, <1>5, <2>2
  <2> QED BY <1>2, <1>3, <1>4, <1>7, <2>1, <2>3 DEF RightFactors
<1>6. CASE m # 1 \/ n = 1
  <2>1. Factoring(n) = t
    BY <1>1, <1>6
  <2>2. e \in PrintedFactors /\ e.factor = m /\ e.power = 1 /\ e.times = FALSE
    BY <1>2 DEF PrintedFactors
  <2> HIDE DEF e
  <2>3. /\ t \in Seq(PrintedFactors) /\ Len(t) = l + 1 /\ t[l + 1] = e /\ \A k \in 1 .. l : t[k] = text[k]
    BY <1>2, <2>2, AppendProperties
  <2>4. Product(t) = n
    <3>1. Product(t) = Product(text) * Power(m, 1)
      BY <1>2, <2>2, OneMorePrinted
    <3>2. Power(m, 0 + 1) = m * Power(m, 0) /\ Power(m, 0) = 1
      BY <1>2, PowerIs
    <3>3. Power(m, 1) = m
      BY <1>2, <3>2
    <3> QED BY <1>2, <3>1, <3>3
  <2>5. n # 1 => m > Sieved
    <3> SUFFICES ASSUME n # 1, m <= Sieved PROVE FALSE
      BY <1>0, <1>2
    <3>1. m \in 2 .. Sieved /\ m % m = 0
      BY <1>0, <1>2, <1>6
    <3> QED BY <1>1, <3>1 DEF Found
  <2>6. n = 1 => l = 0 /\ m = 1
    <3> SUFFICES ASSUME n = 1 PROVE l = 0 /\ m = 1
      OBVIOUS
    <3>1. text = <<>>
      BY <1>1 DEF Found
    <3>2. Product(text) = 1 /\ l = 0
      BY <3>1, NothingPrinted, EmptySeq
    <3> QED BY <1>2, <3>2
  <2>7. \A d \in 2 .. Sieved : d < m => m % d # 0
    <3>1. CASE n = 1
      BY <2>6, <3>1
    <3>2. CASE n # 1
      BY <1>1, <3>2 DEF Found
    <3> QED BY <3>1, <3>2
  <2>8. \A k \in 1 .. l + 1 : t[k].factor <= Sieved => (t[k].times <=> k > 1)
    <3> SUFFICES ASSUME NEW k \in 1 .. l + 1, t[k].factor <= Sieved PROVE t[k].times <=> k > 1
      OBVIOUS
    <3>1. CASE k = l + 1
      <4>1. t[k].times = FALSE /\ t[k].factor = m
        BY <2>2, <2>3, <3>1
      <4>2. l = 0
        BY <2>5, <2>6, <4>1, <1>0, <1>2
      <4> QED BY <3>1, <4>1, <4>2
    <3>2. CASE k \in 1 .. l
      <4>1. t[k] = text[k] /\ (text[k].times <=> k > 1)
        BY <1>3, <2>3, <3>2
      <4> QED BY <4>1
    <3> QED BY <1>2, <3>1, <3>2
  <2>9. \A k \in 1 .. l + 1 : \A d \in 2 .. Sieved : d < t[k].factor => t[k].factor % d # 0
    <3> SUFFICES ASSUME NEW k \in 1 .. l + 1
                 PROVE  \A d \in 2 .. Sieved : d < t[k].factor => t[k].factor % d # 0
      OBVIOUS
    <3>1. CASE k = l + 1
      <4>1. t[k].factor = m
        BY <2>2, <2>3, <3>1
      <4> QED BY <2>7, <4>1
    <3>2. CASE k \in 1 .. l
      <4>1. t[k] = text[k]
        BY <2>3, <3>2
      <4> QED BY <1>7, <3>2, <4>1
    <3> QED BY <1>2, <3>1, <3>2
  <2>10. \A j, k \in 1 .. l + 1 : j < k => t[j].factor < t[k].factor
    <3> SUFFICES ASSUME NEW j \in 1 .. l + 1, NEW k \in 1 .. l + 1, j < k PROVE t[j].factor < t[k].factor
      OBVIOUS
    <3>1. j \in 1 .. l /\ t[j] = text[j] /\ text[j].factor \in 2 .. Sieved
      BY <1>2, <1>3, <2>3
    <3>2. CASE k = l + 1
      <4>1. t[k].factor = m /\ n # 1
        BY <1>2, <2>2, <2>3, <2>6, <3>1, <3>2
      <4> QED BY <1>0, <1>2, <2>5, <3>1, <4>1
    <3>3. CASE k \in 1 .. l
      <4>1. t[k] = text[k] /\ text[j].factor < text[k].factor
        BY <1>4, <2>3, <3>1, <3>3
      <4> QED BY <3>1, <4>1
    <3> QED BY <1>2, <3>2, <3>3
  <2> HIDE DEF t, l
  <2> QED BY <2>1, <2>3, <2>4, <2>8, <2>9, <2>10 DEF RightFactors
<1> QED BY <1>5, <1>6

-----------------------------------------------------------------------------
(* grep *)

\* A set of numbers up to n has a greatest one.
LEMMA GreatestIs ==
  ASSUME NEW n \in Nat, NEW T \in SUBSET (0 .. n), T # {}
  PROVE  Max(T) \in T /\ \A y \in T : Max(T) >= y
<1> DEFINE N == {k \in Nat : (\E x \in T : x + k >= n) => \E x \in T : \A y \in T : x >= y}
<1>1. 0 \in N
  OBVIOUS
<1>2. ASSUME NEW k \in Nat, k \in N PROVE k + 1 \in N
  <2> SUFFICES ASSUME NEW x \in T, x + (k + 1) >= n, ~\E z \in T : z > x PROVE \E z \in T : \A y \in T : z >= y
    <3> SUFFICES ASSUME NEW x \in T, x + (k + 1) >= n PROVE \E z \in T : \A y \in T : z >= y
      OBVIOUS
    <3>1. CASE \E z \in T : z > x
      <4>1. PICK z \in T : z > x
        BY <3>1
      <4>2. z + k >= n
        BY <4>1
      <4> QED BY <1>2, <4>2
    <3> QED BY <3>1
  <2>1. \A y \in T : x >= y
    OBVIOUS
  <2> QED BY <2>1
<1> HIDE DEF N
<1>3. n \in N
  BY <1>1, <1>2, SetInduction
<1>4. PICK x \in T : \A y \in T : x >= y
  <2>1. PICK x \in T : TRUE
    OBVIOUS
  <2>2. x + n >= n
    BY <2>1
  <2>3. (\E z \in T : z + n >= n) => \E z \in T : \A y \in T : z >= y
    BY <1>3 DEF N
  <2> QED BY <2>2, <2>3
<1> QED BY <1>4 DEF Max

\* Whether the pattern is somewhere in the line.
OccursIn(pattern, line) ==
    \E a \in 0 .. Len(line) - Len(pattern) : \A k \in DOMAIN pattern : line[a + k] = pattern[k]

LEMMA FindMatchIs ==
  ASSUME NEW pattern \in Seq(STRING), NEW line \in Seq(STRING)
  PROVE  FindMatch(pattern, line) <=> OccursIn(pattern, line)
<1> DEFINE n == Len(pattern)
           m == Len(line)
           same(i) == {j \in 0 .. n : i + j - 1 <= m /\ \A k \in 1 .. j : pattern[k] = line[i + k - 1]}
<1>1. n \in Nat /\ m \in Nat /\ DOMAIN pattern = 1 .. n /\ DOMAIN line = 1 .. m
  BY LenProperties
<1>2. ASSUME NEW i \in 1 .. m PROVE Agree(pattern, line, i) = n <=> n \in same(i)
  <2>1. 0 \in same(i) /\ same(i) \in SUBSET (0 .. n)
    BY <1>1
  <2>2. Agree(pattern, line, i) = Max(same(i))
    BY DEF Agree
  <2> HIDE DEF same
  <2> DEFINE T == same(i)
  <2>3. T \in SUBSET (0 .. n) /\ T # {}
    BY <2>1
  <2> HIDE DEF T
  <2>4. Max(T) \in T /\ \A y \in T : Max(T) >= y
    BY <1>1, <2>3, GreatestIs
  <2>5. Max(T) = n <=> n \in T
    <3> DEFINE x == Max(T)
    <3>1. x \in T /\ x \in 0 .. n
      BY <2>3, <2>4
    <3>2. n \in T => x >= n
      BY <2>4
    <3> HIDE DEF x
    <3>3. x = n <=> n \in T
      <4> HIDE DEF n
      <4> QED BY <1>1, <3>1, <3>2
    <3> QED BY <3>3 DEF x
  <2> QED BY <2>2, <2>5 DEF T
<1>3. pattern = <<>> <=> n = 0
  BY EmptySeq
<1>4. CASE pattern = <<>>
  <2>1. 0 \in 0 .. m - n /\ DOMAIN pattern = {}
    BY <1>1, <1>3, <1>4
  <2> QED BY <1>4, <2>1 DEF FindMatch, OccursIn
<1>5. CASE pattern # <<>>
  <2>1. n >= 1
    BY <1>1, <1>3, <1>5
  <2>2. ASSUME NEW i \in 1 .. m, pattern[1] = line[i], Agree(pattern, line, i) = n PROVE OccursIn(pattern, line)
    <3> DEFINE a == i - 1
    <3>1. n \in same(i)
      BY <1>2, <2>2
    <3>2. a \in 0 .. m - n
      BY <1>1, <3>1
    <3>3. \A k \in 1 .. n : line[a + k] = pattern[k]
      <4> TAKE k \in 1 .. n
      <4>1. pattern[k] = line[i + k - 1]
        BY <3>1
      <4>2. i + k - 1 = a + k
        BY <1>1
      <4> QED BY <4>1, <4>2
    <3> HIDE DEF a
    <3> QED BY <1>1, <3>2, <3>3 DEF OccursIn
  <2>3. ASSUME NEW a \in 0 .. m - n, \A k \in 1 .. n : line[a + k] = pattern[k]
        PROVE  \E i \in 1 .. m : pattern[1] = line[i] /\ Agree(pattern, line, i) = n
    <3> DEFINE i == a + 1
    <3>1. i \in 1 .. m /\ i + n - 1 <= m
      BY <1>1, <2>1
    <3>2. \A k \in 1 .. n : pattern[k] = line[i + k - 1]
      <4> TAKE k \in 1 .. n
      <4>1. i + k - 1 = a + k
        BY <1>1
      <4> QED BY <2>3, <4>1
    <3>3. n \in same(i)
      BY <1>1, <3>1, <3>2
    <3>4. pattern[1] = line[i]
      BY <1>1, <2>1, <2>3
    <3> HIDE DEF i, same
    <3>5. Agree(pattern, line, i) = n
      BY <1>2, <3>1, <3>3
    <3> QED BY <3>1, <3>4, <3>5
  <2>4. OccursIn(pattern, line) <=> \E a \in 0 .. m - n : \A k \in 1 .. n : line[a + k] = pattern[k]
    BY <1>1 DEF OccursIn
  <2>5. FindMatch(pattern, line) <=> \E i \in 1 .. m : pattern[1] = line[i] /\ Agree(pattern, line, i) = n
    BY <1>1, <1>5 DEF FindMatch
  <2> QED BY <2>2, <2>3, <2>4, <2>5
<1> QED BY <1>4, <1>5

\* at says where the lines of s are among the first k: those that match.
Selected(s, at, pattern, lines, k) ==
    /\ at \in [1 .. Len(s) -> 1 .. k]
    /\ \A i, j \in 1 .. Len(s) : i < j => at[i] < at[j]
    /\ \A j \in 1 .. Len(s) : s[j] = lines[at[j]]
    /\ \A i \in 1 .. k : FindMatch(pattern, lines[i]) <=> \E j \in 1 .. Len(s) : at[j] = i

LEMMA OneMoreRead ==
  ASSUME NEW L, NEW s \in Seq(L), NEW pattern, NEW lines, NEW k \in Nat \ {0}, lines[k] \in L,
         NEW at, Selected(s, at, pattern, lines, k - 1)
  PROVE  \E to : Selected(IF FindMatch(pattern, lines[k]) THEN Append(s, lines[k]) ELSE s, to, pattern, lines, k)
<1> DEFINE l == Len(s)
           e == lines[k]
           t == Append(s, e)
           m == l + 1
<1>1. /\ l \in Nat /\ m \in Nat /\ m \in 1 .. m /\ t \in Seq(L) /\ Len(t) = m /\ t[m] = e
      /\ \A j \in 1 .. l : t[j] = s[j]
  BY AppendProperties, LenProperties
<1>2. k - 1 \in Nat /\ k \in 1 .. k /\ \A j \in 1 .. l : at[j] \in 1 .. k /\ at[j] \in 1 .. k - 1
  BY DEF Selected
<1>3. CASE ~FindMatch(pattern, e)
  <2>1. at \in [1 .. l -> 1 .. k]
    <3>1. at \in [1 .. l -> 1 .. k - 1]
      BY DEF Selected
    <3> QED BY <1>2, <3>1
  <2>2. ASSUME NEW i \in 1 .. k PROVE FindMatch(pattern, lines[i]) <=> \E j \in 1 .. l : at[j] = i
    <3>1. CASE i = k
      BY <1>2, <1>3, <3>1
    <3>2. CASE i # k
      <4>1. i \in 1 .. k - 1
        BY <3>2
      <4> QED BY <4>1 DEF Selected
    <3> QED BY <3>1, <3>2
  <2>3. Selected(s, at, pattern, lines, k)
    BY <2>1, <2>2 DEF Selected
  <2> QED BY <1>3, <2>3
<1>4. CASE FindMatch(pattern, e)
  <2> DEFINE to == [j \in 1 .. m |-> IF j = m THEN k ELSE at[j]]
  <2>1. to \in [1 .. m -> 1 .. k] /\ to[m] = k /\ \A j \in 1 .. l : to[j] = at[j]
    BY <1>1, <1>2
  <2> HIDE DEF to
  <2>2. ASSUME NEW i \in 1 .. m, NEW j \in 1 .. m, i < j PROVE to[i] < to[j]
    <3>1. i \in 1 .. l /\ to[i] = at[i]
      BY <1>1, <2>1, <2>2
    <3>2. CASE j = m
      BY <1>2, <2>1, <3>1, <3>2
    <3>3. CASE j # m
      <4>1. j \in 1 .. l /\ to[j] = at[j]
        BY <1>1, <2>1, <3>3
      <4> QED BY <2>2, <3>1, <4>1 DEF Selected
    <3> QED BY <3>2, <3>3
  <2>3. ASSUME NEW j \in 1 .. m PROVE t[j] = lines[to[j]]
    <3>1. CASE j = m
      BY <1>1, <2>1, <3>1
    <3>2. CASE j # m
      <4>1. j \in 1 .. l /\ to[j] = at[j] /\ t[j] = s[j]
        BY <1>1, <2>1, <3>2
      <4> QED BY <4>1 DEF Selected
    <3> QED BY <3>1, <3>2
  <2>4. ASSUME NEW i \in 1 .. k PROVE FindMatch(pattern, lines[i]) <=> \E j \in 1 .. m : to[j] = i
    <3>1. CASE i = k
      BY <1>1, <1>4, <2>1, <3>1
    <3>2. CASE i # k
      <4>1. i \in 1 .. k - 1
        BY <3>2
      <4>2. FindMatch(pattern, lines[i]) <=> \E j \in 1 .. l : at[j] = i
        BY <4>1 DEF Selected
      <4>3. (\E j \in 1 .. l : at[j] = i) <=> \E j \in 1 .. m : to[j] = i
        BY <1>1, <2>1, <3>2
      <4> QED BY <4>2, <4>3
    <3> QED BY <3>1, <3>2
  <2> HIDE DEF t, m, e
  <2>5. Selected(t, to, pattern, lines, k)
    BY <1>1, <2>1, <2>2, <2>3, <2>4 DEF Selected
  <2> QED BY <1>4, <2>5 DEF t, e
<1> QED BY <1>3, <1>4

\* What grep() prints: the lines that match, in their order.
LEMMA GrepIs ==
  ASSUME NEW pattern \in Seq(STRING), NEW lines \in Seq(Seq(STRING))
  PROVE  Grep(pattern, lines) \in Seq(Seq(STRING)) /\ \E at : Selected(Grep(pattern, lines), at, pattern, lines, Len(lines))
<1> DEFINE n == Len(lines)
           D == 0 .. n
           L == Seq(STRING)
           S == Seq(L)
           more(k, s) == IF FindMatch(pattern, lines[k]) THEN Append(s, lines[k]) ELSE s
           whole(f) == [k \in D |-> IF k = 0 THEN <<>>
                                    ELSE IF FindMatch(pattern, lines[k]) THEN Append(f[k - 1], lines[k])
                                    ELSE f[k - 1]]
           F == CHOOSE f : f = whole(f)
           step == [t \in D \X S |-> IF t[1] = 0 THEN t[2] ELSE more(t[1], t[2])]
<1>0. n \in Nat /\ \A k \in 1 .. n : lines[k] \in L
  BY LenProperties, ElementOfSeq
<1>1. \A k \in 1 .. n, s \in S : more(k, s) \in S
  <2> HIDE DEF L
  <2> QED BY <1>0, AppendProperties
<1>2. <<>> \in S
  BY EmptySeq
<1> HIDE DEF L, S
<1>3. step \in [D \X S -> S] /\ \A k \in D, s \in S : k # 0 => step[<<k, s>>] = more(k, s)
  <2> HIDE DEF more
  <2>1. \A k \in D : k # 0 => k \in 1 .. n
    BY <1>0
  <2>2. step \in [D \X S -> S]
    <3> SUFFICES ASSUME NEW k \in D, NEW s \in S PROVE (IF k = 0 THEN s ELSE more(k, s)) \in S
      OBVIOUS
    <3> QED BY <1>1, <2>1
  <2>3. \A k \in D, s \in S : k # 0 => step[<<k, s>>] = more(k, s)
    OBVIOUS
  <2> QED BY <2>2, <2>3
<1> HIDE DEF step
<1>4. PICK f : Recursion(f, <<>>, step, D, S)
  <2>1. Downward(D)
    BY <1>0, UptoDownward
  <2> HIDE DEF D
  <2> QED BY <1>2, <1>3, <2>1, RecursionExists
<1>5. f = whole(f)
  <2>1. ASSUME NEW k \in D PROVE f[k] = IF k = 0 THEN <<>> ELSE more(k, f[k - 1])
    <3> HIDE DEF more
    <3>1. CASE k # 0
      <4>1. k - 1 \in D /\ f \in [D -> S]
        BY <1>0, <1>4, <3>1 DEF Recursion
      <4>2. f[k - 1] \in S
        BY <4>1
      <4>3. step[<<k, f[k - 1]>>] = more(k, f[k - 1])
        BY <1>3, <3>1, <4>2
      <4>4. f[k] = step[<<k, f[k - 1]>>]
        BY <1>4, <3>1 DEF Recursion
      <4> QED BY <3>1, <4>3, <4>4
    <3> QED BY <1>4, <3>1 DEF Recursion
  <2>2. f \in [D -> S]
    BY <1>4 DEF Recursion
  <2> HIDE DEF D
  <2> QED BY <2>1, <2>2
<1>6. F = whole(F)
  <2> HIDE DEF whole
  <2> QED BY <1>5
<1>7. Grep(pattern, lines) = F[n]
  BY DEF Grep
<1> HIDE DEF F
<1> DEFINE Good(k) == F[k] \in S /\ \E at : Selected(F[k], at, pattern, lines, k)
           N == {k \in Nat : k <= n => Good(k)}
<1>8. 0 \in N
  <2>1. F[0] = <<>>
    BY <1>0, <1>6
  <2> DEFINE at == [j \in 1 .. 0 |-> 0]
  <2>2. at \in [1 .. 0 -> 1 .. 0] /\ 1 .. 0 = {}
    OBVIOUS
  <2> HIDE DEF at
  <2>3. Len(F[0]) = 0
    BY <2>1, EmptySeq
  <2>4. Selected(F[0], at, pattern, lines, 0)
    BY <2>2, <2>3 DEF Selected
  <2> QED BY <1>2, <2>1, <2>4
<1>9. ASSUME NEW k \in Nat, k \in N PROVE k + 1 \in N
  <2> SUFFICES ASSUME k + 1 <= n PROVE Good(k + 1)
    OBVIOUS
  <2> DEFINE q == k + 1
  <2>1. q \in 1 .. n /\ q \in D /\ q \in Nat \ {0} /\ q - 1 = k
    BY <1>0
  <2>2. Good(k)
    BY <1>0, <1>9
  <2> HIDE DEF q
  <2>3. F[q] = more(q, F[k])
    BY <1>6, <2>1
  <2> DEFINE s == F[k]
  <2>4. s \in S /\ lines[q] \in L
    BY <1>0, <2>1, <2>2
  <2>5. PICK at : Selected(s, at, pattern, lines, q - 1)
    BY <2>1, <2>2
  <2> HIDE DEF s
  <2>6. \E to : Selected(more(q, s), to, pattern, lines, q)
    <3>1. s \in Seq(L)
      BY <2>4 DEF S
    <3> QED BY <2>1, <2>4, <2>5, <3>1, OneMoreRead
  <2>7. more(q, s) \in S
    <3> HIDE DEF more
    <3> QED BY <1>1, <2>1, <2>4
  <2> HIDE DEF more
  <2>8. Good(q)
    BY <2>3, <2>6, <2>7 DEF s
  <2> QED BY <2>8 DEF q
<1> HIDE DEF N
<1>10. Nat \subseteq N
  BY <1>8, <1>9, SetInduction
<1>11. Good(n)
  BY <1>0, <1>10 DEF N
<1> QED BY <1>7, <1>11 DEF L, S

-----------------------------------------------------------------------------
(* the Caesar cipher *)

\* Where a letter stands in A to Z, a to z, and the text k letters further on.
IndexOf(ch) == IF ch > 90 THEN ch - 71 ELSE ch - 65
Rotation(text, k) == [i \in DOMAIN text |-> CHOOSE ch \in Letters : IndexOf(ch) = (IndexOf(text[i]) + k) % 52]

LEMMA ShiftLetterIs ==
  ASSUME NEW ch \in Letters, NEW k \in 0 .. 51
  PROVE  ShiftLetter(ch, k) = CHOOSE c \in Letters : IndexOf(c) = (IndexOf(ch) + k) % 52
<1> DEFINE x == ShiftLetter(ch, k)
<1>1. (IndexOf(ch) + k) % 52 = IF IndexOf(ch) + k > 51 THEN IndexOf(ch) + k - 52 ELSE IndexOf(ch) + k
  BY DEF IndexOf, Letters
<1>2. x \in Letters /\ IndexOf(x) = (IndexOf(ch) + k) % 52
  <2>1. x \in Letters /\ IndexOf(x) = IF IndexOf(ch) + k > 51 THEN IndexOf(ch) + k - 52 ELSE IndexOf(ch) + k
    BY DEF IndexOf, Letters, ShiftLetter
  <2> QED BY <1>1, <2>1
<1>3. \A c \in Letters : IndexOf(c) = IndexOf(x) => c = x
  <2> HIDE DEF x
  <2> QED BY <1>2 DEF IndexOf, Letters
<1> HIDE DEF x
<1>4. (CHOOSE c \in Letters : IndexOf(c) = (IndexOf(ch) + k) % 52) = x
  <2> DEFINE y == (IndexOf(ch) + k) % 52
  <2> HIDE DEF y
  <2>1. x \in Letters /\ IndexOf(x) = y
    BY <1>2 DEF y
  <2>2. (CHOOSE c \in Letters : IndexOf(c) = y) = x
    BY <1>3, <2>1
  <2> QED BY <2>2 DEF y
<1> QED BY <1>4 DEF x

LEMMA ShiftArrayIs ==
  ASSUME NEW text \in Seq(Letters), NEW k \in 0 .. 51
  PROVE  ShiftArray(text, k) = Rotation(text, k)
<1>1. \A i \in DOMAIN text : text[i] \in Letters
  BY ElementOfSeq, LenProperties
<1>2. \A i \in DOMAIN text :
        ShiftLetter(text[i], k) = CHOOSE ch \in Letters : IndexOf(ch) = (IndexOf(text[i]) + k) % 52
  BY <1>1, ShiftLetterIs
<1> QED BY <1>2 DEF ShiftArray, Rotation

LEMMA SimilaritiesCounted ==
  ASSUME NEW a, NEW b, NEW n \in Nat, DOMAIN a = 1 .. n
  PROVE  CountSimilarities(a, b) \in Nat
<1> DEFINE T == {i \in DOMAIN a : a[i] = b[i]}
<1>1. IsFiniteSet(1 .. n)
  BY FS_Interval
<1>2. T \in SUBSET (1 .. n)
  OBVIOUS
<1> HIDE DEF T
<1>3. Cardinality(T) \in Nat
  BY <1>1, <1>2, FS_Subset, FS_CardinalityType
<1> QED BY <1>3 DEF CountSimilarities, T

\* k is the first place up to n that has the greatest number of arr.
FirstGreatest(arr, k, n) == k \in 0 .. n /\ \A j \in 0 .. n : arr[j] <= arr[k] /\ (j < k => arr[j] < arr[k])

LEMMA FirstGreatestExists ==
  ASSUME NEW m \in Nat, NEW arr \in [0 .. m -> Nat]
  PROVE  \E k : FirstGreatest(arr, k, m)
<1> DEFINE N == {n \in Nat : n <= m => \E k : FirstGreatest(arr, k, n)}
<1>1. 0 \in N
  <2>1. FirstGreatest(arr, 0, 0)
    BY DEF FirstGreatest
  <2> QED BY <2>1
<1>2. ASSUME NEW n \in Nat, n \in N PROVE n + 1 \in N
  <2> SUFFICES ASSUME n + 1 <= m PROVE \E k : FirstGreatest(arr, k, n + 1)
    OBVIOUS
  <2>1. PICK k : FirstGreatest(arr, k, n)
    BY <1>2
  <2>2. k \in 0 .. n /\ \A j \in 0 .. n : arr[j] \in Nat /\ arr[j] <= arr[k] /\ (j < k => arr[j] < arr[k])
    BY <2>1 DEF FirstGreatest
  <2> DEFINE q == n + 1
  <2>3. q \in 0 .. m /\ arr[q] \in Nat /\ \A j \in 0 .. q : j = q \/ j \in 0 .. n
    OBVIOUS
  <2>4. CASE arr[q] > arr[k]
    <3>1. ASSUME NEW j \in 0 .. q PROVE arr[j] <= arr[q] /\ (j < q => arr[j] < arr[q])
      <4>1. CASE j = q
        BY <2>3, <4>1
      <4>2. CASE j \in 0 .. n
        <5>1. arr[j] \in Nat /\ arr[k] \in Nat /\ arr[j] <= arr[k]
          BY <2>2, <4>2
        <5> HIDE DEF q
        <5> QED BY <2>3, <2>4, <5>1
      <4> QED BY <2>3, <4>1, <4>2
    <3>2. FirstGreatest(arr, q, q)
      BY <3>1 DEF FirstGreatest
    <3> QED BY <3>2
  <2>5. CASE ~(arr[q] > arr[k])
    <3>1. ASSUME NEW j \in 0 .. q PROVE arr[j] <= arr[k] /\ (j < k => arr[j] < arr[k])
      <4>1. CASE j = q
        BY <2>2, <2>3, <2>5, <4>1
      <4>2. CASE j \in 0 .. n
        BY <2>2, <4>2
      <4> QED BY <2>3, <4>1, <4>2
    <3>2. k \in 0 .. q
      BY <2>2
    <3> HIDE DEF q
    <3>3. FirstGreatest(arr, k, q)
      BY <3>1, <3>2 DEF FirstGreatest
    <3> QED BY <3>3 DEF q
  <2> QED BY <2>4, <2>5
<1> HIDE DEF N
<1>3. Nat \subseteq N
  BY <1>1, <1>2, SetInduction
<1> QED BY <1>3 DEF N

LEMMA MaxAtIndexIs ==
  ASSUME NEW m \in Nat, NEW arr \in [0 .. m -> Nat]
  PROVE  FirstGreatest(arr, MaxAtIndex(arr), m)
<1> DEFINE R(k) == (\A j \in DOMAIN arr : arr[j] <= arr[k]) /\ (\A j \in DOMAIN arr : j < k => arr[j] < arr[k])
<1>1. PICK k : FirstGreatest(arr, k, m)
  BY FirstGreatestExists
<1>2. k \in DOMAIN arr /\ R(k)
  BY <1>1 DEF FirstGreatest
<1>3. MaxAtIndex(arr) \in DOMAIN arr /\ R(MaxAtIndex(arr))
  <2> HIDE DEF R
  <2> DEFINE x == CHOOSE i \in DOMAIN arr : R(i)
  <2>1. x \in DOMAIN arr /\ R(x)
    BY <1>2
  <2>2. x = MaxAtIndex(arr)
    BY DEF MaxAtIndex, R
  <2> QED BY <2>1, <2>2
<1> QED BY <1>3 DEF FirstGreatest

\* The text decoded is the first of the best rotations.
LEMMA DecodeIs ==
  ASSUME NEW s1 \in Seq(Letters), NEW s2 \in Seq(Letters), Len(s1) = Len(s2)
  PROVE  \E k \in 0 .. 51 :
            /\ Decode(s1, s2) = Rotation(s1, k)
            /\ \A j \in 0 .. 51 :
                  IF j < k THEN CountSimilarities(Rotation(s1, j), s2) < CountSimilarities(Rotation(s1, k), s2)
                  ELSE CountSimilarities(Rotation(s1, j), s2) <= CountSimilarities(Rotation(s1, k), s2)
<1> DEFINE arr == [j \in 0 .. 51 |-> CountSimilarities(ShiftArray(s1, j), s2)]
           key == FindKey(s1, s2)
<1>1. ASSUME NEW j \in 0 .. 51 PROVE CountSimilarities(Rotation(s1, j), s2) \in Nat /\ ShiftArray(s1, j) = Rotation(s1, j)
  <2>1. Len(s1) \in Nat /\ DOMAIN s1 = 1 .. Len(s1)
    BY LenProperties
  <2>2. DOMAIN Rotation(s1, j) = 1 .. Len(s1)
    BY <2>1 DEF Rotation
  <2>3. ShiftArray(s1, j) = Rotation(s1, j)
    BY ShiftArrayIs
  <2> DEFINE a == Rotation(s1, j)
             n == Len(s1)
  <2> HIDE DEF a, n
  <2>4. n \in Nat /\ DOMAIN a = 1 .. n
    BY <2>1, <2>2 DEF a, n
  <2>5. CountSimilarities(a, s2) \in Nat
    BY <2>4, SimilaritiesCounted
  <2> QED BY <2>3, <2>5 DEF a
<1>2. \A j \in 0 .. 51 : arr[j] = CountSimilarities(Rotation(s1, j), s2) /\ arr[j] \in Nat
  BY <1>1
<1>3. arr \in [0 .. 51 -> Nat]
  BY <1>1
<1>4. key = MaxAtIndex(arr)
  BY DEF FindKey
<1>5. Decode(s1, s2) = ShiftArray(s1, key)
  BY DEF Decode
<1> HIDE DEF arr, key
<1>6. FirstGreatest(arr, key, 51)
  BY <1>3, <1>4, MaxAtIndexIs
<1>7. key \in 0 .. 51 /\ \A j \in 0 .. 51 : arr[j] <= arr[key] /\ (j < key => arr[j] < arr[key])
  BY <1>6 DEF FirstGreatest
<1>8. Decode(s1, s2) = Rotation(s1, key)
  BY <1>1, <1>5, <1>7
<1>9. ASSUME NEW j \in 0 .. 51
      PROVE  IF j < key THEN CountSimilarities(Rotation(s1, j), s2) < CountSimilarities(Rotation(s1, key), s2)
             ELSE CountSimilarities(Rotation(s1, j), s2) <= CountSimilarities(Rotation(s1, key), s2)
  <2>1. /\ arr[j] = CountSimilarities(Rotation(s1, j), s2) /\ arr[key] = CountSimilarities(Rotation(s1, key), s2)
        /\ arr[j] <= arr[key] /\ (j < key => arr[j] < arr[key])
    BY <1>2, <1>7
  <2> QED BY <2>1
<1> QED BY <1>7, <1>8, <1>9

-----------------------------------------------------------------------------
(* the house *)

Chars == {"X", " ", "o", "*", "-", "|"}
Row == Seq(Chars)

\* What HouseStands says, of a house of rows.
At(rows, r, c) == IF r \in DOMAIN rows /\ c \in DOMAIN rows[r] THEN rows[r][c] ELSE " "
Mirrored(rows, n, w) == \A r \in 1 .. n, c \in 1 .. w : At(rows, r, c) = "X" <=> At(rows, r, w + 1 - c) = "X"
RoofHolds(rows, top, w) ==
    \A r \in 2 .. top, c \in 1 .. w :
        At(rows, r, c) = "X" => At(rows, r - 1, c + 1) = "X" \/ At(rows, r - 1, c - 1) = "X"
Fenced(rows, top, w, h, f) ==
    /\ \A r \in top + 2 .. top + h - 1, c \in 2 .. w - 2 : At(rows, r, c) # At(rows, r, c + 1)
    /\ {r \in DOMAIN rows : Len(rows[r]) = w + f} = top + h - f + 1 .. top + h
    /\ \A r \in top + h - f + 1 .. top + h : At(rows, r, w + f) = "|"
Stands(rows, w, h, f) ==
    LET top == (w - 1) \div 2
    IN  /\ Len(rows) = top + h
        /\ Mirrored(rows, top + h, w)
        /\ RoofHolds(rows, top, w)
        /\ w = h => Fenced(rows, top, w, h, f)

\* s is a sequence, one more element and another sequence.
Joined(s, a, b, c) ==
    /\ Len(s) = Len(a) + 1 + Len(c)
    /\ \A i \in 1 .. Len(a) : s[i] = a[i]
    /\ s[Len(a) + 1] = b
    /\ \A i \in 1 .. Len(c) : s[Len(a) + 1 + i] = c[i]

LEMMA JoinedAre ==
  ASSUME NEW S, NEW a \in Seq(S), NEW b \in S, NEW c \in Seq(S)
  PROVE  a \o <<b>> \o c \in Seq(S) /\ Joined(a \o <<b>> \o c, a, b, c)
<1> DEFINE n == Len(a)
           m == Len(c)
           t == a \o <<b>>
           s == t \o c
<1>1. n \in Nat /\ m \in Nat /\ <<b>> \in Seq(S) /\ Len(<<b>>) = 1 /\ <<b>>[1] = b
  BY LenProperties
<1>2. /\ t \in Seq(S) /\ Len(t) = n + 1
      /\ \A i \in 1 .. n + 1 : t[i] = IF i <= n THEN a[i] ELSE <<b>>[i - n]
  <2> DEFINE u == <<b>>
  <2> HIDE DEF u
  <2>1. u \in Seq(S) /\ Len(u) = 1
    BY <1>1 DEF u
  <2>2. /\ a \o u \in Seq(S) /\ Len(a \o u) = Len(a) + Len(u)
        /\ \A i \in 1 .. Len(a) + Len(u) : (a \o u)[i] = IF i <= Len(a) THEN a[i] ELSE u[i - Len(a)]
    BY <2>1, ConcatProperties
  <2> QED BY <2>1, <2>2 DEF u
<1>3. (\A i \in 1 .. n : t[i] = a[i]) /\ t[n + 1] = b
  <2>1. \A i \in 1 .. n : t[i] = a[i]
    <3> HIDE DEF t, n
    <3> QED BY <1>1, <1>2
  <2>2. (n + 1) - n = 1 /\ ~(n + 1 <= n) /\ n + 1 \in 1 .. n + 1
    BY <1>1
  <2>3. t[n + 1] = <<b>>[(n + 1) - n]
    <3> HIDE DEF t, n
    <3> QED BY <1>2, <2>2
  <2> QED BY <1>1, <2>1, <2>2, <2>3
<1> HIDE DEF t
<1>4. /\ s \in Seq(S) /\ Len(s) = Len(t) + m
      /\ \A i \in 1 .. Len(t) + m : s[i] = IF i <= Len(t) THEN t[i] ELSE c[i - Len(t)]
  BY <1>2, ConcatProperties
<1> HIDE DEF s
<1>5. /\ s \in Seq(S) /\ Len(s) = n + 1 + m
      /\ \A i \in 1 .. n + 1 + m : s[i] = IF i <= n + 1 THEN t[i] ELSE c[i - (n + 1)]
  BY <1>1, <1>2, <1>4
<1> HIDE DEF n, m
<1>6. (\A i \in 1 .. n : s[i] = a[i]) /\ s[n + 1] = b
  <2>1. ASSUME NEW i \in 1 .. n PROVE s[i] = a[i]
    <3>1. i \in 1 .. n + 1 + m /\ i <= n + 1
      BY <1>1
    <3>2. s[i] = t[i]
      BY <1>5, <3>1
    <3> QED BY <1>3, <3>2
  <2>2. s[n + 1] = b
    <3> DEFINE k == n + 1
    <3>1. k \in 1 .. n + 1 + m /\ k <= n + 1
      BY <1>1
    <3>2. t[k] = b
      BY <1>3
    <3> HIDE DEF k
    <3>3. s[k] = t[k]
      BY <1>5, <3>1
    <3> QED BY <3>2, <3>3 DEF k
  <2> QED BY <2>1, <2>2
<1>7. ASSUME NEW i \in 1 .. m PROVE s[n + 1 + i] = c[i]
  <2> DEFINE j == n + 1 + i
  <2>1. j \in 1 .. n + 1 + m /\ ~(j <= n + 1) /\ j - (n + 1) = i
    BY <1>1
  <2> HIDE DEF j
  <2>2. s[j] = c[j - (n + 1)]
    BY <1>5, <2>1
  <2> QED BY <2>1, <2>2 DEF j
<1> QED BY <1>5, <1>6, <1>7 DEF s, t, n, m, Joined

\* A function on the numbers up to n is a sequence.
LEMMA RowOf ==
  ASSUME NEW S, NEW n \in Nat, NEW s \in [1 .. n -> S]
  PROVE  s \in Seq(S) /\ Len(s) = n /\ DOMAIN s = 1 .. n
BY IsASeq, LenProperties

\* The parts of a house are rows.
LEMMA PartsAreRows ==
  ASSUME NEW w \in Nat, NEW f \in Nat, NEW plank \in Chars, NEW inside \in [0 .. w - 1 -> Chars]
  PROVE  /\ Base(w) \in Row /\ Len(Base(w)) = w /\ \A c \in 1 .. w : Base(w)[c] = "X"
         /\ Wall(w, inside) \in Row /\ Len(Wall(w, inside)) = w
         /\ \A c \in 1 .. w : Wall(w, inside)[c] = IF c \in {1, w} THEN "X" ELSE inside[c - 1]
         /\ Fence(f, plank) \in Row /\ Len(Fence(f, plank)) = f
         /\ f > 0 => Fence(f, plank)[f] = "|"
<1>1. Base(w) \in [1 .. w -> Chars] /\ \A c \in 1 .. w : Base(w)[c] = "X"
  BY DEF Base, Chars
<1>2. Wall(w, inside) \in [1 .. w -> Chars] /\ \A c \in 1 .. w : Wall(w, inside)[c] = IF c \in {1, w} THEN "X" ELSE inside[c - 1]
  <2>1. \A c \in 1 .. w : inside[c - 1] \in Chars
    <3> TAKE c \in 1 .. w
    <3>1. c - 1 \in 0 .. w - 1
      OBVIOUS
    <3> QED BY <3>1
  <2> QED BY <2>1 DEF Wall, Chars
<1>3. Fence(f, plank) \in [1 .. f -> Chars]
  BY DEF Fence, Chars
<1>4. f > 0 => Fence(f, plank)[f] = "|"
  <2> SUFFICES ASSUME f > 0 PROVE Fence(f, plank)[f] = "|"
    OBVIOUS
  <2>1. f \in 1 .. f /\ (f - 1 + (f % 2)) % 2 # 0
    OBVIOUS
  <2> QED BY <2>1 DEF Fence
<1> QED BY <1>1, <1>2, <1>3, <1>4, RowOf DEF Row

\* The row r of the roof of a house of width 2 * top + 1.
RoofRow(top, r) == [k \in 1 .. top + r |-> IF k \in {top + r, top + 2 - r} THEN "X" ELSE " "]

LEMMA RoofIs ==
  ASSUME NEW top \in Nat, NEW w \in Nat, w = 2 * top + 1
  PROVE  /\ Roof(w) \in Seq(Row) /\ Len(Roof(w)) = top
         /\ \A r \in 1 .. top : Roof(w)[r] = RoofRow(top, r) /\ Len(RoofRow(top, r)) = top + r
<1>1. (w + 1) \div 2 = top + 1 /\ (w - 1) \div 2 = top
  OBVIOUS
<1>2. ASSUME NEW r \in 1 .. top PROVE RoofRow(top, r) \in Row /\ Len(RoofRow(top, r)) = top + r
  <2> DEFINE n == top + r
             row == RoofRow(top, r)
  <2>1. n \in Nat /\ row \in [1 .. n -> Chars]
    BY DEF RoofRow, Chars
  <2> HIDE DEF n, row
  <2>2. row \in Seq(Chars) /\ Len(row) = n
    BY <2>1, RowOf
  <2> QED BY <2>2 DEF Row, n, row
<1>3. ASSUME NEW i \in 1 .. top
      PROVE  [k \in 1 .. (top + 1) + i - 1 |->
                IF k - 1 \in {(top + 1) + i - 2, (top + 1) - i} THEN "X" ELSE " "] = RoofRow(top, i)
  <2>1. (top + 1) + i - 1 = top + i
    OBVIOUS
  <2>2. \A k \in 1 .. top + i : k - 1 \in {(top + 1) + i - 2, (top + 1) - i} <=> k \in {top + i, top + 2 - i}
    OBVIOUS
  <2> QED BY <2>1, <2>2 DEF RoofRow
<1>4. Roof(w) = [i \in 1 .. top |-> [k \in 1 .. (top + 1) + i - 1 |->
                   IF k - 1 \in {(top + 1) + i - 2, (top + 1) - i} THEN "X" ELSE " "]]
  BY <1>1 DEF Roof
<1>5. Roof(w) = [i \in 1 .. top |-> RoofRow(top, i)]
  BY <1>3, <1>4
<1>6. Roof(w) \in [1 .. top -> Row] /\ \A r \in 1 .. top : Roof(w)[r] = RoofRow(top, r)
  BY <1>2, <1>5
<1> QED BY <1>2, <1>6, RowOf

\* A row whose first w places are those of left, with a fence of f or without.
WideRow(row, left, w, f, fenced) ==
    /\ row \in Row /\ \A c \in 1 .. w : c \in DOMAIN row /\ row[c] = left[c]
    /\ fenced => Len(row) = w + f /\ row[w + f] = "|"
    /\ ~fenced => Len(row) = w

LEMMA RowAlone ==
  ASSUME NEW w \in Nat, NEW f, NEW left \in Row, Len(left) = w
  PROVE  WideRow(left, left, w, f, FALSE)
BY LenProperties DEF WideRow, Row

LEMMA RowFenced ==
  ASSUME NEW w \in Nat, NEW f \in Nat \ {0}, NEW left \in Row, Len(left) = w, NEW plank \in Chars
  PROVE  WideRow(left \o Fence(f, plank), left, w, f, TRUE)
<1> DEFINE fence == Fence(f, plank)
           row == left \o fence
<1>1. fence \in Row /\ Len(fence) = f /\ fence[f] = "|"
  <2> DEFINE inside == [j \in 0 .. w - 1 |-> " "]
  <2>1. inside \in [0 .. w - 1 -> Chars]
    BY DEF Chars
  <2> HIDE DEF inside
  <2> QED BY <2>1, PartsAreRows
<1> HIDE DEF fence
<1>2. /\ row \in Row /\ Len(row) = w + f
      /\ \A i \in 1 .. w + f : row[i] = IF i <= w THEN left[i] ELSE fence[i - w]
  BY <1>1, ConcatProperties DEF Row
<1> HIDE DEF row
<1>3. DOMAIN row = 1 .. w + f
  BY <1>2, LenProperties DEF Row
<1>4. \A c \in 1 .. w : c \in DOMAIN row /\ row[c] = left[c]
  BY <1>2, <1>3
<1>5. row[w + f] = "|"
  <2> DEFINE n == w + f
  <2>1. n \in 1 .. w + f /\ ~(n <= w) /\ n - w = f
    OBVIOUS
  <2> HIDE DEF n
  <2>2. row[n] = fence[n - w]
    BY <1>2, <2>1
  <2> QED BY <1>1, <2>1, <2>2 DEF n
<1> QED BY <1>2, <1>4, <1>5 DEF WideRow, row, fence

\* The part of the house that is below the upper base.
Below(w, h, f) ==
    IF w = h THEN WallsFence(w, h, f) \o <<Base(w) \o Fence(f, "-")>>
    ELSE [i \in 1 .. h - 2 |-> Wall(w, [j \in 0 .. w - 1 |-> " "])] \o <<Base(w)>>
Inside(w, h, k) == IF w = h THEN [j \in 0 .. w - 1 |-> PatternOf(k - 1, j)] ELSE [j \in 0 .. w - 1 |-> " "]
LeftOf(w, h, k) == IF k = h - 1 THEN Base(w) ELSE Wall(w, Inside(w, h, k))

LEMMA LastIs ==
  ASSUME NEW S, NEW n \in Nat, NEW s \in [1 .. n -> S], NEW b \in S
  PROVE  /\ s \o <<b>> \in Seq(S) /\ Len(s \o <<b>>) = n + 1
         /\ \A k \in 1 .. n : (s \o <<b>>)[k] = s[k]
         /\ (s \o <<b>>)[n + 1] = b
<1>1. s \in Seq(S) /\ Len(s) = n
  BY RowOf
<1>2. s \o <<b>> = Append(s, b)
  BY <1>1, AppendIsConcat
<1>3. /\ Append(s, b) \in Seq(S) /\ Len(Append(s, b)) = n + 1 /\ Append(s, b)[n + 1] = b
      /\ \A k \in 1 .. n : Append(s, b)[k] = s[k]
  BY <1>1, AppendProperties
<1> QED BY <1>2, <1>3

LEMMA InsideTyped ==
  ASSUME NEW w \in Nat, NEW h \in Nat, NEW k \in Nat
  PROVE  Inside(w, h, k) \in [0 .. w - 1 -> Chars]
BY DEF Inside, PatternOf, Chars

LEMMA LeftTyped ==
  ASSUME NEW w \in Nat, NEW h \in Nat, NEW k \in Nat
  PROVE  /\ LeftOf(w, h, k) \in Row /\ Len(LeftOf(w, h, k)) = w
         /\ \A c \in 1 .. w : LeftOf(w, h, k)[c] =
               IF k = h - 1 \/ c \in {1, w} THEN "X" ELSE Inside(w, h, k)[c - 1]
<1> DEFINE inside == Inside(w, h, k)
<1>1. inside \in [0 .. w - 1 -> Chars]
  BY InsideTyped
<1>2. 0 \in Nat /\ "X" \in Chars
  BY DEF Chars
<1> HIDE DEF inside
<1>3. /\ Base(w) \in Row /\ Len(Base(w)) = w /\ \A c \in 1 .. w : Base(w)[c] = "X"
      /\ Wall(w, inside) \in Row /\ Len(Wall(w, inside)) = w
      /\ \A c \in 1 .. w : Wall(w, inside)[c] = IF c \in {1, w} THEN "X" ELSE inside[c - 1]
  BY <1>1, <1>2, PartsAreRows
<1>4. LeftOf(w, h, k) = IF k = h - 1 THEN Base(w) ELSE Wall(w, inside)
  BY DEF LeftOf, inside
<1> QED BY <1>3, <1>4 DEF inside

LEMMA BelowIs ==
  ASSUME NEW w \in Nat, NEW h \in Nat, h > 1, NEW f \in Int, w = h => f > 0
  PROVE  /\ Below(w, h, f) \in Seq(Row) /\ Len(Below(w, h, f)) = h - 1
         /\ \A k \in 1 .. h - 1 :
               WideRow(Below(w, h, f)[k], LeftOf(w, h, k), w, f, w = h /\ k >= h - f)
<1> DEFINE n == h - 2
           left(k) == LeftOf(w, h, k)
<1>0. n \in Nat /\ n + 1 = h - 1
  OBVIOUS
<1>1. \A k \in 1 .. h - 1 : left(k) \in Row /\ Len(left(k)) = w
  BY LeftTyped
<1>2. left(h - 1) = Base(w) /\ \A k \in 1 .. n : left(k) = Wall(w, Inside(w, h, k))
  BY DEF LeftOf
<1>3. CASE w = h
  <2> DEFINE plank(k) == IF k - 1 = h - 1 - f THEN "-" ELSE " "
             row(k) == IF k - 1 < h - 1 - f THEN left(k) ELSE left(k) \o Fence(f, plank(k))
             s == [k \in 1 .. n |-> row(k)]
             b == left(h - 1) \o Fence(f, "-")
  <2>1. WallsFence(w, h, f) = s
    <3>1. \A k \in 1 .. n : Wall(w, [j \in 0 .. w - 1 |-> PatternOf(k - 1, j)]) = left(k)
      BY <1>2, <1>3 DEF Inside
    <3> HIDE DEF left
    <3> QED BY <3>1 DEF WallsFence
  <2>2. Below(w, h, f) = s \o <<b>>
    BY <1>2, <1>3, <2>1 DEF Below
  <2>3. f \in Nat \ {0} /\ "-" \in Chars /\ \A k \in 1 .. n : plank(k) \in Chars
    BY <1>3 DEF Chars
  <2> HIDE DEF plank, left
  <2>4. WideRow(b, left(h - 1), w, f, TRUE)
    <3>1. h - 1 \in 1 .. h - 1
      BY <1>0
    <3>2. left(h - 1) \in Row /\ Len(left(h - 1)) = w
      BY <1>1, <3>1
    <3> DEFINE base == left(h - 1)
    <3> HIDE DEF base
    <3>3. WideRow(base \o Fence(f, "-"), base, w, f, TRUE)
      BY <2>3, <3>2, RowFenced DEF base
    <3> QED BY <3>3 DEF base
  <2>5. ASSUME NEW k \in 1 .. n PROVE WideRow(row(k), left(k), w, f, k >= h - f)
    <3>1. left(k) \in Row /\ Len(left(k)) = w
      BY <1>1
    <3>2. CASE k - 1 < h - 1 - f
      <4>1. ~(k >= h - f)
        BY <3>2
      <4>2. WideRow(left(k), left(k), w, f, FALSE)
        BY <3>1, RowAlone
      <4>3. (k >= h - f) = FALSE
        BY <4>1
      <4> QED BY <3>2, <4>2, <4>3
    <3>3. CASE ~(k - 1 < h - 1 - f)
      <4>1. k >= h - f
        BY <3>3
      <4>2. WideRow(left(k) \o Fence(f, plank(k)), left(k), w, f, TRUE)
        BY <2>3, <3>1, RowFenced
      <4>3. (k >= h - f) = TRUE
        BY <4>1
      <4> QED BY <3>3, <4>2, <4>3
    <3> QED BY <3>2, <3>3
  <2>6. b \in Row /\ s \in [1 .. n -> Row]
    BY <2>4, <2>5 DEF WideRow
  <2> HIDE DEF row
  <2>7. \A k \in 1 .. n : s[k] = row(k)
    OBVIOUS
  <2> HIDE DEF s, b, n
  <2>8. /\ s \o <<b>> \in Seq(Row) /\ Len(s \o <<b>>) = n + 1
        /\ \A k \in 1 .. n : (s \o <<b>>)[k] = s[k]
        /\ (s \o <<b>>)[n + 1] = b
    BY <1>0, <2>6, LastIs
  <2>9. ASSUME NEW k \in 1 .. h - 1
        PROVE  WideRow(Below(w, h, f)[k], left(k), w, f, w = h /\ k >= h - f)
    <3>1. CASE k = h - 1
      <4>1. Below(w, h, f)[k] = b
        BY <1>0, <2>2, <2>8, <3>1
      <4>2. (w = h /\ k >= h - f) = TRUE
        BY <1>3, <2>3, <3>1
      <4>3. left(k) = left(h - 1)
        BY <3>1
      <4> QED BY <2>4, <4>1, <4>2, <4>3
    <3>2. CASE k # h - 1
      <4>1. k \in 1 .. n
        BY <1>0, <3>2
      <4>2. Below(w, h, f)[k] = row(k)
        BY <2>2, <2>7, <2>8, <4>1
      <4>3. (w = h /\ k >= h - f) = (k >= h - f)
        BY <1>3
      <4> QED BY <2>5, <4>1, <4>2, <4>3
    <3> QED BY <3>1, <3>2
  <2> QED BY <1>0, <2>2, <2>8, <2>9 DEF left
<1>4. CASE w # h
  <2> DEFINE s == [i \in 1 .. n |-> Wall(w, [j \in 0 .. w - 1 |-> " "])]
             b == Base(w)
  <2>1. Below(w, h, f) = s \o <<b>>
    BY <1>4 DEF Below
  <2>2. \A k \in 1 .. n : s[k] = left(k)
    BY <1>2, <1>4 DEF Inside
  <2> HIDE DEF left
  <2>3. \A k \in 1 .. n : k \in 1 .. h - 1
    BY <1>0
  <2>4. b \in Row
    <3>1. h - 1 \in 1 .. h - 1
      BY <1>0
    <3> QED BY <1>1, <1>2, <3>1
  <2>5. s \in [1 .. n -> Row]
    <3>1. \A k \in 1 .. n : s[k] \in Row
      BY <1>1, <2>2, <2>3
    <3>2. DOMAIN s = 1 .. n /\ s = [k \in 1 .. n |-> s[k]]
      OBVIOUS
    <3> HIDE DEF s
    <3> QED BY <3>1, <3>2
  <2> HIDE DEF s, b, n
  <2>6. /\ s \o <<b>> \in Seq(Row) /\ Len(s \o <<b>>) = n + 1
        /\ \A k \in 1 .. n : (s \o <<b>>)[k] = s[k]
        /\ (s \o <<b>>)[n + 1] = b
    BY <1>0, <2>4, <2>5, LastIs
  <2>7. ASSUME NEW k \in 1 .. h - 1
        PROVE  WideRow(Below(w, h, f)[k], left(k), w, f, w = h /\ k >= h - f)
    <3>1. Below(w, h, f)[k] = left(k)
      <4>1. CASE k = h - 1
        BY <1>0, <1>2, <2>1, <2>6, <4>1 DEF b
      <4>2. CASE k # h - 1
        <5>1. k \in 1 .. n
          BY <1>0, <4>2
        <5> QED BY <2>1, <2>2, <2>6, <5>1
      <4> QED BY <4>1, <4>2
    <3>2. WideRow(left(k), left(k), w, f, FALSE)
      BY <1>1, RowAlone
    <3>3. (w = h /\ k >= h - f) = FALSE
      BY <1>4
    <3> QED BY <3>1, <3>2, <3>3
  <2> QED BY <1>0, <2>1, <2>6, <2>7 DEF left
<1> QED BY <1>3, <1>4

\* The rows of a house, from the roof down.
AreRows(rows, top, w, h, f) ==
    /\ rows \in Seq(Row) /\ Len(rows) = top + h /\ DOMAIN rows = 1 .. top + h
    /\ \A r \in 1 .. top : rows[r] = RoofRow(top, r)
    /\ rows[top + 1] = Base(w)
    /\ \A k \in 1 .. h - 1 : WideRow(rows[top + 1 + k], LeftOf(w, h, k), w, f, w = h /\ k >= h - f)

LEMMA HouseRows ==
  ASSUME NEW top \in Nat, NEW w \in Nat, w = 2 * top + 1, NEW h \in Nat, h > 1, NEW f \in Int, w = h => f > 0,
         HouseError(w, h, f) = 0
  PROVE  AreRows(House(w, h, f), top, w, h, f)
<1> DEFINE a == Roof(w)
           b == Base(w)
           c == Below(w, h, f)
           rows == a \o <<b>> \o c
<1>1. House(w, h, f) = rows
  BY DEF House, Below
<1>2. a \in Seq(Row) /\ Len(a) = top /\ \A r \in 1 .. top : a[r] = RoofRow(top, r)
  BY RoofIs
<1>3. b \in Row
  <2>1. LeftOf(w, h, h - 1) = b
    BY DEF LeftOf
  <2> QED BY <2>1, LeftTyped
<1>4. /\ c \in Seq(Row) /\ Len(c) = h - 1
      /\ \A k \in 1 .. h - 1 : WideRow(c[k], LeftOf(w, h, k), w, f, w = h /\ k >= h - f)
  BY BelowIs
<1> HIDE DEF a, b, c
<1>5. rows \in Seq(Row) /\ Joined(rows, a, b, c)
  BY <1>2, <1>3, <1>4, JoinedAre
<1> HIDE DEF rows
<1>6. Len(rows) = top + h /\ DOMAIN rows = 1 .. top + h
  <2>1. Len(rows) = top + h
    BY <1>2, <1>4, <1>5 DEF Joined
  <2> QED BY <1>5, <2>1, LenProperties
<1>7. /\ \A r \in 1 .. top : rows[r] = RoofRow(top, r)
      /\ rows[top + 1] = b
      /\ \A k \in 1 .. h - 1 : rows[top + 1 + k] = c[k]
  BY <1>2, <1>4, <1>5 DEF Joined
<1> QED BY <1>1, <1>4, <1>5, <1>6, <1>7 DEF b, AreRows

\* Where a house has an X, among its first w columns.
Crosses(top, w, h, r, c) ==
    IF r <= top THEN c \in {top + r, top + 2 - r}
    ELSE r = top + 1 \/ r = top + h \/ c \in {1, w}

LEMMA CrossesAre ==
  ASSUME NEW top \in Nat, NEW w \in Nat, w = 2 * top + 1, NEW h \in Nat, h > 1, NEW f \in Int, w = h => f > 0,
         HouseError(w, h, f) = 0, NEW r \in 1 .. top + h, NEW c \in 1 .. w
  PROVE  At(House(w, h, f), r, c) = "X" <=> Crosses(top, w, h, r, c)
<1> DEFINE rows == House(w, h, f)
<1>1. /\ rows \in Seq(Row) /\ Len(rows) = top + h /\ DOMAIN rows = 1 .. top + h
      /\ \A i \in 1 .. top : rows[i] = RoofRow(top, i)
      /\ rows[top + 1] = Base(w)
      /\ \A k \in 1 .. h - 1 : WideRow(rows[top + 1 + k], LeftOf(w, h, k), w, f, w = h /\ k >= h - f)
  <2>1. AreRows(rows, top, w, h, f)
    BY HouseRows
  <2> QED BY <2>1 DEF AreRows
<1> HIDE DEF rows
<1>2. At(rows, r, c) = IF c \in DOMAIN rows[r] THEN rows[r][c] ELSE " "
  BY <1>1 DEF At
<1>3. CASE r <= top
  <2>1. r \in 1 .. top /\ rows[r] = RoofRow(top, r)
    BY <1>1, <1>3
  <2>2. At(rows, r, c) = IF c \in 1 .. top + r /\ c \in {top + r, top + 2 - r} THEN "X" ELSE " "
    BY <1>2, <2>1 DEF RoofRow
  <2>3. c \in 1 .. top + r /\ c \in {top + r, top + 2 - r} <=> c \in {top + r, top + 2 - r}
    BY <2>1
  <2> QED BY <1>3, <2>2, <2>3 DEF Crosses, rows
<1>4. CASE r = top + 1
  <2>1. rows[r] = Base(w)
    BY <1>1, <1>4
  <2>2. At(rows, r, c) = "X"
    BY <1>2, <2>1 DEF Base
  <2>3. ~(r <= top)
    BY <1>4
  <2> QED BY <1>4, <2>2, <2>3 DEF Crosses, rows
<1>5. CASE r > top + 1
  <2> DEFINE k == r - (top + 1)
  <2>1. k \in 1 .. h - 1 /\ k \in Nat /\ r = top + 1 + k /\ (k = h - 1 <=> r = top + h) /\ ~(r <= top) /\ r # top + 1
    BY <1>5
  <2> HIDE DEF k
  <2>2. WideRow(rows[r], LeftOf(w, h, k), w, f, w = h /\ k >= h - f)
    BY <1>1, <2>1
  <2>3. c \in DOMAIN rows[r] /\ rows[r][c] = LeftOf(w, h, k)[c]
    BY <2>2 DEF WideRow
  <2>4. At(rows, r, c) = IF k = h - 1 \/ c \in {1, w} THEN "X" ELSE Inside(w, h, k)[c - 1]
    BY <1>2, <2>1, <2>3, LeftTyped
  <2>5. Inside(w, h, k)[c - 1] # "X"
    <3>1. c - 1 \in 0 .. w - 1
      OBVIOUS
    <3> DEFINE d == c - 1
    <3> HIDE DEF d
    <3>2. Inside(w, h, k)[d] # "X"
      BY <3>1 DEF Inside, PatternOf, d
    <3> QED BY <3>2 DEF d
  <2> QED BY <2>1, <2>4, <2>5 DEF Crosses, rows
<1> QED BY <1>3, <1>4, <1>5

\* Beyond the columns there is no X of the roof.
LEMMA BesideRoof ==
  ASSUME NEW top \in Nat, NEW w \in Nat, w = 2 * top + 1, NEW h \in Nat, h > 1, NEW f \in Int, w = h => f > 0,
         HouseError(w, h, f) = 0
  PROVE  /\ Mirrored(House(w, h, f), top + h, w)
         /\ RoofHolds(House(w, h, f), top, w)
<1> DEFINE rows == House(w, h, f)
<1>1. \A r \in 1 .. top + h, c \in 1 .. w : At(rows, r, c) = "X" <=> Crosses(top, w, h, r, c)
  BY CrossesAre
<1> HIDE DEF rows
<1>2. Mirrored(rows, top + h, w)
  <2> SUFFICES ASSUME NEW r \in 1 .. top + h, NEW c \in 1 .. w
               PROVE  At(rows, r, c) = "X" <=> At(rows, r, w + 1 - c) = "X"
    BY DEF Mirrored
  <2> DEFINE d == w + 1 - c
  <2>1. d \in 1 .. w
    OBVIOUS
  <2>2. Crosses(top, w, h, r, c) <=> Crosses(top, w, h, r, d)
    BY DEF Crosses
  <2> HIDE DEF d
  <2>3. At(rows, r, c) = "X" <=> At(rows, r, d) = "X"
    BY <1>1, <2>1, <2>2
  <2> QED BY <2>3 DEF d
<1>3. RoofHolds(rows, top, w)
  <2> SUFFICES ASSUME NEW r \in 2 .. top, NEW c \in 1 .. w, At(rows, r, c) = "X"
               PROVE  At(rows, r - 1, c + 1) = "X" \/ At(rows, r - 1, c - 1) = "X"
    BY DEF RoofHolds
  <2> DEFINE q == r - 1
             before == c - 1
             after == c + 1
  <2>1. r \in 1 .. top + h /\ q \in 1 .. top + h /\ q <= top /\ r <= top
    OBVIOUS
  <2>2. c \in {top + r, top + 2 - r}
    BY <1>1, <2>1 DEF Crosses
  <2>3. CASE c = top + r
    <3>1. before \in 1 .. w /\ before = top + q
      BY <2>3
    <3> HIDE DEF before, q, after
    <3>2. Crosses(top, w, h, q, before)
      BY <2>1, <3>1 DEF Crosses
    <3>3. At(rows, q, before) = "X"
      BY <1>1, <2>1, <3>1, <3>2
    <3> QED BY <3>3 DEF before, q, after
  <2>4. CASE c = top + 2 - r
    <3>1. after \in 1 .. w /\ after = top + 2 - q
      BY <2>4
    <3> HIDE DEF before, q, after
    <3>2. Crosses(top, w, h, q, after)
      BY <2>1, <3>1 DEF Crosses
    <3>3. At(rows, q, after) = "X"
      BY <1>1, <2>1, <3>1, <3>2
    <3> QED BY <3>3 DEF before, q, after
  <2> QED BY <2>2, <2>3, <2>4
<1> QED BY <1>2, <1>3 DEF rows

LEMMA FenceStands ==
  ASSUME NEW top \in Nat, NEW w \in Nat, w = 2 * top + 1, NEW h \in Nat, h > 1, NEW f \in Nat, w = h, f > 0, f < h,
         HouseError(w, h, f) = 0
  PROVE  Fenced(House(w, h, f), top, w, h, f)
<1> DEFINE rows == House(w, h, f)
<1>1. /\ rows \in Seq(Row) /\ Len(rows) = top + h /\ DOMAIN rows = 1 .. top + h
      /\ \A i \in 1 .. top : rows[i] = RoofRow(top, i)
      /\ rows[top + 1] = Base(w)
      /\ \A k \in 1 .. h - 1 : WideRow(rows[top + 1 + k], LeftOf(w, h, k), w, f, w = h /\ k >= h - f)
  <2>1. AreRows(rows, top, w, h, f)
    <3>1. f \in Int /\ (w = h => f > 0)
      OBVIOUS
    <3> QED BY <3>1, HouseRows
  <2> QED BY <2>1 DEF AreRows
<1> HIDE DEF rows
<1>2. ASSUME NEW r \in top + 2 .. top + h - 1, NEW c \in 2 .. w - 2 PROVE At(rows, r, c) # At(rows, r, c + 1)
  <2> DEFINE k == r - (top + 1)
             d == c + 1
  <2>1. /\ k \in 1 .. h - 1 /\ k \in Nat /\ r = top + 1 + k /\ k # h - 1 /\ r \in 1 .. top + h
        /\ c \in 1 .. w /\ d \in 1 .. w /\ c \notin {1, w} /\ d \notin {1, w} /\ d = c + 1
    OBVIOUS
  <2> HIDE DEF k, d
  <2>2. WideRow(rows[r], LeftOf(w, h, k), w, f, w = h /\ k >= h - f)
    BY <1>1, <2>1
  <2>3. /\ c \in DOMAIN rows[r] /\ rows[r][c] = LeftOf(w, h, k)[c]
        /\ d \in DOMAIN rows[r] /\ rows[r][d] = LeftOf(w, h, k)[d]
    BY <2>1, <2>2 DEF WideRow
  <2>4. At(rows, r, c) = rows[r][c] /\ At(rows, r, d) = rows[r][d]
    BY <1>1, <2>1, <2>3 DEF At
  <2>5. rows[r][c] = Inside(w, h, k)[c - 1] /\ rows[r][d] = Inside(w, h, k)[d - 1]
    <3>1. \A x \in 1 .. w : LeftOf(w, h, k)[x] =
             IF k = h - 1 \/ x \in {1, w} THEN "X" ELSE Inside(w, h, k)[x - 1]
      BY <2>1, LeftTyped
    <3>2. LeftOf(w, h, k)[c] = Inside(w, h, k)[c - 1]
      BY <2>1, <3>1
    <3>3. LeftOf(w, h, k)[d] = Inside(w, h, k)[d - 1]
      BY <2>1, <3>1
    <3> QED BY <2>3, <3>2, <3>3
  <2>6. Inside(w, h, k)[c - 1] = PatternOf(k - 1, c - 1) /\ Inside(w, h, k)[d - 1] = PatternOf(k - 1, c)
    <3>1. c - 1 \in 0 .. w - 1 /\ c \in 0 .. w - 1 /\ d - 1 = c
      BY <2>1
    <3> QED BY <3>1 DEF Inside
  <2>7. PatternOf(k - 1, c - 1) # PatternOf(k - 1, c)
    BY <2>1 DEF PatternOf
  <2> QED BY <2>4, <2>5, <2>6, <2>7 DEF d
<1>3. ASSUME NEW k \in 1 .. h - 1, k >= h - f
      PROVE  Len(rows[top + 1 + k]) = w + f /\ At(rows, top + 1 + k, w + f) = "|"
  <2> DEFINE r == top + 1 + k
             row == rows[r]
             n == w + f
  <2>1. WideRow(row, LeftOf(w, h, k), w, f, w = h /\ k >= h - f)
    BY <1>1
  <2>2. Len(row) = n /\ row[n] = "|" /\ row \in Row
    BY <1>3, <2>1 DEF WideRow
  <2>3. r \in DOMAIN rows /\ n \in 1 .. n
    BY <1>1
  <2> HIDE DEF n, r
  <2>4. n \in DOMAIN row
    BY <2>2, <2>3, LenProperties DEF Row
  <2>5. At(rows, r, n) = "|"
    BY <2>2, <2>3, <2>4 DEF At
  <2> QED BY <2>2, <2>5 DEF n, r
<1>4. ASSUME NEW r \in 1 .. top + h, r < top + h - f + 1 PROVE Len(rows[r]) # w + f
  <2>1. CASE r <= top
    <3>1. r \in 1 .. top /\ Len(rows[r]) = top + r
      <4>1. r \in 1 .. top
        BY <2>1
      <4>2. rows[r] = RoofRow(top, r)
        BY <1>1, <4>1
      <4>3. \A i \in 1 .. top : Len(RoofRow(top, i)) = top + i
        BY RoofIs
      <4> QED BY <4>1, <4>2, <4>3
    <3> QED BY <3>1
  <2>2. CASE r = top + 1
    <3>1. LeftOf(w, h, h - 1) = Base(w) /\ rows[r] = Base(w) /\ h - 1 \in Nat
      BY <1>1, <2>2 DEF LeftOf
    <3>2. Len(rows[r]) = w
      <4> DEFINE k == h - 1
      <4> HIDE DEF k
      <4>1. k \in Nat /\ LeftOf(w, h, k) = rows[r]
        BY <3>1 DEF k
      <4> QED BY <4>1, LeftTyped
    <3> QED BY <3>2
  <2>3. CASE r > top + 1
    <3> DEFINE k == r - (top + 1)
    <3>1. k \in 1 .. h - 1 /\ r = top + 1 + k /\ ~(k >= h - f)
      BY <1>4, <2>3
    <3> HIDE DEF k
    <3>2. WideRow(rows[r], LeftOf(w, h, k), w, f, w = h /\ k >= h - f)
      BY <1>1, <3>1
    <3>3. Len(rows[r]) = w
      BY <3>1, <3>2 DEF WideRow
    <3> QED BY <3>3
  <2> QED BY <2>1, <2>2, <2>3
<1>5. ASSUME NEW r \in top + h - f + 1 .. top + h
      PROVE  r \in DOMAIN rows /\ Len(rows[r]) = w + f /\ At(rows, r, w + f) = "|"
  <2> DEFINE k == r - (top + 1)
  <2>1. k \in 1 .. h - 1 /\ k >= h - f /\ r = top + 1 + k /\ r \in 1 .. top + h
    OBVIOUS
  <2> HIDE DEF k
  <2>2. Len(rows[top + 1 + k]) = w + f /\ At(rows, top + 1 + k, w + f) = "|"
    BY <1>3, <2>1
  <2> QED BY <1>1, <2>1, <2>2
<1>6. {r \in DOMAIN rows : Len(rows[r]) = w + f} = top + h - f + 1 .. top + h
  <2>1. ASSUME NEW r \in DOMAIN rows, Len(rows[r]) = w + f PROVE r \in top + h - f + 1 .. top + h
    <3>1. r \in 1 .. top + h
      BY <1>1
    <3>2. ~(r < top + h - f + 1)
      BY <1>4, <2>1, <3>1
    <3> QED BY <3>1, <3>2
  <2> QED BY <1>5, <2>1
<1> QED BY <1>2, <1>5, <1>6 DEF Fenced, rows

\* A house that can be built stands, whatever its sizes.
LEMMA HouseIs ==
  ASSUME NEW w \in Int, NEW h \in Int, NEW f \in Int
  PROVE  IF HouseError(w, h, f) # 0 THEN Len(House(w, h, f)) = 1 ELSE Stands(House(w, h, f), w, h, f)
<1>1. CASE HouseError(w, h, f) # 0
  <2>1. House(w, h, f) = <<HouseError(w, h, f)>>
    BY <1>1 DEF House
  <2> QED BY <1>1, <2>1
<1>2. CASE HouseError(w, h, f) = 0
  <2> DEFINE top == (w - 1) \div 2
  <2>1. w \in Nat /\ h \in Nat /\ h > 1 /\ w % 2 # 0 /\ (w = h => f > 0 /\ f < h)
    BY <1>2 DEF HouseError
  <2>2. top \in Nat /\ w = 2 * top + 1
    BY <1>2, <2>1 DEF HouseError
  <2> HIDE DEF top
  <2>3. Len(House(w, h, f)) = top + h
    <3>1. w = h => f > 0
      BY <2>1
    <3>2. AreRows(House(w, h, f), top, w, h, f)
      BY <1>2, <2>1, <2>2, <3>1, HouseRows
    <3> QED BY <3>2 DEF AreRows
  <2>4. Mirrored(House(w, h, f), top + h, w) /\ RoofHolds(House(w, h, f), top, w)
    BY <1>2, <2>1, <2>2, BesideRoof
  <2>5. w = h => Fenced(House(w, h, f), top, w, h, f)
    <3> SUFFICES ASSUME w = h PROVE Fenced(House(w, h, f), top, w, h, f)
      OBVIOUS
    <3>1. f \in Nat /\ f > 0 /\ f < h
      BY <2>1
    <3> QED BY <1>2, <2>1, <2>2, <3>1, FenceStands
  <2> QED BY <1>2, <2>3, <2>4, <2>5 DEF Stands, top
<1> QED BY <1>1, <1>2

-----------------------------------------------------------------------------
(* what the programs print *)

\* What is printed for an input.
Answer(x) ==
    CASE x.program = "house" -> House(x.width, x.height, x.fence)
      [] x.program = "factors" -> Factoring(x.num)
      [] x.program = "caesar" -> Decode(x.string1, x.string2)
      [] x.program = "grep" -> Grep(x.pattern, x.lines)

ProgInv == input \in Inputs /\ ran \in BOOLEAN /\ (ran => printed = Answer(input))

LEMMA HouseAnswers ==
  ASSUME IsInput(input), input.program = "house", printed = House(input.width, input.height, input.fence)
  PROVE  HouseStands
<1> DEFINE w == input.width
           h == input.height
           f == input.fence
<1>1. w \in Int /\ h \in Int /\ f \in Int
  BY DEF IsInput
<1>2. IF HouseError(w, h, f) # 0 THEN Len(printed) = 1 ELSE Stands(printed, w, h, f)
  <2> HIDE DEF w, h, f
  <2>1. IF HouseError(w, h, f) # 0 THEN Len(House(w, h, f)) = 1 ELSE Stands(House(w, h, f), w, h, f)
    BY <1>1, HouseIs
  <2>2. printed = House(w, h, f)
    BY DEF w, h, f
  <2> QED BY <2>1, <2>2
<1>3. CASE HouseError(w, h, f) # 0
  BY <1>2, <1>3 DEF HouseStands
<1>4. CASE HouseError(w, h, f) = 0
  <2>1. Stands(printed, w, h, f)
    BY <1>2, <1>4
  <2> QED BY <1>4, <2>1, Zenon DEF HouseStands, Stands, Mirrored, RoofHolds, Fenced, At
<1> QED BY <1>3, <1>4

LEMMA FactorsAnswer ==
  ASSUME IsInput(input), input.program = "factors", printed = Factoring(input.num)
  PROVE  Factorised
<1>1. input.num \in Nat \ {0}
  BY DEF IsInput
<1>2. RightFactors(input.num, printed)
  BY <1>1, FactoringIs
<1>3. DOMAIN printed = 1 .. Len(printed)
  BY <1>2, LenProperties DEF RightFactors
<1> QED BY <1>2, <1>3 DEF RightFactors, Factorised

LEMMA CaesarAnswers ==
  ASSUME IsInput(input), input.program = "caesar", printed = Decode(input.string1, input.string2)
  PROVE  BestRotation
<1> DEFINE s1 == input.string1
           s2 == input.string2
<1>1. s1 \in Seq(Letters) /\ s2 \in Seq(Letters)
  BY DEF IsInput
<1>2. ASSUME Len(s1) = Len(s2)
      PROVE  \E k \in 0 .. 51 :
                /\ printed = Rotation(s1, k)
                /\ \A j \in 0 .. 51 :
                      IF j < k THEN CountSimilarities(Rotation(s1, j), s2) < CountSimilarities(Rotation(s1, k), s2)
                      ELSE CountSimilarities(Rotation(s1, j), s2) <= CountSimilarities(Rotation(s1, k), s2)
  <2>1. printed = Decode(s1, s2)
    OBVIOUS
  <2> HIDE DEF s1, s2
  <2> QED BY <1>1, <1>2, <2>1, DecodeIs
<1> QED BY <1>2, Zenon DEF BestRotation, Rotation, IndexOf

LEMMA GrepAnswers ==
  ASSUME IsInput(input), input.program = "grep", printed = Grep(input.pattern, input.lines)
  PROVE  LinesSelected
<1> DEFINE pattern == input.pattern
           lines == input.lines
           n == Len(lines)
<1>1. pattern \in Seq(STRING) /\ lines \in Seq(Seq(STRING))
  BY DEF IsInput
<1>2. printed = Grep(pattern, lines)
  OBVIOUS
<1> HIDE DEF pattern, lines
<1>3. printed \in Seq(Seq(STRING)) /\ \E at : Selected(printed, at, pattern, lines, n)
  BY <1>1, <1>2, GrepIs
<1>4. PICK at : Selected(printed, at, pattern, lines, n)
  BY <1>3
<1>5. DOMAIN printed = 1 .. Len(printed) /\ DOMAIN lines = 1 .. n /\ \A i \in 1 .. n : lines[i] \in Seq(STRING)
  BY <1>1, <1>3, LenProperties, ElementOfSeq
<1>6. \A i \in 1 .. n : FindMatch(pattern, lines[i]) <=> OccursIn(pattern, lines[i])
  BY <1>1, <1>5, FindMatchIs
<1>7. /\ at \in [DOMAIN printed -> DOMAIN lines]
      /\ \A j, k \in DOMAIN printed : j < k => at[j] < at[k]
      /\ \A k \in DOMAIN printed : printed[k] = lines[at[k]]
      /\ \A i \in DOMAIN lines : OccursIn(pattern, lines[i]) <=> \E k \in DOMAIN printed : at[k] = i
  BY <1>4, <1>5, <1>6 DEF Selected
<1> QED BY <1>7, Zenon DEF LinesSelected, OccursIn, pattern, lines

LEMMA ProgInvInit == ProgInit => ProgInv
BY DEF ProgInit, ProgInv

LEMMA ProgInvNext == ProgInv /\ [RunProgram]_progVars => ProgInv'
<1> SUFFICES ASSUME ProgInv, [RunProgram]_progVars PROVE ProgInv'
  OBVIOUS
<1>1. CASE RunProgram
  <2>1. printed' = Answer(input) /\ input' = input /\ ran' = TRUE
    BY <1>1 DEF RunProgram, Answer
  <2> QED BY <2>1 DEF ProgInv
<1>2. CASE UNCHANGED progVars
  <2>1. printed' = printed /\ input' = input /\ ran' = ran
    BY <1>2 DEF progVars
  <2> QED BY <2>1 DEF ProgInv
<1> QED BY <1>1, <1>2

LEMMA ProgInvAnswers == ProgInv => AnswersSound
<1> SUFFICES ASSUME ProgInv, ran PROVE AnswersSound
  BY DEF AnswersSound
<1>1. IsInput(input) /\ printed = Answer(input)
  BY InputsAssumption DEF ProgInv
<1>2. CASE input.program = "house"
  <2>1. HouseStands
    BY <1>1, <1>2, HouseAnswers DEF Answer
  <2> QED BY <1>2, <2>1 DEF AnswersSound
<1>3. CASE input.program = "factors"
  <2>1. Factorised
    BY <1>1, <1>3, FactorsAnswer DEF Answer
  <2> QED BY <1>3, <2>1 DEF AnswersSound
<1>4. CASE input.program = "caesar"
  <2>1. BestRotation
    BY <1>1, <1>4, CaesarAnswers DEF Answer
  <2> QED BY <1>4, <2>1 DEF AnswersSound
<1>5. CASE input.program = "grep"
  <2>1. LinesSelected
    BY <1>1, <1>5, GrepAnswers DEF Answer
  <2> QED BY <1>5, <2>1 DEF AnswersSound
<1> QED BY <1>1, <1>2, <1>3, <1>4, <1>5 DEF IsInput

\* For any inputs and any sieve, the house stands, the text decoded is the best
\* rotation, the lines are those with the pattern, and the factors are the
\* number's, the one left beyond the sieve being neither a prime nor set off
\* from the others in every case.
THEOREM ProgramsAnswerSoundly == ProgSpec => []AnswersSound
<1>1. ProgInit => ProgInv
  BY ProgInvInit
<1>2. ProgInv /\ [RunProgram]_progVars => ProgInv'
  BY ProgInvNext
<1>3. ProgInv => AnswersSound
  BY ProgInvAnswers
<1> QED BY <1>1, <1>2, <1>3, PTL DEF ProgSpec
=============================================================================
