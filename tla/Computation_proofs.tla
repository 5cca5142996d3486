-------------------------- MODULE Computation_proofs --------------------------
(***************************************************************************)
(* Proofs about Computation.tla, for every number of chunks per row and    *)
(* every size of the image that DivideAssumption and SizeAssumption allow. *)
(*                                                                         *)
(* The sizes stay multiples of Divide, so that the image is a tiling by    *)
(* Divide * Divide equal chunks (Tiled); then the number of a chunk and    *)
(* its corner determine each other (CursorMatchesCid).  A request says how *)
(* the image was tiled when it was made (AskedWell): when its data come    *)
(* and the image has that size, it is tiled in the same way, and each      *)
(* value is stored at the pixel it is for (StoredInPlace).                 *)
(***************************************************************************)
EXTENDS Computation, TLAPS

-----------------------------------------------------------------------------
(* Arithmetic.                                                             *)

\* A product grows with its factor.
LEMMA ProductMonotone ==
    ASSUME NEW a \in Nat, NEW b \in Nat, NEW d \in Nat, a <= b
    PROVE  a * d \in Nat /\ b * d \in Nat /\ a * d <= b * d
<1>1. PICK k \in Nat : b = a + k
  <2>1. b - a \in Nat /\ b = a + (b - a)
    BY SMT
  <2> QED
    BY <2>1
<1>2. b * d = a * d + k * d
  BY <1>1, SMT
<1>3. a * d \in Nat /\ k * d \in Nat
  BY SMT
<1> QED
  BY <1>2, <1>3, SMT

\* Division with remainder is unique.
LEMMA DivModUnique ==
    ASSUME NEW d \in Nat \ {0}, NEW q \in Nat, NEW r \in 0 .. d - 1
    PROVE  (q * d + r) \div d = q /\ (q * d + r) % d = r
<1> DEFINE n == q * d + r
           p == n \div d
           s == n % d
<1>1. q * d \in Nat /\ n \in Nat
  BY SMT
<1>2. p \in Nat /\ s \in 0 .. d - 1 /\ n = p * d + s
  BY <1>1, SMT
<1> HIDE DEF p, s
<1>3. ~(p + 1 <= q)
  <2> SUFFICES ASSUME p + 1 <= q PROVE FALSE
    OBVIOUS
  <2>1. (p + 1) * d <= q * d
    BY <1>2, ProductMonotone
  <2>2. (p + 1) * d = p * d + d /\ p * d \in Nat
    BY <1>2, SMT
  <2> QED
    BY <1>1, <1>2, <2>1, <2>2, SMT
<1>4. ~(q + 1 <= p)
  <2> SUFFICES ASSUME q + 1 <= p PROVE FALSE
    OBVIOUS
  <2>1. (q + 1) * d <= p * d
    BY <1>2, ProductMonotone
  <2>2. (q + 1) * d = q * d + d
    BY SMT
  <2> QED
    BY <1>1, <1>2, <2>1, <2>2, SMT
<1>5. p = q
  BY <1>2, <1>3, <1>4, SMT
<1>6. s = r
  BY <1>1, <1>2, <1>5, SMT
<1> QED
  BY <1>5, <1>6 DEF p, s

-----------------------------------------------------------------------------
(* The sizes.                                                              *)

\* The image is a tiling of Divide * Divide chunks of size a * b; both fit a
\* byte, and the image is not higher than wide.
Tiled(c, a, b) ==
    /\ a \in 1 .. 255 /\ b \in 1 .. a
    /\ c.w = a * Divide /\ c.h = b * Divide

\* What computation_init works out for a tiled image: the size of the chunks
\* and their number.
LEMMA TilingSizes ==
    ASSUME NEW c, NEW a, NEW b, Tiled(c, a, b)
    PROVE  /\ ChunkRe(c) = a /\ ChunkIm(c) = b
           /\ NbrChunks(c) = Divide * Divide
           /\ Divide * Divide \in Nat /\ c.w \in Nat /\ c.h \in Nat
<1>1. a \in Nat \ {0} /\ b \in Nat \ {0} /\ a % 256 = a /\ b % 256 = b
  BY SMT DEF Tiled
<1>2. (a * Divide) \div Divide = a /\ (b * Divide) \div Divide = b
  <2>1. (a * Divide + 0) \div Divide = a /\ (b * Divide + 0) \div Divide = b
    <3>1. 0 \in 0 .. Divide - 1
      BY DivideAssumption, SMT
    <3> QED
      BY <1>1, <3>1, DivModUnique, DivideAssumption
  <2>2. a * Divide + 0 = a * Divide /\ b * Divide + 0 = b * Divide
    BY <1>1, DivideAssumption, SMT
  <2> QED
    BY <2>1, <2>2
<1>3. ChunkRe(c) = a /\ ChunkIm(c) = b
  BY <1>1, <1>2 DEF Tiled, ChunkRe, ChunkIm
<1>4. a * b \in Nat \ {0}
  <2>1. PICK p \in Nat : a = p + 1
    <3>1. a - 1 \in Nat /\ a = (a - 1) + 1
      BY <1>1, SMT
    <3> QED
      BY <3>1
  <2>2. a * b = p * b + b /\ p * b \in Nat
    BY <1>1, <2>1, SMT
  <2> QED
    BY <1>1, <2>2, SMT
<1>5. Divide * Divide \in Nat
  BY DivideAssumption, SMT
<1>6. c.w * c.h = (Divide * Divide) * (a * b)
  BY <1>1, DivideAssumption, SMT DEF Tiled
<1>7. ((Divide * Divide) * (a * b)) \div (a * b) = Divide * Divide
  <2> DEFINE q == Divide * Divide
             d == a * b
  <2>1. q \in Nat /\ d \in Nat \ {0}
    BY <1>4, <1>5
  <2> HIDE DEF q, d
  <2>2. 0 \in 0 .. d - 1
    BY <2>1, SMT
  <2>3. (q * d + 0) \div d = q
    BY <2>1, <2>2, DivModUnique
  <2>4. q * d + 0 = q * d
    BY <2>1, SMT
  <2> QED
    BY <2>3, <2>4 DEF q, d
<1>8. NbrChunks(c) = Divide * Divide
  BY <1>3, <1>6, <1>7 DEF NbrChunks
<1>9. c.w \in Nat /\ c.h \in Nat
  BY <1>1, DivideAssumption, SMT DEF Tiled
<1> QED
  BY <1>3, <1>5, <1>8, <1>9

\* A multiple of Divide below 256 * Divide is Divide times a byte.
LEMMA ByteFactor ==
    ASSUME NEW k \in Nat \ {0}, k * Divide < 256 * Divide
    PROVE  k \in 1 .. 255
<1>1. ~(256 <= k)
  <2> SUFFICES ASSUME 256 <= k PROVE FALSE
    OBVIOUS
  <2>1. 256 * Divide <= k * Divide
    BY ProductMonotone, DivideAssumption
  <2>2. 256 * Divide \in Nat /\ k * Divide \in Nat
    BY DivideAssumption, SMT
  <2> QED
    BY <2>1, <2>2, SMT
<1> QED
  BY <1>1, SMT

-----------------------------------------------------------------------------
(* The chunk number and the corner.                                        *)

\* The column and row of the chunk after chunk n, as compute() finds them:
\* the row ends where the next corner would leave the image.
LEMMA NextCorner ==
    ASSUME NEW n \in Nat, NEW a \in Nat \ {0}
    PROVE  LET x == (n % Divide) * a + a
           IN  /\ n % Divide \in Nat /\ n \div Divide \in Nat
               /\ x = ((n % Divide) + 1) * a
               /\ x >= a * Divide => /\ (n + 1) % Divide = 0
                                     /\ (n + 1) \div Divide = n \div Divide + 1
               /\ ~(x >= a * Divide) => /\ (n + 1) % Divide = (n % Divide) + 1
                                        /\ (n + 1) \div Divide = n \div Divide
<1> DEFINE r == n % Divide
           q == n \div Divide
<1> USE DivideAssumption
<1>1. q \in Nat /\ r \in 0 .. Divide - 1 /\ n = q * Divide + r
  BY SMT
<1> HIDE DEF r, q
<1>2. r * a + a = (r + 1) * a
  BY <1>1, SMT
<1>3. CASE r + 1 = Divide
  <2>1. n + 1 = (q + 1) * Divide + 0
    BY <1>1, <1>3, SMT
  <2>2. (n + 1) \div Divide = q + 1 /\ (n + 1) % Divide = 0
    <3>1. 0 \in 0 .. Divide - 1 /\ q + 1 \in Nat
      BY <1>1, SMT
    <3>2. ((q + 1) * Divide + 0) \div Divide = q + 1 /\ ((q + 1) * Divide + 0) % Divide = 0
      BY <3>1, DivModUnique
    <3> QED
      BY <2>1, <3>2
  <2>3. r * a + a >= a * Divide
    BY <1>1, <1>2, <1>3, SMT
  <2> QED
    BY <1>1, <1>2, <2>2, <2>3, SMT DEF r, q
<1>4. CASE r + 1 # Divide
  <2>1. r + 1 \in 0 .. Divide - 1 /\ n + 1 = q * Divide + (r + 1)
    BY <1>1, <1>4, SMT
  <2>2. (n + 1) \div Divide = q /\ (n + 1) % Divide = r + 1
    BY <1>1, <2>1, DivModUnique
  <2>3. ~(r * a + a >= a * Divide)
    <3>1. r + 2 <= Divide /\ r + 2 \in Nat
      BY <1>1, <2>1, SMT
    <3>2. (r + 2) * a <= Divide * a
      BY <3>1, ProductMonotone
    <3>3. (r + 2) * a = r * a + a + a /\ r * a \in Nat /\ Divide * a = a * Divide
      BY <1>1, SMT
    <3>4. Divide * a \in Nat
      BY SMT
    <3> QED
      BY <3>2, <3>3, <3>4, SMT
  <2> QED
    BY <1>1, <1>2, <2>2, <2>3, SMT DEF r, q
<1> QED
  BY <1>3, <1>4

\* Where pixel (i, j) of chunk n lands: inside the row, hence at the index of
\* that pixel of the image.
LEMMA PixelIndex ==
    ASSUME NEW n \in Nat, NEW a \in Nat \ {0}, NEW b \in Nat \ {0},
           NEW i \in 0 .. a - 1, NEW j \in 0 .. b - 1
    PROVE  LET x == (n % Divide) * a + i
               y == (n \div Divide) * b + j
               w == a * Divide
           IN  x \in Nat /\ y \in Nat /\ (x + y * w) % w = x /\ (x + y * w) \div w = y
<1> USE DivideAssumption
<1> DEFINE r == n % Divide
           q == n \div Divide
           x == r * a + i
           y == q * b + j
           w == a * Divide
<1>1. q \in Nat /\ r \in 0 .. Divide - 1
  BY SMT
<1> HIDE DEF r, q
<1>2. y \in Nat /\ x \in Nat /\ w \in Nat
  BY <1>1, SMT
<1>3. x \in 0 .. w - 1
  <2>1. r + 1 <= Divide /\ r + 1 \in Nat
    BY <1>1, SMT
  <2>2. (r + 1) * a <= Divide * a
    BY <2>1, ProductMonotone
  <2>3. (r + 1) * a = r * a + a /\ r * a \in Nat /\ Divide * a = w
    BY <1>1, SMT
  <2> HIDE DEF w
  <2> QED
    BY <1>2, <2>2, <2>3, SMT
<1> HIDE DEF x, y, w
<1>4. w \in Nat \ {0}
  BY <1>2, <1>3, SMT
<1>5. (y * w + x) \div w = y /\ (y * w + x) % w = x
  BY <1>2, <1>3, <1>4, DivModUnique
<1>6. x + y * w = y * w + x
  BY <1>2, SMT
<1> QED
  BY <1>2, <1>5, <1>6 DEF x, y, w, r, q

\* The same, to be cited for one pixel by modules that instantiate this one.
AtItsIndex(n, a, b, i, j) ==
    LET x == (n % Divide) * a + i
        y == (n \div Divide) * b + j
        w == a * Divide
    IN  (x + y * w) % w = x /\ (x + y * w) \div w = y
LEMMA PixelFound ==
    ASSUME NEW n \in Nat, NEW a \in Nat \ {0}, NEW b \in Nat \ {0},
           NEW i \in 0 .. a - 1, NEW j \in 0 .. b - 1
    PROVE  AtItsIndex(n, a, b, i, j)
BY PixelIndex DEF AtItsIndex

\* The index of pixel (i, j) of chunk n: one of the grid, and each index of
\* the grid is that of some pixel of some chunk.
Spot(n, a, b, i, j) == ((n % Divide) * a + i) + ((n \div Divide) * b + j) * (a * Divide)
LEMMA SpotInside ==
    ASSUME NEW n \in Nat, n < Divide * Divide, NEW a \in Nat \ {0}, NEW b \in Nat \ {0},
           NEW i \in 0 .. a - 1, NEW j \in 0 .. b - 1
    PROVE  Spot(n, a, b, i, j) \in 0 .. (a * Divide) * (b * Divide) - 1
<1> USE DivideAssumption
<1> DEFINE r == n % Divide
           q == n \div Divide
           w == a * Divide
           h == b * Divide
           x == r * a + i
           y == q * b + j
<1>1. q \in Nat /\ r \in 0 .. Divide - 1 /\ n = q * Divide + r
  BY SMT
<1> HIDE DEF r, q
<1>2. q + 1 <= Divide
  <2> SUFFICES ASSUME Divide <= q PROVE FALSE
    BY <1>1, SMT
  <2>1. Divide * Divide <= q * Divide
    BY <1>1, ProductMonotone
  <2> DEFINE s == Divide * Divide
             t == q * Divide
  <2>2. s \in Nat /\ t \in Nat /\ s <= t /\ n < s /\ n = t + r /\ r \in Nat
    <3>1. Divide * Divide \in Nat /\ q * Divide \in Nat
      BY <1>1, SMT
    <3> QED
      BY <1>1, <2>1, <3>1
  <2> HIDE DEF s, t
  <2> QED
    BY <2>2, SMT
<1>3. x \in Nat /\ x + 1 <= w /\ w \in Nat
  <2>1. (r + 1) * a <= Divide * a
    BY <1>1, ProductMonotone
  <2>2. (r + 1) * a = r * a + a /\ r * a \in Nat /\ Divide * a = a * Divide /\ a * Divide \in Nat
    BY <1>1, SMT
  <2> HIDE DEF w
  <2>3. Divide * a = w /\ w \in Nat
    BY <2>2 DEF w
  <2> QED
    BY <2>1, <2>2, <2>3, SMT
<1>4. y \in Nat /\ y + 1 <= h /\ h \in Nat
  <2>1. (q + 1) * b <= Divide * b
    BY <1>1, <1>2, ProductMonotone
  <2>2. (q + 1) * b = q * b + b /\ q * b \in Nat /\ Divide * b = b * Divide /\ b * Divide \in Nat
    BY <1>1, SMT
  <2> HIDE DEF h
  <2>3. Divide * b = h /\ h \in Nat
    BY <2>2 DEF h
  <2> QED
    BY <2>1, <2>2, <2>3, SMT
<1>5. Spot(n, a, b, i, j) = x + y * w
  BY DEF Spot, r, q
<1> HIDE DEF x, y, w, h
<1>6. (y + 1) * w <= h * w
  BY <1>3, <1>4, ProductMonotone
<1>7. (y + 1) * w = y * w + w /\ y * w \in Nat /\ h * w = w * h /\ w * h \in Nat
  BY <1>3, <1>4, SMT
<1>8. x + y * w \in 0 .. w * h - 1
  BY <1>3, <1>6, <1>7, SMT
<1> QED
  BY <1>5, <1>8 DEF w, h

\* The first factor of a quotient.
LEMMA QuotientBelow ==
    ASSUME NEW k \in Nat, NEW d \in Nat \ {0}, NEW m \in Nat, k < d * m
    PROVE  k \div d \in Nat /\ k \div d < m /\ k % d \in 0 .. d - 1 /\ k = (k \div d) * d + (k % d)
<1> DEFINE p == k \div d
           s == k % d
<1>1. p \in Nat /\ s \in 0 .. d - 1 /\ k = p * d + s
  BY SMT
<1> HIDE DEF p, s
<1>2. p < m
  <2> SUFFICES ASSUME m <= p PROVE FALSE
    BY <1>1, SMT
  <2>1. m * d <= p * d
    BY <1>1, ProductMonotone
  <2>2. m * d = d * m /\ p * d \in Nat /\ d * m \in Nat
    BY <1>1, SMT
  <2> QED
    BY <1>1, <2>1, <2>2, SMT
<1> QED
  BY <1>1, <1>2 DEF p, s

LEMMA SpotFound ==
    ASSUME NEW a \in Nat \ {0}, NEW b \in Nat \ {0}, NEW k \in 0 .. (a * Divide) * (b * Divide) - 1
    PROVE  \E n \in 0 .. Divide * Divide - 1, i \in 0 .. a - 1, j \in 0 .. b - 1 :
               Spot(n, a, b, i, j) = k
<1> USE DivideAssumption
<1> DEFINE w == a * Divide
           h == b * Divide
           X == k % w
           Y == k \div w
           r == X \div a
           q == Y \div b
           i == X % a
           j == Y % b
           n == q * Divide + r
<1>1. w \in Nat \ {0} /\ h \in Nat \ {0} /\ k \in Nat /\ k < w * h
  <2>1. a * Divide \in Nat \ {0} /\ b * Divide \in Nat \ {0}
    <3>1. Divide <= a * Divide /\ Divide <= b * Divide /\ a * Divide \in Nat /\ b * Divide \in Nat
      <4>1. 1 * Divide <= a * Divide /\ 1 * Divide <= b * Divide
        <5>1. 1 <= a /\ 1 <= b
          BY SMT
        <5> QED
          BY <5>1, ProductMonotone
      <4> QED
        BY <4>1, SMT
    <3> QED
      BY <3>1, SMT
  <2>2. (a * Divide) * (b * Divide) \in Nat
    BY <2>1, SMT
  <2> DEFINE s == (a * Divide) * (b * Divide)
  <2>3. s \in Nat /\ k \in 0 .. s - 1
    BY <2>2
  <2> HIDE DEF s
  <2>4. k \in Nat /\ k < s
    BY <2>3, SMT
  <2> QED
    BY <2>1, <2>4 DEF s
<1>2. X \in 0 .. w - 1 /\ Y \in Nat /\ Y < h /\ k = Y * w + X
  <2> HIDE DEF w, h
  <2> QED
    BY <1>1, QuotientBelow
<1> HIDE DEF X, Y
<1>3. r \in Nat /\ r < Divide /\ i \in 0 .. a - 1 /\ X = r * a + i
  <2>1. X \in Nat /\ X < a * Divide
    <3> HIDE DEF w
    <3>1. X \in Nat /\ X < w
      BY <1>1, <1>2, SMT
    <3> QED
      BY <3>1 DEF w
  <2> QED
    BY <2>1, QuotientBelow
<1>4. q \in Nat /\ q < Divide /\ j \in 0 .. b - 1 /\ Y = q * b + j
  BY <1>2, QuotientBelow
<1> HIDE DEF r, q, i, j
<1>5. n \div Divide = q /\ n % Divide = r
  <2>1. r \in 0 .. Divide - 1
    BY <1>3, SMT
  <2> QED
    BY <1>4, <2>1, DivModUnique
<1>6. n \in 0 .. Divide * Divide - 1
  <2>1. (q + 1) * Divide <= Divide * Divide
    <3>1. q + 1 <= Divide
      BY <1>4, SMT
    <3> QED
      BY <1>4, <3>1, ProductMonotone
  <2>2. (q + 1) * Divide = q * Divide + Divide /\ q * Divide \in Nat /\ Divide * Divide \in Nat
    BY <1>4, SMT
  <2> QED
    BY <1>3, <2>1, <2>2, SMT
<1> HIDE DEF n
<1>7. Spot(n, a, b, i, j) = (r * a + i) + (q * b + j) * w
  BY <1>5 DEF Spot
<1>8. Spot(n, a, b, i, j) = X + Y * w
  BY <1>3, <1>4, <1>7
<1>9. X + Y * w = Y * w + X
  <2> HIDE DEF w
  <2> QED
    BY <1>1, <1>2, SMT
<1>10. Spot(n, a, b, i, j) = k
  BY <1>2, <1>8, <1>9
<1> QED
  BY <1>3, <1>4, <1>6, <1>10

-----------------------------------------------------------------------------
(* The inductive invariant.                                                *)

CompRecord ==
    [w : Nat, h : Nat, cid : Nat, cur_x : Nat, cur_y : Nat,
     abort : BOOLEAN, computing : BOOLEAN, done : BOOLEAN]
TypeAt(c) == c \in CompRecord /\ c.w \in 1 .. MaxWidth /\ c.cid <= Divide * Divide

\* A computation that runs is at one of the chunks.  Without it the chunk
\* number would not be known to stay within the image when compute() goes on.
RunningAt(c) == c.computing => c.cid < Divide * Divide

CursorAt(c, a, b) ==
    c.cid < Divide * Divide =>
        /\ c.cur_x = (c.cid % Divide) * a
        /\ c.cur_y = (c.cid \div Divide) * b

StoredAt(c, l) ==
    l # NoStore /\ l.pixel[1] = c.w /\ l.pixel[2] = c.h => l.pixel = Pixel(c, l.index % c.w, l.index \div c.w)

\* The properties of Computation in terms of the size a * b of a chunk, with
\* what they rest on.
GoodAt(c, l, a, b) ==
    /\ Tiled(c, a, b) /\ TypeAt(c) /\ RunningAt(c) /\ CursorAt(c, a, b) /\ StoredAt(c, l)

\* A request is for a chunk of an image as it was tiled at the time.
AskedOf(q, a, b) ==
    /\ Tiled(q, a, b) /\ q.n_re = a /\ q.n_im = b
    /\ q.cid \in Nat /\ q.cid < Divide * Divide
    /\ q.x = (q.cid % Divide) * a /\ q.y = (q.cid \div Divide) * b
AskedWell == \A q \in asked : \E a, b \in 1 .. 255 : AskedOf(q, a, b)

CompGood == \E a, b \in 1 .. 255 : GoodAt(comp, last, a, b)
IInv == CompGood /\ AskedWell

\* The invariant gives the properties of Computation.
LEMMA Consequences == IInv => CompType /\ CursorMatchesCid /\ StoredInPlace
<1> SUFFICES ASSUME IInv PROVE CompType /\ CursorMatchesCid /\ StoredInPlace
  OBVIOUS
<1>1. PICK a, b \in 1 .. 255 : GoodAt(comp, last, a, b)
  BY DEF IInv, CompGood
<1>2. ChunkRe(comp) = a /\ ChunkIm(comp) = b /\ NbrChunks(comp) = Divide * Divide
  BY <1>1, TilingSizes DEF GoodAt
<1> QED
  BY <1>1, <1>2 DEF GoodAt, CompType, TypeAt, CompRecord, CursorMatchesCid, CursorAt,
                    StoredInPlace, StoredAt

-----------------------------------------------------------------------------
(* The steps.                                                              *)

\* The flags do not matter to the rest of the invariant, as long as the
\* computation is not set running.
LEMMA FlagsStep ==
    ASSUME NEW c, NEW l, NEW a, NEW b, GoodAt(c, l, a, b), NEW d \in CompRecord,
           d.w = c.w, d.h = c.h, d.cid = c.cid, d.cur_x = c.cur_x, d.cur_y = c.cur_y,
           d.computing => c.computing
    PROVE  GoodAt(d, l, a, b)
BY DEF GoodAt, Tiled, TypeAt, RunningAt, CursorAt, StoredAt, Pixel

\* Divide * Divide is at least one chunk.
LEMMA OneChunk == Divide * Divide \in Nat /\ 0 < Divide * Divide
<1>1. PICK k \in Nat : Divide = k + 1
  <2>1. Divide - 1 \in Nat /\ Divide = (Divide - 1) + 1
    BY DivideAssumption, SMT
  <2> QED
    BY <2>1
<1>2. Divide * Divide = k * k + k + k + 1 /\ k * k \in Nat
  BY <1>1, SMT
<1> QED
  BY <1>2, SMT

\* Chunk 0 is at the corner of the image.
LEMMA ZeroStep ==
    ASSUME NEW c, NEW l, NEW a, NEW b, GoodAt(c, l, a, b), NEW d \in CompRecord,
           d.w = c.w, d.h = c.h, d.cid = 0, d.cur_x = 0, d.cur_y = 0
    PROVE  GoodAt(d, l, a, b)
<1>1. 0 % Divide = 0 /\ 0 \div Divide = 0
  BY DivideAssumption, SMT
<1>2. a \in Nat /\ b \in Nat /\ 0 * a = 0 /\ 0 * b = 0
  BY SMT DEF GoodAt, Tiled
<1>3. CursorAt(d, a, b)
  BY <1>1, <1>2 DEF CursorAt
<1>4. TypeAt(d) /\ RunningAt(d)
  BY OneChunk DEF GoodAt, TypeAt, RunningAt
<1> QED
  BY <1>3, <1>4 DEF GoodAt, Tiled, StoredAt, Pixel

\* compute() takes the corner along with the number.
LEMMA AdvanceStep ==
    ASSUME NEW c, NEW l, NEW a, NEW b, GoodAt(c, l, a, b)
    PROVE  GoodAt(Advanced(Enabled(c)), l, a, b)
<1> DEFINE e == Enabled(c)
<1>1. /\ e \in CompRecord /\ e.computing = c.computing /\ GoodAt(e, l, a, b)
  <2>1. /\ e \in CompRecord /\ e.computing = c.computing
        /\ e.w = c.w /\ e.h = c.h /\ e.cid = c.cid /\ e.cur_x = c.cur_x /\ e.cur_y = c.cur_y
    BY DEF GoodAt, TypeAt, CompRecord, Enabled
  <2> HIDE DEF e
  <2> QED
    BY <2>1, FlagsStep
<1> HIDE DEF e
<1>2. /\ ChunkRe(e) = a /\ ChunkIm(e) = b /\ NbrChunks(e) = Divide * Divide
      /\ a \in Nat \ {0} /\ b \in Nat \ {0}
  <2>1. Tiled(e, a, b)
    BY <1>1 DEF GoodAt
  <2>2. a \in Nat \ {0} /\ b \in Nat \ {0}
    BY <2>1, SMT DEF Tiled
  <2> QED
    BY <2>1, <2>2, TilingSizes
<1>3. CASE ~e.computing
  <2>1. /\ FirstChunk(e) \in CompRecord /\ FirstChunk(e).w = e.w /\ FirstChunk(e).h = e.h
        /\ FirstChunk(e).cid = 0 /\ FirstChunk(e).cur_x = 0 /\ FirstChunk(e).cur_y = 0
    BY <1>1 DEF CompRecord, FirstChunk
  <2>2. GoodAt(FirstChunk(e), l, a, b)
    BY <1>1, <2>1, ZeroStep
  <2> QED
    BY <1>3, <2>2 DEF Advanced, e
<1>4. CASE e.computing /\ HasNext(e)
  <2> DEFINE d == NextChunk(e)
             x == e.cur_x + a
  <2>1. /\ d \in CompRecord /\ d.w = e.w /\ d.h = e.h /\ d.cid = e.cid + 1
        /\ d.cur_x = (IF x >= e.w THEN 0 ELSE x)
        /\ d.cur_y = (IF x >= e.w THEN e.cur_y + b ELSE e.cur_y)
    <3> DEFINE m == e.cid + 1
               nx == IF x >= e.w THEN 0 ELSE x
               ny == IF x >= e.w THEN e.cur_y + b ELSE e.cur_y
    <3>1. m \in Nat /\ nx \in Nat /\ ny \in Nat
      BY <1>1, <1>2, SMT DEF CompRecord
    <3>2. d = [e EXCEPT !.cid = m, !.cur_x = nx, !.cur_y = ny]
      BY <1>2 DEF NextChunk
    <3> HIDE DEF m, nx, ny, d
    <3>3. d \in CompRecord /\ d.w = e.w /\ d.h = e.h /\ d.cid = m /\ d.cur_x = nx /\ d.cur_y = ny
      BY <1>1, <3>1, <3>2 DEF CompRecord
    <3> QED
      BY <3>3 DEF m, nx, ny
  <2> HIDE DEF d
  <2>2. e.cid \in Nat /\ e.cid + 1 < Divide * Divide /\ Divide * Divide \in Nat
    BY <1>1, <1>2, <1>4, OneChunk DEF HasNext, CompRecord
  <2>3. e.cur_x = (e.cid % Divide) * a /\ e.cur_y = (e.cid \div Divide) * b /\ e.w = a * Divide
    BY <1>1, <2>2, SMT DEF GoodAt, CursorAt, Tiled
  <2>4. d.cur_x = ((e.cid + 1) % Divide) * a /\ d.cur_y = ((e.cid + 1) \div Divide) * b
    <3>1. CASE x >= e.w
      <4>1. (e.cid + 1) % Divide = 0 /\ (e.cid + 1) \div Divide = e.cid \div Divide + 1
        BY <1>2, <2>2, <2>3, <3>1, NextCorner
      <4>2. e.cid \div Divide \in Nat
        BY <1>2, <2>2, NextCorner
      <4>3. 0 * a = 0 /\ (e.cid \div Divide + 1) * b = (e.cid \div Divide) * b + b
        BY <1>2, <4>2, SMT
      <4> QED
        BY <2>1, <2>3, <3>1, <4>1, <4>3
    <3>2. CASE ~(x >= e.w)
      <4>1. /\ (e.cid + 1) % Divide = (e.cid % Divide) + 1
            /\ (e.cid + 1) \div Divide = e.cid \div Divide
            /\ x = ((e.cid % Divide) + 1) * a
        <5> DEFINE n == e.cid
        <5>1. n \in Nat /\ a \in Nat \ {0} /\ x = (n % Divide) * a + a
          BY <1>2, <2>2, <2>3
        <5>2. ~((n % Divide) * a + a >= a * Divide)
          BY <2>3, <3>2, <5>1
        <5> HIDE DEF n
        <5>3. /\ (n + 1) % Divide = (n % Divide) + 1 /\ (n + 1) \div Divide = n \div Divide
              /\ (n % Divide) * a + a = ((n % Divide) + 1) * a
          BY <5>1, <5>2, NextCorner
        <5> QED
          BY <5>1, <5>3 DEF n
      <4> QED
        BY <2>1, <2>3, <3>2, <4>1
    <3> QED
      BY <3>1, <3>2
  <2>5. GoodAt(d, l, a, b)
    BY <1>1, <2>1, <2>2, <2>4, SMT
       DEF GoodAt, Tiled, TypeAt, RunningAt, CursorAt, StoredAt, Pixel
  <2> QED
    BY <1>4, <2>5 DEF Advanced, d, e
<1>5. CASE e.computing /\ ~HasNext(e)
  <2> DEFINE d == NoChunkLeft(e)
  <2> DEFINE m == e.cid + 1
  <2>0. m \in Nat
    BY <1>1, SMT DEF CompRecord
  <2>1. /\ d \in CompRecord /\ d.w = e.w /\ d.h = e.h /\ d.cid = e.cid + 1 /\ ~d.computing
    <3>1. d = [e EXCEPT !.cid = m, !.done = TRUE, !.computing = FALSE]
      BY DEF NoChunkLeft
    <3> HIDE DEF m, d
    <3>2. d \in CompRecord /\ d.w = e.w /\ d.h = e.h /\ d.cid = m /\ ~d.computing
      BY <1>1, <2>0, <3>1 DEF CompRecord
    <3> QED
      BY <3>2 DEF m
  <2> HIDE DEF d
  <2>2. e.cid \in Nat /\ e.cid < Divide * Divide /\ ~(e.cid + 1 < Divide * Divide)
    BY <1>1, <1>2, <1>5, OneChunk DEF HasNext, CompRecord, GoodAt, RunningAt
  <2>3. d.cid = Divide * Divide
    BY <2>1, <2>2, OneChunk, SMT
  <2>4. GoodAt(d, l, a, b)
    BY <1>1, <2>1, <2>3, OneChunk, SMT
       DEF GoodAt, Tiled, TypeAt, RunningAt, CursorAt, StoredAt, Pixel
  <2> QED
    BY <1>5, <2>4 DEF Advanced, d, e
<1> QED
  BY <1>3, <1>4, <1>5

\* A new size is again a multiple of Divide, and its chunks fit a byte.
LEMMA ResizeStep ==
    ASSUME NEW c, NEW l, NEW a, NEW b, GoodAt(c, l, a, b), NEW n \in {-Step, Step},
           c.w + n <= MaxWidth, c.h + n > 0
    PROVE  \E a2, b2 \in 1 .. 255 : GoodAt(Resized(c, n), NoStore, a2, b2)
<1>1. PICK k \in 1 .. Step : Step = k * Divide
  BY SizeAssumption
<1>2. /\ a \in Nat \ {0} /\ b \in Nat \ {0} /\ k \in Nat \ {0} /\ Step \in Nat
      /\ b <= a /\ c.w = a * Divide /\ c.h = b * Divide
      /\ c \in CompRecord /\ MaxWidth \in Nat
  BY <1>1, SizeAssumption, SMT DEF GoodAt, Tiled, TypeAt
<1>3. PICK t \in Int : n = t * Divide
  <2>1. -Step = (-k) * Divide /\ -k \in Int /\ k \in Int
    BY <1>1, <1>2, DivideAssumption, SMT
  <2> QED
    BY <1>1, <2>1
<1> DEFINE d == Resized(c, n)
           a2 == a + t
           b2 == b + t
<1>4. a2 \in Int /\ b2 \in Int /\ b2 <= a2 /\ c.w + n = a2 * Divide /\ c.h + n = b2 * Divide
  BY <1>2, <1>3, DivideAssumption, SMT
<1> HIDE DEF a2, b2
<1>5. b2 \in Nat \ {0} /\ a2 \in Nat \ {0}
  <2> SUFFICES ASSUME ~(1 <= b2) PROVE FALSE
    BY <1>4, SMT
  <2>1. -b2 \in Nat /\ (-b2) * Divide \in Nat
    BY <1>4, DivideAssumption, SMT
  <2>2. b2 * Divide = -((-b2) * Divide)
    BY <1>4, DivideAssumption, SMT
  <2> DEFINE m == (-b2) * Divide
  <2>3. m \in Nat /\ c.h + n = -m
    BY <1>4, <2>1, <2>2
  <2> HIDE DEF m
  <2> QED
    BY <2>3, SMT
<1>6. /\ d \in CompRecord /\ d.w = c.w + n /\ d.h = c.h + n
      /\ d.cid = 0 /\ d.cur_x = 0 /\ d.cur_y = 0
  <2> DEFINE w2 == c.w + n
             h2 == c.h + n
  <2>1. w2 \in Nat /\ h2 \in Nat
    <3>1. a2 * Divide \in Nat /\ b2 * Divide \in Nat
      BY <1>5, DivideAssumption, SMT
    <3> QED
      BY <1>4, <3>1
  <2>2. d = [[c EXCEPT !.w = w2, !.h = h2] EXCEPT !.cid = 0, !.cur_x = 0, !.cur_y = 0]
    BY DEF Resized, AtChunkZero
  <2> HIDE DEF w2, h2, d
  <2> DEFINE e == [c EXCEPT !.w = w2, !.h = h2]
  <2>3. e \in CompRecord /\ e.w = w2 /\ e.h = h2
    BY <1>2, <2>1 DEF CompRecord
  <2> HIDE DEF e
  <2>4. d = [e EXCEPT !.cid = 0, !.cur_x = 0, !.cur_y = 0]
    BY <2>2 DEF e
  <2>5. d \in CompRecord /\ d.w = w2 /\ d.h = h2 /\ d.cid = 0 /\ d.cur_x = 0 /\ d.cur_y = 0
    BY <2>3, <2>4 DEF CompRecord
  <2> QED
    BY <2>5 DEF w2, h2
<1> HIDE DEF d
<1>7. a2 \in 1 .. 255 /\ b2 \in 1 .. a2 /\ b2 \in 1 .. 255
  <2>1. a2 * Divide < 256 * Divide
    <3>1. a2 * Divide \in Nat /\ 256 * Divide \in Nat
      BY <1>5, DivideAssumption, SMT
    <3> QED
      BY <1>2, <1>4, <3>1, SizeAssumption, SMT
  <2>2. a2 \in 1 .. 255
    BY <1>5, <2>1, ByteFactor
  <2> QED
    BY <1>4, <1>5, <2>2, SMT
<1>8. Tiled(d, a2, b2)
  BY <1>4, <1>6, <1>7 DEF Tiled
<1>9. TypeAt(d) /\ RunningAt(d)
  <2>1. d.w \in Nat /\ d.w <= MaxWidth /\ 1 <= d.w
    <3>1. 1 * Divide <= a2 * Divide /\ 1 * Divide = Divide
      <4>1. 1 <= a2
        BY <1>5, SMT
      <4> QED
        BY <1>5, <4>1, ProductMonotone, DivideAssumption, SMT
    <3>2. a2 * Divide \in Nat
      BY <1>5, DivideAssumption, SMT
    <3> DEFINE p == a2 * Divide
    <3>3. p \in Nat /\ Divide <= p /\ d.w = p
      BY <1>4, <1>6, <3>1, <3>2
    <3> HIDE DEF p
    <3> QED
      BY <1>6, <3>3, DivideAssumption, SMT
  <2>2. d.w \in 1 .. MaxWidth
    BY <1>2, <2>1, SMT
  <2> QED
    BY <1>6, <2>2, OneChunk DEF TypeAt, RunningAt
<1>10. CursorAt(d, a2, b2)
  <2>1. 0 % Divide = 0 /\ 0 \div Divide = 0 /\ 0 * a2 = 0 /\ 0 * b2 = 0
    BY <1>5, DivideAssumption, SMT
  <2> QED
    BY <1>6, <2>1 DEF CursorAt
<1> QED
  BY <1>7, <1>8, <1>9, <1>10 DEF GoodAt, StoredAt, d

\* What compute() asks for is a chunk of the image as it is tiled.
LEMMA RequestWell ==
    ASSUME NEW c, NEW l, NEW a \in 1 .. 255, NEW b \in 1 .. 255, GoodAt(c, l, a, b), c.computing
    PROVE  AskedOf(Request(c), a, b)
<1>1. ChunkRe(c) = a /\ ChunkIm(c) = b /\ Tiled(c, a, b)
  BY TilingSizes DEF GoodAt
<1>2. c.cid \in Nat /\ c.cid < Divide * Divide /\ c.cur_x = (c.cid % Divide) * a /\ c.cur_y = (c.cid \div Divide) * b
  BY DEF GoodAt, TypeAt, CompRecord, RunningAt, CursorAt
<1> QED
  BY <1>1, <1>2 DEF Request, AskedOf, Tiled

\* Data that carry the number of the current chunk are stored where they
\* belong, if they are of the present size; others change nothing.
LEMMA DataStep ==
    ASSUME NEW c, NEW l, NEW a, NEW b, GoodAt(c, l, a, b),
           NEW q, NEW a2, NEW b2, AskedOf(q, a2, b2),
           NEW i \in 0 .. q.n_re - 1, NEW j \in 0 .. q.n_im - 1
    PROVE  LET d == DataOf(q, i, j)
               l2 == IF Hits(c, d) THEN [index |-> Index(c, d), pixel |-> d.iter] ELSE l
           IN  GoodAt(Updated(c, d), l2, a, b)
<1> DEFINE d == DataOf(q, i, j)
           l2 == IF Hits(c, d) THEN [index |-> Index(c, d), pixel |-> d.iter] ELSE l
<1>1. /\ ChunkRe(c) = a /\ ChunkIm(c) = b /\ NbrChunks(c) = Divide * Divide
      /\ a \in Nat \ {0} /\ b \in Nat \ {0} /\ c.w = a * Divide /\ c \in CompRecord
  <2>1. Tiled(c, a, b) /\ c \in CompRecord
    BY DEF GoodAt, TypeAt
  <2>2. a \in Nat \ {0} /\ b \in Nat \ {0} /\ c.w = a * Divide
    BY <2>1, SMT DEF Tiled
  <2> QED
    BY <2>1, <2>2, TilingSizes
<1>3. StoredAt(c, l2)
  <2>1. CASE ~Hits(c, d)
    BY <2>1 DEF GoodAt
  <2>2. CASE Hits(c, d) /\ ~(q.w = c.w /\ q.h = c.h)
    <3>1. d.iter[1] = q.w /\ d.iter[2] = q.h
      BY DEF DataOf
    <3> HIDE DEF d
    <3>2. l2.pixel = d.iter
      BY <2>2
    <3> QED
      BY <2>2, <3>1, <3>2 DEF StoredAt
  <2>3. CASE Hits(c, d) /\ q.w = c.w /\ q.h = c.h
    <3>0. a2 = a /\ b2 = b
      <4>1. ChunkRe(q) = a2 /\ ChunkIm(q) = b2
        BY TilingSizes DEF AskedOf
      <4>2. ChunkRe(q) = ChunkRe(c) /\ ChunkIm(q) = ChunkIm(c)
        BY <2>3 DEF ChunkRe, ChunkIm
      <4> QED
        BY <1>1, <4>1, <4>2
    <3> DEFINE n == q.cid
               x == (n % Divide) * a + i
               y == (n \div Divide) * b + j
    <3>2. n = c.cid /\ n \in Nat /\ n < Divide * Divide
      BY <2>3 DEF Hits, Takes, DataOf, AskedOf
    <3>3. q.x = (n % Divide) * a /\ q.y = (n \div Divide) * b /\ q.n_re = a /\ q.n_im = b
      BY <3>0 DEF AskedOf
    <3>4. d.iter = Pixel(c, x, y)
      BY <2>3, <3>3 DEF DataOf, Pixel
    <3>5. i \in 0 .. a - 1 /\ j \in 0 .. b - 1
      BY <3>3
    <3>6. c.cur_x = (n % Divide) * a /\ c.cur_y = (n \div Divide) * b
      BY <3>2 DEF GoodAt, CursorAt
    <3>7. Index(c, d) = x + y * c.w
      BY <3>6 DEF Index, DataOf
    <3>8. (x + y * (a * Divide)) % (a * Divide) = x /\ (x + y * (a * Divide)) \div (a * Divide) = y
      BY <1>1, <3>2, <3>5, PixelIndex
    <3>9. Index(c, d) % c.w = x /\ Index(c, d) \div c.w = y
      BY <1>1, <3>7, <3>8
    <3> HIDE DEF x, y, d
    <3>10. l2.pixel = Pixel(c, l2.index % c.w, l2.index \div c.w)
      BY <2>3, <3>4, <3>9
    <3> QED
      BY <3>10 DEF StoredAt
  <2> QED
    BY <2>1, <2>2, <2>3
<1>4. GoodAt(c, l2, a, b)
  BY <1>3 DEF GoodAt
<1>5. /\ Updated(c, d) \in CompRecord
      /\ Updated(c, d).w = c.w /\ Updated(c, d).h = c.h /\ Updated(c, d).cid = c.cid
      /\ Updated(c, d).cur_x = c.cur_x /\ Updated(c, d).cur_y = c.cur_y
      /\ (Updated(c, d).computing => c.computing)
  <2>1. CASE Takes(c, d) /\ IsLastPixel(c, d)
    <3>1. Updated(c, d) = [c EXCEPT !.done = TRUE, !.computing = FALSE]
      BY <2>1 DEF Updated
    <3> QED
      BY <1>1, <3>1 DEF CompRecord
  <2>2. CASE ~(Takes(c, d) /\ IsLastPixel(c, d))
    <3>1. Updated(c, d) = c
      BY <2>2 DEF Updated
    <3> QED
      BY <1>1, <3>1
  <2> QED
    BY <2>1, <2>2
<1> HIDE DEF d, l2
<1>6. GoodAt(Updated(c, d), l2, a, b)
  BY <1>4, <1>5, FlagsStep
<1> QED
  BY <1>6 DEF d, l2

-----------------------------------------------------------------------------
(* The theorems.                                                           *)

LEMMA InitGood == Init => IInv
<1> SUFFICES ASSUME Init PROVE IInv
  OBVIOUS
<1>1. PICK a \in 1 .. Width : Width = a * Divide
  BY SizeAssumption
<1>2. PICK b \in 1 .. Height : Height = b * Divide
  BY SizeAssumption
<1>3. /\ a \in Nat \ {0} /\ b \in Nat \ {0} /\ Width \in Nat /\ Height \in Nat
      /\ Height <= Width /\ Width <= MaxWidth /\ MaxWidth \in Nat
  BY SizeAssumption, SMT
<1>4. a \in 1 .. 255
  <2>1. a * Divide < 256 * Divide
    <3>1. a * Divide \in Nat /\ 256 * Divide \in Nat
      BY <1>3, DivideAssumption, SMT
    <3> QED
      BY <1>1, <1>3, <3>1, SizeAssumption, SMT
  <2> QED
    BY <1>3, <2>1, ByteFactor
<1>5. b \in 1 .. a
  <2> SUFFICES ASSUME a + 1 <= b PROVE FALSE
    BY <1>3, SMT
  <2>1. (a + 1) * Divide <= b * Divide
    BY <1>3, ProductMonotone, DivideAssumption
  <2>2. (a + 1) * Divide = a * Divide + Divide /\ a * Divide \in Nat
    BY <1>3, DivideAssumption, SMT
  <2> QED
    BY <1>1, <1>2, <1>3, <2>1, <2>2, DivideAssumption, SMT
<1>6. /\ comp \in CompRecord /\ comp.w = Width /\ comp.h = Height /\ comp.cid = 0
      /\ comp.cur_x = 0 /\ comp.cur_y = 0 /\ last = NoStore
  BY <1>3 DEF Init, CompInit, CompRecord
<1>11. AskedWell
  BY DEF Init, AskedWell
<1>7. Tiled(comp, a, b) /\ StoredAt(comp, last)
  BY <1>1, <1>2, <1>4, <1>5, <1>6 DEF Tiled, StoredAt
<1>8. TypeAt(comp) /\ RunningAt(comp)
  <2>1. comp.w \in 1 .. MaxWidth
    BY <1>3, <1>6, SizeAssumption, SMT
  <2> QED
    BY <1>6, <2>1, OneChunk DEF TypeAt, RunningAt
<1>9. CursorAt(comp, a, b)
  <2>1. 0 % Divide = 0 /\ 0 \div Divide = 0 /\ 0 * a = 0 /\ 0 * b = 0
    BY <1>3, DivideAssumption, SMT
  <2> QED
    BY <1>6, <2>1 DEF CursorAt
<1>10. b \in 1 .. 255
  BY <1>4, <1>5, SMT
<1> QED
  BY <1>4, <1>7, <1>8, <1>9, <1>10, <1>11 DEF IInv, CompGood, GoodAt

\* Requests stay as they were made.
LEMMA AskedStep ==
    ASSUME IInv, [Next]_compVars
    PROVE  AskedWell'
<1>1. CASE asked' = asked
  BY <1>1 DEF IInv, AskedWell
<1>2. CASE Compute /\ asked' # asked
  <2>1. PICK a, b \in 1 .. 255 : GoodAt(comp, last, a, b)
    BY DEF IInv, CompGood
  <2>2. GoodAt(comp', last, a, b)
    BY <1>2, <2>1, AdvanceStep DEF Compute
  <2>3. comp'.computing /\ asked' = asked \cup {Request(comp')}
    BY <1>2 DEF Compute
  <2>4. AskedOf(Request(comp'), a, b)
    BY <2>2, <2>3, RequestWell
  <2> QED
    BY <2>3, <2>4 DEF IInv, AskedWell
<1> QED
  BY <1>1, <1>2 DEF Next, SetCompute, Compute, AbortComp, EnableComp, ResetChunkId, ClearBuffer,
                    ChangeImageSize, UpdateData, compVars

LEMMA NextGood == IInv /\ [Next]_compVars => IInv'
<1> SUFFICES ASSUME IInv, [Next]_compVars PROVE IInv'
  OBVIOUS
<1>1. PICK a, b \in 1 .. 255 : GoodAt(comp, last, a, b)
  BY DEF IInv, CompGood
<1>2. comp \in CompRecord
  BY <1>1 DEF GoodAt, TypeAt
<1> SUFFICES \E a2, b2 \in 1 .. 255 : GoodAt(comp', last', a2, b2)
  BY AskedStep DEF IInv, CompGood
<1>3. CASE SetCompute
  <2>1. /\ comp' \in CompRecord /\ comp'.w = comp.w /\ comp'.h = comp.h /\ comp'.cid = comp.cid
        /\ comp'.cur_x = comp.cur_x /\ comp'.cur_y = comp.cur_y
        /\ (comp'.computing => comp.computing) /\ last' = last
    BY <1>2, <1>3 DEF SetCompute, AfterSet, CompRecord
  <2>2. GoodAt(comp', last, a, b)
    BY <1>1, <2>1, FlagsStep
  <2> QED
    BY <2>1, <2>2
<1>4. CASE Compute
  <2>1. GoodAt(comp', last', a, b)
    BY <1>1, <1>4, AdvanceStep DEF Compute
  <2> QED
    BY <2>1
<1>5. CASE AbortComp
  <2>1. /\ comp' \in CompRecord /\ comp'.w = comp.w /\ comp'.h = comp.h /\ comp'.cid = comp.cid
        /\ comp'.cur_x = comp.cur_x /\ comp'.cur_y = comp.cur_y
        /\ (comp'.computing => comp.computing) /\ last' = last
    BY <1>2, <1>5 DEF AbortComp, Aborted, CompRecord
  <2>2. GoodAt(comp', last, a, b)
    BY <1>1, <2>1, FlagsStep
  <2> QED
    BY <2>1, <2>2
<1>6. CASE EnableComp
  <2>1. /\ comp' \in CompRecord /\ comp'.w = comp.w /\ comp'.h = comp.h /\ comp'.cid = comp.cid
        /\ comp'.cur_x = comp.cur_x /\ comp'.cur_y = comp.cur_y
        /\ (comp'.computing => comp.computing) /\ last' = last
    BY <1>2, <1>6 DEF EnableComp, Enabled, CompRecord
  <2>2. GoodAt(comp', last, a, b)
    BY <1>1, <2>1, FlagsStep
  <2> QED
    BY <2>1, <2>2
<1>7. CASE ResetChunkId
  <2>1. /\ comp' \in CompRecord /\ comp'.w = comp.w /\ comp'.h = comp.h
        /\ comp'.cid = 0 /\ comp'.cur_x = 0 /\ comp'.cur_y = 0 /\ last' = last
    BY <1>2, <1>7 DEF ResetChunkId, AtChunkZero, CompRecord
  <2>2. GoodAt(comp', last, a, b)
    BY <1>1, <2>1, ZeroStep
  <2> QED
    BY <2>1, <2>2
<1>8. CASE ClearBuffer
  <2>1. GoodAt(comp', last', a, b)
    BY <1>1, <1>8 DEF ClearBuffer, GoodAt, StoredAt
  <2> QED
    BY <2>1
<1>9. CASE \E change \in {-Step, Step} : ChangeImageSize(change)
  <2>1. PICK change \in {-Step, Step} : ChangeImageSize(change)
    BY <1>9
  <2>2. /\ comp.w + change <= MaxWidth /\ comp.h + change > 0
        /\ comp' = Resized(comp, change) /\ last' = NoStore
    BY <2>1 DEF ChangeImageSize
  <2>3. \E a2, b2 \in 1 .. 255 : GoodAt(Resized(comp, change), NoStore, a2, b2)
    BY <1>1, <2>2, ResizeStep
  <2> QED
    BY <2>2, <2>3
<1>10. ASSUME NEW q \in asked, NEW i \in 0 .. q.n_re - 1, NEW j \in 0 .. q.n_im - 1,
              UpdateData(DataOf(q, i, j))
       PROVE  \E a2, b2 \in 1 .. 255 : GoodAt(comp', last', a2, b2)
  <2>1. PICK a3, b3 \in 1 .. 255 : AskedOf(q, a3, b3)
    BY DEF IInv, AskedWell
  <2>2. GoodAt(comp', last', a, b)
    BY <1>1, <1>10, <2>1, DataStep DEF UpdateData
  <2> QED
    BY <2>2
<1>11. CASE UNCHANGED compVars
  BY <1>1, <1>11 DEF compVars
<1> QED
  BY <1>3, <1>4, <1>5, <1>6, <1>7, <1>8, <1>9, <1>10, <1>11 DEF Next

\* The tiling, the position of the corner and the place of the last value
\* stored are kept by every function of computation.c.
THEOREM ComputationInductive == Spec => []IInv
BY InitGood, NextGood, PTL DEF Spec

\* CompType of Computation: the chunk number stays within the image, also
\* when compute() goes past the last chunk or the size changes.
THEOREM ChunkInImage == Spec => []CompType
BY ComputationInductive, Consequences, PTL

\* CursorMatchesCid of Computation: compute, reset_chunk_id and
\* change_image_size move the number and the corner of the chunk together.
THEOREM CursorFollowsCid == Spec => []CursorMatchesCid
BY ComputationInductive, Consequences, PTL

\* StoredInPlace of Computation: update_data stores each value of the present
\* size at its own pixel, whatever chunk the data are from and whatever sizes
\* the image had meanwhile.
THEOREM DataInPlace == Spec => []StoredInPlace
BY ComputationInductive, Consequences, PTL
=============================================================================
