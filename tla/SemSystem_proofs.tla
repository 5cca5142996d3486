---------------------------- MODULE SemSystem_proofs ----------------------------
(***************************************************************************)
(* Proofs about SemSystem.tla, for every size of the image and any number  *)
(* of keys and buttons pressed.                                            *)
(*                                                                         *)
(* Each theorem says in its assumptions which keys wait until all is       *)
(* quiet.  A key that waits is alone in the system when it is handled      *)
(* (Patient), so that chunks are asked for, computed and reported one at   *)
(* a time (OneToken).  The data on the way belong to the present tiling    *)
(* (AlignedLinks) and come before the report of their chunk (DataFirst).   *)
(* With that the last pixel of the image is always still to come while     *)
(* the computation is at its last chunk (LastInv), and what is not stored  *)
(* of the image is asked for, computed or on its way (Flow).               *)
(***************************************************************************)
EXTENDS SemSystem, SequenceTheorems, TLAPS

CP == INSTANCE Computation_proofs WITH asked <- {}
NP == INSTANCE Nucleo_proofs
       WITH fromHost <- toBoard, toHost <- events,
            Chunks <- {C!Request(C!CompInit)}, Parameters <- {}, NoParameters <- <<>>,
            MaxOnTheWay <- 0

-----------------------------------------------------------------------------
(* The computation on the host.                                            *)

\* Computation and Computation_proofs are the same operators under two names.
LEMMA SameOperators ==
    ASSUME NEW c, NEW d
    PROVE  /\ CP!ChunkRe(c) = C!ChunkRe(c) /\ CP!ChunkIm(c) = C!ChunkIm(c)
           /\ CP!NbrChunks(c) = C!NbrChunks(c) /\ CP!Pixel(c, d, d) = C!Pixel(c, d, d)
           /\ CP!Enabled(c) = C!Enabled(c) /\ CP!Advanced(c) = C!Advanced(c)
           /\ CP!Resized(c, d) = C!Resized(c, d)
           /\ CP!CompInit = C!CompInit /\ CP!NoStore = C!NoStore
<1>1. /\ CP!ChunkRe(c) = C!ChunkRe(c) /\ CP!ChunkIm(c) = C!ChunkIm(c)
      /\ CP!Pixel(c, d, d) = C!Pixel(c, d, d) /\ CP!Enabled(c) = C!Enabled(c)
      /\ CP!CompInit = C!CompInit /\ CP!NoStore = C!NoStore
  BY DEF CP!ChunkRe, C!ChunkRe, CP!ChunkIm, C!ChunkIm, CP!Pixel, C!Pixel, CP!Enabled,
         C!Enabled, CP!CompInit, C!CompInit, CP!NoStore, C!NoStore
<1>2. CP!NbrChunks(c) = C!NbrChunks(c)
  BY <1>1 DEF CP!NbrChunks, C!NbrChunks
<1>3. /\ CP!FirstChunk(c) = C!FirstChunk(c) /\ CP!NextChunk(c) = C!NextChunk(c)
      /\ CP!NoChunkLeft(c) = C!NoChunkLeft(c) /\ CP!HasNext(c) = C!HasNext(c)
  BY <1>1, <1>2 DEF CP!FirstChunk, C!FirstChunk, CP!NextChunk, C!NextChunk, CP!NoChunkLeft,
         C!NoChunkLeft, CP!HasNext, C!HasNext
<1>4. CP!Advanced(c) = C!Advanced(c)
  BY <1>3 DEF CP!Advanced, C!Advanced
<1>5. CP!Resized(c, d) = C!Resized(c, d)
  BY DEF CP!Resized, C!Resized, CP!AtChunkZero, C!AtChunkZero
<1> QED
  BY <1>1, <1>2, <1>4, <1>5

N2 == Divide * Divide
CompRecord ==
    [w : Nat, h : Nat, cid : Nat, cur_x : Nat, cur_y : Nat,
     abort : BOOLEAN, computing : BOOLEAN, done : BOOLEAN]

\* The invariant of Computation for a value c of comp, where a and b are the
\* columns and rows of a chunk.
Good(c, a, b) == a \in 1 .. 255 /\ b \in 1 .. 255 /\ CP!GoodAt(c, C!NoStore, a, b)

\* What it says.
LEMMA GoodMeans ==
    ASSUME NEW c, NEW a, NEW b, Good(c, a, b)
    PROVE  /\ c \in CompRecord
           /\ a \in Nat \ {0} /\ b \in Nat \ {0}
           /\ C!ChunkRe(c) = a /\ C!ChunkIm(c) = b /\ C!NbrChunks(c) = N2
           /\ c.w = a * Divide /\ c.h = b * Divide
           /\ c.w \in 1 .. MaxWidth /\ c.cid <= N2 /\ N2 \in Nat /\ 0 < N2
           /\ c.computing => c.cid < N2
           /\ c.cid < N2 => /\ c.cur_x = (c.cid % Divide) * a
                            /\ c.cur_y = (c.cid \div Divide) * b
<1>1. CP!Tiled(c, a, b) /\ CP!TypeAt(c) /\ CP!RunningAt(c) /\ CP!CursorAt(c, a, b)
  BY DEF Good, CP!GoodAt
<1>2. C!ChunkRe(c) = a /\ C!ChunkIm(c) = b /\ C!NbrChunks(c) = N2
  BY <1>1, CP!TilingSizes, ImageAssumption, SameOperators DEF N2
<1>3. N2 \in Nat /\ 0 < N2
  BY CP!OneChunk, ImageAssumption DEF N2
<1> QED
  BY <1>1, <1>2, <1>3 DEF Good, CP!Tiled, CP!TypeAt, CP!RunningAt, CP!CursorAt, CP!CompRecord, CompRecord, N2

\* Flags may change, but the computation does not start.
LEMMA FlagsKeepGood ==
    ASSUME NEW c, NEW a, NEW b, Good(c, a, b), NEW d \in CompRecord,
           d.w = c.w, d.h = c.h, d.cid = c.cid, d.cur_x = c.cur_x, d.cur_y = c.cur_y,
           d.computing => c.computing
    PROVE  Good(d, a, b)
BY CP!FlagsStep, ImageAssumption DEF Good, CompRecord, CP!CompRecord

\* What the functions of computation.c do to the flags and the chunk number.
LEMMA Flags ==
    ASSUME NEW c \in CompRecord
    PROVE  /\ C!Aborted(c) \in CompRecord
           /\ C!Aborted(c).abort /\ ~C!Aborted(c).computing /\ C!Aborted(c).done = c.done
           /\ C!Enabled(c) \in CompRecord
           /\ ~C!Enabled(c).abort /\ C!Enabled(c).computing = c.computing
           /\ C!Enabled(c).done = c.done
           /\ C!AfterSet(c) \in CompRecord
           /\ C!AfterSet(c).abort = c.abort /\ C!AfterSet(c).computing = c.computing
           /\ ~C!AfterSet(c).done
           /\ C!AtChunkZero(c) \in CompRecord
           /\ C!AtChunkZero(c).abort = c.abort /\ C!AtChunkZero(c).computing = c.computing
           /\ C!AtChunkZero(c).done = c.done
           /\ C!AtChunkZero(c).cid = 0 /\ C!AtChunkZero(c).cur_x = 0 /\ C!AtChunkZero(c).cur_y = 0
           /\ C!AtChunkZero(c).w = c.w /\ C!AtChunkZero(c).h = c.h
           /\ \A d \in {C!Aborted(c), C!Enabled(c), C!AfterSet(c)} :
                 /\ d.w = c.w /\ d.h = c.h /\ d.cid = c.cid
                 /\ d.cur_x = c.cur_x /\ d.cur_y = c.cur_y
BY DEF CompRecord, C!Aborted, C!Enabled, C!AfterSet, C!AtChunkZero

\* compute() after enable_comp(): the first chunk, the next one, or none left.
LEMMA AdvancedFields ==
    ASSUME NEW c, NEW a, NEW b, Good(c, a, b)
    PROVE  LET e == C!Advanced(C!Enabled(c))
           IN  /\ Good(e, a, b) /\ e.w = c.w /\ e.h = c.h /\ ~e.abort
               /\ \/ ~c.computing /\ e.computing /\ e.cid = 0 /\ e.done = c.done
                  \/ /\ c.computing /\ c.cid + 1 < N2
                     /\ e.computing /\ e.cid = c.cid + 1 /\ e.done = c.done
                  \/ c.computing /\ ~(c.cid + 1 < N2) /\ ~e.computing /\ e.done
<1> DEFINE d == C!Enabled(c)
           e == C!Advanced(d)
<1>1. Good(e, a, b)
  BY CP!AdvanceStep, ImageAssumption, SameOperators DEF Good
<1>2. d \in CompRecord /\ d.w = c.w /\ d.h = c.h /\ ~d.abort /\ d.computing = c.computing
      /\ d.done = c.done /\ d.cid = c.cid /\ c \in CompRecord
  BY GoodMeans, Flags
<1> HIDE DEF d
<1>3. Good(d, a, b)
  BY <1>2, Flags, FlagsKeepGood, GoodMeans DEF d
<1>4. C!HasNext(d) <=> c.cid + 1 < N2
  BY <1>2, <1>3, GoodMeans DEF C!HasNext
<1>5. CASE ~c.computing
  <2>1. e = [d EXCEPT !.cid = 0, !.computing = TRUE, !.cur_x = 0, !.cur_y = 0]
    BY <1>2, <1>5 DEF C!Advanced, C!FirstChunk
  <2>2. e.w = c.w /\ e.h = c.h /\ ~e.abort /\ e.computing /\ e.cid = 0 /\ e.done = c.done
    BY <1>2, <2>1 DEF CompRecord
  <2> HIDE DEF e
  <2> QED
    BY <1>1, <1>5, <2>2 DEF e, d
<1>6. CASE c.computing /\ c.cid + 1 < N2
  <2> DEFINE x == d.cur_x + C!ChunkRe(d)
             nx == IF x >= d.w THEN 0 ELSE x
             ny == IF x >= d.w THEN d.cur_y + C!ChunkIm(d) ELSE d.cur_y
             m == d.cid + 1
  <2>1. e = [d EXCEPT !.cid = m, !.cur_x = nx, !.cur_y = ny]
    BY <1>2, <1>4, <1>6 DEF C!Advanced, C!NextChunk
  <2> HIDE DEF nx, ny, m
  <2>2. e.w = c.w /\ e.h = c.h /\ ~e.abort /\ e.computing /\ e.cid = m /\ e.done = c.done
    BY <1>2, <1>6, <2>1 DEF CompRecord
  <2> HIDE DEF e
  <2> QED
    BY <1>1, <1>2, <1>6, <2>2 DEF e, d, m
<1>7. CASE c.computing /\ ~(c.cid + 1 < N2)
  <2> DEFINE m == d.cid + 1
  <2>1. e = [d EXCEPT !.cid = m, !.done = TRUE, !.computing = FALSE]
    BY <1>2, <1>4, <1>7 DEF C!Advanced, C!NoChunkLeft
  <2> HIDE DEF m
  <2>2. e.w = c.w /\ e.h = c.h /\ ~e.abort /\ ~e.computing /\ e.done
    BY <1>2, <2>1 DEF CompRecord
  <2> HIDE DEF e
  <2> QED
    BY <1>1, <1>7, <2>2 DEF e, d
<1> QED
  BY <1>5, <1>6, <1>7

\* update_data: the last pixel of the last chunk ends the computation.
EndsImage(c, d, a, b) == d.cid = c.cid /\ ~(c.cid + 1 < N2) /\ d.i_re + 1 = a /\ d.i_im + 1 = b
LEMMA UpdatedFields ==
    ASSUME NEW c, NEW a, NEW b, Good(c, a, b), NEW d
    PROVE  LET e == C!Updated(c, d)
           IN  /\ Good(e, a, b) /\ e.w = c.w /\ e.h = c.h /\ e.cid = c.cid /\ e.abort = c.abort
               /\ EndsImage(c, d, a, b) => e.done /\ ~e.computing
               /\ ~EndsImage(c, d, a, b) => e = c
<1>1. /\ C!Takes(c, d) <=> d.cid = c.cid
      /\ C!IsLastPixel(c, d) <=> ~(c.cid + 1 < N2) /\ d.i_re + 1 = a /\ d.i_im + 1 = b
      /\ c \in CompRecord /\ N2 \in Nat
  <2>1. c \in CompRecord /\ C!ChunkRe(c) = a /\ C!ChunkIm(c) = b /\ C!NbrChunks(c) = N2 /\ N2 \in Nat
    BY GoodMeans
  <2>2. c.cid + 1 >= N2 <=> ~(c.cid + 1 < N2)
    BY <2>1, SMT DEF CompRecord
  <2> QED
    BY <2>1, <2>2 DEF C!Takes, C!IsLastPixel
<1>2. CASE EndsImage(c, d, a, b)
  <2> DEFINE e == [c EXCEPT !.done = TRUE, !.computing = FALSE]
  <2>1. C!Updated(c, d) = e
    BY <1>1, <1>2 DEF C!Updated, EndsImage
  <2>2. /\ e \in CompRecord /\ e.w = c.w /\ e.h = c.h /\ e.cid = c.cid /\ e.abort = c.abort
        /\ e.cur_x = c.cur_x /\ e.cur_y = c.cur_y /\ e.done /\ ~e.computing
    BY <1>1 DEF CompRecord
  <2> HIDE DEF e
  <2>3. Good(e, a, b)
    BY <2>2, FlagsKeepGood
  <2> QED
    BY <1>2, <2>1, <2>2, <2>3
<1>3. CASE ~EndsImage(c, d, a, b)
  BY <1>1, <1>3 DEF C!Updated, EndsImage
<1> QED
  BY <1>2, <1>3

\* reset_chunk_id goes back to the corner of the image.
LEMMA ZeroKeepsGood ==
    ASSUME NEW c, NEW a, NEW b, Good(c, a, b)
    PROVE  Good(C!AtChunkZero(c), a, b)
<1> DEFINE d == C!AtChunkZero(c)
<1>1. d \in CompRecord /\ d.w = c.w /\ d.h = c.h /\ d.cid = 0 /\ d.cur_x = 0 /\ d.cur_y = 0
  BY GoodMeans, Flags
<1> HIDE DEF d
<1>2. CP!GoodAt(d, C!NoStore, a, b)
  BY <1>1, CP!ZeroStep, ImageAssumption DEF Good, CompRecord, CP!CompRecord
<1> QED
  BY <1>2 DEF Good, d

\* Another size: the flags stay, and the image begins again.
LEMMA ResizedFields ==
    ASSUME NEW c, NEW a, NEW b, Good(c, a, b), c.w + Step <= MaxWidth
    PROVE  /\ \E a2, b2 \in 1 .. 255 : Good(C!Resized(c, Step), a2, b2)
           /\ C!Resized(c, Step).cid = 0
           /\ C!Resized(c, Step).abort = c.abort /\ C!Resized(c, Step).computing = c.computing
           /\ C!Resized(c, Step).done = c.done
<1>1. PICK a2, b2 \in 1 .. 255 : CP!GoodAt(CP!Resized(c, Step), CP!NoStore, a2, b2)
  <2>1. c.h \in Nat /\ Step \in Nat \ {0} /\ c.h + Step > 0
    <3>1. c.h \in Nat /\ Step \in Nat \ {0}
      BY GoodMeans, ImageAssumption DEF CompRecord, C!SizeAssumption
    <3> QED
      BY <3>1
  <2>2. CP!GoodAt(c, C!NoStore, a, b)
    BY DEF Good
  <2> QED
    BY <2>1, <2>2, CP!ResizeStep, ImageAssumption, SameOperators
<1>2. Good(C!Resized(c, Step), a2, b2)
  BY <1>1, SameOperators DEF Good
<1> DEFINE w2 == c.w + Step
           h2 == c.h + Step
           e == [c EXCEPT !.w = w2, !.h = h2]
<1>3. w2 \in Nat /\ h2 \in Nat /\ c \in CompRecord
  <2>1. c \in CompRecord /\ Step \in Nat
    BY GoodMeans, ImageAssumption DEF C!SizeAssumption
  <2> QED
    BY <2>1 DEF CompRecord
<1>4. C!Resized(c, Step) = C!AtChunkZero(e)
  BY DEF C!Resized
<1> HIDE DEF w2, h2
<1>5. e \in CompRecord /\ e.abort = c.abort /\ e.computing = c.computing /\ e.done = c.done
  BY <1>3 DEF CompRecord
<1> HIDE DEF e
<1>6. /\ C!AtChunkZero(e).cid = 0 /\ C!AtChunkZero(e).abort = e.abort
      /\ C!AtChunkZero(e).computing = e.computing /\ C!AtChunkZero(e).done = e.done
  BY <1>5, Flags
<1> QED
  BY <1>2, <1>4, <1>5, <1>6

\* The computation starts at chunk 0 of a tiled image.
LEMMA InitIsGood == Init => \E a, b \in 1 .. 255 : Good(comp, a, b)
<1> SUFFICES ASSUME Init PROVE \E a, b \in 1 .. 255 : Good(comp, a, b)
  OBVIOUS
<1>1. comp = CP!CompInit /\ last = C!NoStore /\ CP!NoStore = C!NoStore
  BY SameOperators DEF Init, C!Init
<1>2. CP!Init
  BY <1>1 DEF CP!Init
<1>3. CP!IInv
  BY <1>2, CP!InitGood, ImageAssumption
<1> QED
  BY <1>1, <1>3 DEF CP!IInv, CP!CompGood, Good

-----------------------------------------------------------------------------
(* Sequences: the event queue and the link to the board.                   *)

\* No element of s is in S; at most one is.
Free(s, S) == \A n \in DOMAIN s : s[n] \notin S
Unique(s, S) == \A m, n \in DOMAIN s : s[m] \in S /\ s[n] \in S => m = n

\* Taking the first element.
LEMMA Popped ==
    ASSUME NEW E, NEW S, NEW s \in Seq(E), s # <<>>
    PROVE  /\ Tail(s) \in Seq(E) /\ Head(s) \in E /\ Head(s) = s[1] /\ 1 \in DOMAIN s
           /\ \A n \in DOMAIN Tail(s) : n + 1 \in DOMAIN s /\ n \in Nat \ {0} /\ Tail(s)[n] = s[n + 1]
           /\ \A n \in DOMAIN s : n # 1 => n - 1 \in DOMAIN Tail(s) /\ Tail(s)[n - 1] = s[n]
           /\ Unique(s, S) => Unique(Tail(s), S)
           /\ Unique(s, S) /\ Head(s) \in S => Free(Tail(s), S)
           /\ Free(s, S) => Free(Tail(s), S) /\ Head(s) \notin S
           /\ Free(Tail(s), S) /\ Head(s) \notin S => Free(s, S)
<1>1. /\ Tail(s) \in Seq(E) /\ Head(s) \in E /\ Head(s) = s[1] /\ 1 \in DOMAIN s
      /\ Len(Tail(s)) = Len(s) - 1 /\ Len(s) \in Nat /\ DOMAIN s = 1 .. Len(s)
      /\ DOMAIN Tail(s) = 1 .. Len(s) - 1
      /\ \A n \in 1 .. Len(s) - 1 : Tail(s)[n] = s[n + 1]
  BY SMT
<1>2. /\ \A n \in DOMAIN Tail(s) : n + 1 \in DOMAIN s /\ n \in Nat \ {0} /\ Tail(s)[n] = s[n + 1]
  BY <1>1, SMT
<1>3. /\ \A n \in DOMAIN s : n # 1 => n - 1 \in DOMAIN Tail(s) /\ Tail(s)[n - 1] = s[n]
  BY <1>1, SMT
<1>4. Unique(s, S) => Unique(Tail(s), S)
  BY <1>2, SMT DEF Unique
<1>5. Unique(s, S) /\ Head(s) \in S => Free(Tail(s), S)
  BY <1>1, <1>2, SMT DEF Unique, Free
<1>6. Free(s, S) => Free(Tail(s), S) /\ Head(s) \notin S
  BY <1>1, <1>2 DEF Free
<1>7. Free(Tail(s), S) /\ Head(s) \notin S => Free(s, S)
  BY <1>1, <1>3 DEF Free
<1> QED
  BY <1>1, <1>2, <1>3, <1>4, <1>5, <1>6, <1>7

\* Adding one at the end.
LEMMA Pushed ==
    ASSUME NEW E, NEW S, NEW s \in Seq(E), NEW x \in E
    PROVE  /\ Append(s, x) \in Seq(E) /\ Len(s) \in Nat
           /\ Len(s) + 1 \in DOMAIN Append(s, x) /\ Append(s, x)[Len(s) + 1] = x
           /\ \A n \in DOMAIN s : n \in DOMAIN Append(s, x) /\ Append(s, x)[n] = s[n] /\ n < Len(s) + 1
           /\ \A n \in DOMAIN Append(s, x) : n \in DOMAIN s \/ n = Len(s) + 1
           /\ Unique(s, S) /\ (x \notin S \/ Free(s, S)) => Unique(Append(s, x), S)
           /\ Free(s, S) /\ x \notin S => Free(Append(s, x), S)
<1>1. /\ Append(s, x) \in Seq(E) /\ Len(s) \in Nat
      /\ Len(s) + 1 \in DOMAIN Append(s, x) /\ Append(s, x)[Len(s) + 1] = x
      /\ \A n \in DOMAIN s : n \in DOMAIN Append(s, x) /\ Append(s, x)[n] = s[n] /\ n < Len(s) + 1
      /\ \A n \in DOMAIN Append(s, x) : n \in DOMAIN s \/ n = Len(s) + 1
  BY SMT
<1>2. Unique(s, S) /\ (x \notin S \/ Free(s, S)) => Unique(Append(s, x), S)
  BY <1>1 DEF Unique, Free
<1>3. Free(s, S) /\ x \notin S => Free(Append(s, x), S)
  BY <1>1 DEF Free
<1> QED
  BY <1>1, <1>2, <1>3

\* Losing a part at the front.
LEMMA Dropped ==
    ASSUME NEW E, NEW S, NEW s \in Seq(E), NEW k \in 0 .. Len(s)
    PROVE  LET r == SubSeq(s, k + 1, Len(s))
           IN  /\ r \in Seq(E)
               /\ \A n \in DOMAIN r : n + k \in DOMAIN s /\ r[n] = s[n + k]
               /\ Unique(s, S) => Unique(r, S)
               /\ Free(s, S) => Free(r, S)
               /\ s = <<>> => r = <<>>
               /\ \A m \in DOMAIN s : k < m => m - k \in DOMAIN r /\ r[m - k] = s[m]
<1> DEFINE r == SubSeq(s, k + 1, Len(s))
<1>1. Len(s) \in Nat /\ k \in Nat /\ k <= Len(s) /\ DOMAIN s = 1 .. Len(s)
  BY SMT
<1>2. \A n \in k + 1 .. Len(s) : s[n] \in E
  BY <1>1, SMT
<1>3. /\ r \in Seq(E) /\ Len(r) = (IF k + 1 <= Len(s) THEN Len(s) - (k + 1) + 1 ELSE 0)
      /\ \A n \in 1 .. Len(s) - (k + 1) + 1 : r[n] = s[(k + 1) + n - 1]
  <2>1. k + 1 \in Int /\ Len(s) \in Int
    BY <1>1, SMT
  <2> QED
    BY <1>2, <2>1, SubSeqProperties
<1> HIDE DEF r
<1>4. Len(r) = Len(s) - k /\ DOMAIN r = 1 .. Len(s) - k
  <2>1. Len(r) = Len(s) - k
    <3> DEFINE l == Len(s)
    <3>1. Len(r) = (IF k + 1 <= l THEN l - (k + 1) + 1 ELSE 0) /\ l \in Nat /\ k \in Nat /\ k <= l
      BY <1>1, <1>3
    <3> HIDE DEF l
    <3>2. Len(r) = l - k
      BY <3>1, SMT
    <3> QED
      BY <3>2 DEF l
  <2> QED
    BY <1>3, <2>1, LenProperties
<1>5. \A n \in DOMAIN r : n \in Nat /\ n + k \in DOMAIN s /\ r[n] = s[n + k]
  <2> SUFFICES ASSUME NEW n \in 1 .. Len(s) - k
               PROVE  n \in Nat /\ n + k \in DOMAIN s /\ r[n] = s[n + k]
    BY <1>4
  <2>1. n \in 1 .. Len(s) - (k + 1) + 1 /\ (k + 1) + n - 1 = n + k /\ n + k \in 1 .. Len(s) /\ n \in Nat
    BY <1>1, SMT
  <2> QED
    BY <1>1, <1>3, <2>1
<1>6. Unique(s, S) => Unique(r, S)
  <2> SUFFICES ASSUME Unique(s, S), NEW m \in DOMAIN r, NEW n \in DOMAIN r, r[m] \in S, r[n] \in S
               PROVE  m = n
    BY DEF Unique
  <2>1. m + k = n + k /\ m \in Nat /\ n \in Nat
    BY <1>5 DEF Unique
  <2> QED
    BY <1>1, <2>1, SMT
<1>7. Free(s, S) => Free(r, S)
  BY <1>5 DEF Free
<1>8. s = <<>> => r = <<>>
  <2> SUFFICES ASSUME s = <<>> PROVE r = <<>>
    OBVIOUS
  <2>1. Len(s) = 0 /\ k = 0
    BY <1>1, SMT
  <2>2. Len(r) = 0
    BY <1>1, <1>4, <2>1, SMT
  <2> QED
    BY <1>3, <2>2, EmptySeq
<1>9. ASSUME NEW m \in DOMAIN s, k < m PROVE m - k \in DOMAIN r /\ r[m - k] = s[m]
  <2>1. m - k \in 1 .. Len(s) - k /\ (m - k) + k = m
    BY <1>1, <1>9, SMT
  <2> QED
    BY <1>4, <1>5, <2>1
<1> QED
  BY <1>3, <1>5, <1>6, <1>7, <1>8, <1>9 DEF r

-----------------------------------------------------------------------------
(* The types of the messages.                                              *)

ChunkType == [cid : Nat, x : Nat, y : Nat, n_re : Nat \ {0}, n_im : Nat \ {0}, w : Nat, h : Nat]
ParamType == (Nat \X Nat) \cup {<<>>}

KeyEvents == {Key(k) : k \in Keys} \cup {NextChunkEvent}
Reports == {N!Simple(t) : t \in {"STARTUP", "OK", "VERSION", "DONE", "ABORT"}}
DataEvents(S) == [type : {"COMPUTE_DATA"}, chunk : S, i_re : Nat, i_im : Nat, params : ParamType]
Events == KeyEvents \cup Reports \cup DataEvents(ChunkType)

Asking(S) == [type : {"COMPUTE"}, chunk : S]
Others == {N!Simple("GET_VERSION")} \cup [type : {"SET_COMPUTE"}, params : ParamType]
Requests == Asking(ChunkType) \cup {N!Simple("ABORT")} \cup Others

\* What begins or ends the work on a chunk: of such events and requests there
\* is one at a time if the user waits.
Signals == {Key("start"), NextChunkEvent, N!Simple("DONE"), N!Simple("ABORT")}
Asks == Asking(ChunkType) \cup {N!Simple("ABORT")}
Resizes == {Key("resize")}

LEMMA EventKinds ==
    ASSUME NEW m \in Events
    PROVE  /\ m.type = "key" => m \in KeyEvents
           /\ m.type = "key" /\ m.byUser => m = Key(m.key) /\ m.key \in Keys
           /\ m.type = "key" /\ ~m.byUser => m = NextChunkEvent /\ m.key = "start"
           /\ m.type # "key" /\ m.type # "COMPUTE_DATA" => m = N!Simple(m.type)
           /\ m.type = "COMPUTE_DATA" => m \in DataEvents(ChunkType)
           /\ m.type = "key" => m.key \in Keys \cup {"start"} /\ m.byUser \in BOOLEAN
           /\ m.type \in {"key", "STARTUP", "OK", "VERSION", "DONE", "ABORT", "COMPUTE_DATA"}
<1>1. CASE m \in KeyEvents
  <2>1. CASE m = NextChunkEvent
    BY <1>1, <2>1 DEF NextChunkEvent
  <2>2. ASSUME NEW k \in Keys, m = Key(k)
        PROVE  m.type = "key" /\ m.key = k /\ m.byUser = TRUE
    BY <2>2 DEF Key
  <2>3. CASE \E k \in Keys : m = Key(k)
    BY <1>1, <2>2, <2>3
  <2> QED
    BY <1>1, <2>1, <2>3 DEF KeyEvents
<1>2. CASE m \in Reports
  <2>1. PICK t \in {"STARTUP", "OK", "VERSION", "DONE", "ABORT"} : m = N!Simple(t)
    BY <1>2 DEF Reports
  <2>2. m.type = t
    BY <2>1 DEF N!Simple
  <2> QED
    BY <2>1, <2>2
<1>3. CASE m \in DataEvents(ChunkType)
  <2>1. m.type = "COMPUTE_DATA"
    BY <1>3 DEF DataEvents
  <2> QED
    BY <1>3, <2>1
<1> QED
  BY <1>1, <1>2, <1>3 DEF Events

\* Which events are signals.
LEMMA SignalKinds ==
    ASSUME NEW m \in Events
    PROVE  /\ m \in Signals <=> m.type \in {"DONE", "ABORT"} \/ (m.type = "key" /\ m.key = "start")
           /\ m \in Resizes <=> m.type = "key" /\ m.key = "resize"
<1>1. m.type = "key" => (m \in Signals <=> m.key = "start")
  <2>1. CASE m.type = "key" /\ m.byUser
    <3>1. m = Key(m.key) /\ Key(m.key).key = m.key /\ Key("start").key = "start"
          /\ NextChunkEvent.key = "start" /\ Key(m.key).type = "key"
          /\ N!Simple("DONE").type = "DONE" /\ N!Simple("ABORT").type = "ABORT"
      BY <2>1, EventKinds DEF Key, NextChunkEvent, N!Simple
    <3> QED
      BY <2>1, <3>1 DEF Signals
  <2>2. CASE m.type = "key" /\ ~m.byUser
    BY <2>2, EventKinds DEF Signals
  <2> QED
    BY <2>1, <2>2
<1>2. m.type \in {"DONE", "ABORT"} => m \in Signals
  BY EventKinds DEF Signals
<1>3. m.type # "key" /\ m \in Signals => m.type \in {"DONE", "ABORT"}
  BY DEF Signals, Key, NextChunkEvent, N!Simple
<1>4. m \in Resizes => m.type = "key" /\ m.key = "resize"
  BY DEF Resizes, Key
<1>5. m.type = "key" /\ m.key = "resize" => m \in Resizes
  BY EventKinds DEF Resizes
<1> QED
  BY <1>1, <1>2, <1>3, <1>4, <1>5

\* What each kind of request is.
LEMMA RequestKinds ==
    ASSUME NEW m \in Requests
    PROVE  /\ m.type = "COMPUTE" => m \in Asking(ChunkType) /\ m.chunk \in ChunkType
           /\ m.type = "SET_COMPUTE" => m \in Others /\ m.params \in ParamType
           /\ m.type = "ABORT" => m = N!Simple("ABORT")
           /\ m \in Asks <=> m.type \in {"COMPUTE", "ABORT"}
<1>1. CASE m \in Asking(ChunkType)
  BY <1>1 DEF Asking, Asks
<1>2. CASE m = N!Simple("ABORT")
  BY <1>2 DEF N!Simple, Asks
<1>3. CASE m = N!Simple("GET_VERSION")
  BY <1>3 DEF N!Simple, Asks, Others, Asking
<1>4. CASE m \in [type : {"SET_COMPUTE"}, params : ParamType]
  <2>1. m.type = "SET_COMPUTE" /\ m.params \in ParamType
    BY <1>4
  <2> QED
    BY <1>4, <2>1 DEF N!Simple, Asks, Others, Asking
<1> QED
  BY <1>1, <1>2, <1>3, <1>4 DEF Requests, Others

-----------------------------------------------------------------------------
(* The type invariant.                                                     *)

GridType == grid \in [0 .. comp.w * comp.h - 1 -> {"unset", "good", "unprepared", "alien", "cleared"}]
FlagType == data_computing \in BOOLEAN /\ stopped \in BOOLEAN
BoardType ==
    /\ computing \in BOOLEAN /\ abort_request \in BOOLEAN /\ at \in {"check", "work"}
    /\ chunk \in ChunkType /\ i \in Nat /\ j \in Nat /\ pixel \in Nat /\ params \in ParamType
LinkType == events \in Seq(Events) /\ toBoard \in Seq(Requests)
OneResize ==
    /\ Unique(events, Resizes)
    /\ Free(events, Resizes) \/ comp.w + Step <= MaxWidth
Sized == \E a, b \in 1 .. 255 : Good(comp, a, b)

TypeInv == Sized /\ GridType /\ FlagType /\ BoardType /\ LinkType /\ OneResize

\* A request for the chunk of a running computation.
LEMMA RequestType ==
    ASSUME NEW c, NEW a, NEW b, Good(c, a, b)
    PROVE  C!Request(c) \in ChunkType
<1>1. /\ c \in CompRecord /\ C!ChunkRe(c) = a /\ C!ChunkIm(c) = b
      /\ a \in Nat \ {0} /\ b \in Nat \ {0}
  BY GoodMeans
<1> QED
  BY <1>1 DEF C!Request, ChunkType, CompRecord

\* The simple messages, and data.
LEMMA MessageTypes ==
    /\ \A t \in {"STARTUP", "OK", "VERSION", "DONE", "ABORT"} : N!Simple(t) \in Events
    /\ \A t \in {"GET_VERSION", "ABORT"} : N!Simple(t) \in Requests
    /\ \A c \in ChunkType, x \in Nat, y \in Nat, p \in ParamType : N!Data(c, x, y, p) \in DataEvents(ChunkType)
    /\ \A k \in Keys : Key(k) \in Events
    /\ NextChunkEvent \in Events
    /\ \A p \in ParamType : [type |-> "SET_COMPUTE", params |-> p] \in Requests
    /\ \A c \in ChunkType : [type |-> "COMPUTE", chunk |-> c] \in Requests
BY DEF Events, Reports, Requests, Others, DataEvents, N!Data, KeyEvents, Asking

LEMMA InitTyped == Init => TypeInv
<1> SUFFICES ASSUME Init PROVE TypeInv
  OBVIOUS
<1>1. Sized
  BY InitIsGood DEF Sized
<1>2. PICK a, b \in 1 .. 255 : Good(comp, a, b)
  BY <1>1 DEF Sized
<1>3. chunk \in ChunkType
  <2>1. comp = C!CompInit /\ chunk = C!Request(C!CompInit)
    BY DEF Init, C!Init, N!BoardInit
  <2> QED
    BY <1>2, <2>1, RequestType
<1>4. BoardType
  BY <1>3 DEF BoardType, Init, N!BoardInit, ParamType
<1>5. LinkType
  BY MessageTypes DEF LinkType, Init
<1>6. GridType /\ FlagType
  BY DEF GridType, FlagType, Init, Blank
<1>7. OneResize
  <2>1. events = <<N!Simple("STARTUP")>> /\ N!Simple("STARTUP").type = "STARTUP"
    BY DEF Init, N!Simple
  <2>2. N!Simple("STARTUP") \notin Resizes
    BY <2>1, MessageTypes, SignalKinds
  <2> QED
    BY <2>1, <2>2 DEF OneResize, Unique, Free
<1> QED
  BY <1>1, <1>3, <1>4, <1>5, <1>6, <1>7 DEF TypeInv

-----------------------------------------------------------------------------
(* What a step does to the two links.                                      *)

\* main handles an event that neither begins nor ends a chunk.
MinorHandling ==
    /\ events # <<>> /\ Head(events) \notin Signals /\ events' = Tail(events)
    /\ toBoard' = toBoard \/ \E m \in Others : toBoard' = Append(toBoard, m)
    /\ UNCHANGED <<boardVars, stopped>>
    /\ data_computing' = data_computing \/ data_computing' = FALSE

\* The board reports something else than the end of a chunk.
MinorReport ==
    /\ \E m \in (Reports \cup DataEvents(ChunkType)) \ Signals : events' = Append(events, m)
    /\ toBoard' = toBoard
         \/ (toBoard # <<>> /\ Head(toBoard) \notin Asks /\ toBoard' = Tail(toBoard))
    /\ computing \/ toBoard # <<>>
    /\ computing' = computing /\ UNCHANGED hostVars

\* The board ends a chunk by itself.
EndReport ==
    /\ computing /\ ~computing'
    /\ events' = Append(events, N!Simple("DONE")) \/ events' = Append(events, N!Simple("ABORT"))
    /\ UNCHANGED <<toBoard, hostVars>>

Silent == UNCHANGED <<events, toBoard, computing, hostVars>>

\* The handlers of main.
LEMMA MainStep ==
    ASSUME TypeInv, Main
    PROVE  \/ MinorHandling
           \/ HandleStart \/ HandleDone \/ HandleBoardAbort
           \/ HandleAbort
<1>0. events \in Seq(Events) /\ comp.w \in Nat /\ comp.h \in Nat
  BY GoodMeans DEF TypeInv, LinkType, Sized, CompRecord
<1>1. ASSUME NEW t, Pops(t), t \notin {"key", "DONE", "ABORT"}
      PROVE  events # <<>> /\ Head(events) \notin Signals /\ events' = Tail(events)
  <2>1. Head(events) \in Events /\ Head(events).type = t
    BY <1>0, <1>1 DEF Pops
  <2> QED
    BY <1>1, <2>1, SignalKinds DEF Pops
<1>2. ASSUME NEW k, PopsKey(k), k # "start"
      PROVE  events # <<>> /\ Head(events) \notin Signals /\ events' = Tail(events)
  <2>1. Head(events) \in Events /\ Head(events).type = "key" /\ Head(events).key = k
    BY <1>0, <1>2 DEF Pops, PopsKey
  <2> QED
    BY <1>2, <2>1, SignalKinds DEF Pops, PopsKey
<1>3. CASE HandleSet
  <2>1. [type |-> "SET_COMPUTE", params |-> <<comp.w, comp.h>>] \in Others
    BY <1>0 DEF Others, ParamType
  <2> QED
    BY <1>2, <1>3, <2>1 DEF HandleSet, ToBoard, Unmoved, MinorHandling, boardVars
<1>4. CASE HandleCpu
  BY <1>2, <1>4 DEF HandleCpu, Unmoved, MinorHandling, boardVars
<1>5. CASE HandleReset
  BY <1>2, <1>5 DEF HandleReset, Unmoved, MinorHandling, boardVars
<1>6. CASE HandleClear
  BY <1>2, <1>6 DEF HandleClear, Unmoved, MinorHandling, boardVars
<1>7. CASE HandleVersion
  <2>1. N!Simple("GET_VERSION") \in Others
    BY DEF Others
  <2> QED
    BY <1>2, <1>7, <2>1 DEF HandleVersion, ToBoard, Unmoved, MinorHandling, boardVars, hostVars
<1>8. CASE HandleResize
  BY <1>2, <1>8 DEF HandleResize, Unmoved, MinorHandling, boardVars
<1>9. CASE HandleStartup
  BY <1>1, <1>9 DEF HandleStartup, Unmoved, MinorHandling, boardVars
<1>10. CASE HandleReport
  BY <1>1, <1>10 DEF HandleReport, Unmoved, MinorHandling, boardVars, hostVars
<1>11. CASE HandleData
  BY <1>1, <1>11 DEF HandleData, Unmoved, MinorHandling, boardVars
<1> QED
  BY <1>3, <1>4, <1>5, <1>6, <1>7, <1>8, <1>9, <1>10, <1>11
     DEF Main, HandleKey, HandleMessage

\* The steps of the board.
LEMMA BoardStep ==
    ASSUME TypeInv, Board
    PROVE  \/ MinorReport \/ EndReport \/ Silent
           \/ N!ReceiveAbort /\ UNCHANGED hostVars
           \/ N!ReceiveCompute /\ UNCHANGED hostVars
<1>0. toBoard \in Seq(Requests) /\ chunk \in ChunkType /\ i \in Nat /\ j \in Nat /\ params \in ParamType
  BY DEF TypeInv, LinkType, BoardType
<1>1. ASSUME NEW t \in {"OK", "VERSION"}
      PROVE  N!Simple(t) \in Reports \ Signals
  <2>1. N!Simple(t) \in Events /\ N!Simple(t).type = t /\ N!Simple(t) \in Reports
    BY MessageTypes DEF N!Simple, Reports
  <2> QED
    BY <2>1, SignalKinds
<1>2. ASSUME NEW t, N!Receives(t), t \notin {"COMPUTE", "ABORT"}
      PROVE  toBoard # <<>> /\ Head(toBoard) \notin Asks /\ toBoard' = Tail(toBoard)
  <2>1. toBoard # <<>> /\ Head(toBoard) \in Requests /\ Head(toBoard).type = t
    BY <1>0, <1>2 DEF N!Receives
  <2> QED
    BY <1>2, <2>1, RequestKinds DEF N!Receives
<1>3. CASE N!Check
  BY <1>3 DEF N!Check, N!Send, Board, EndReport, Silent
<1>4. CASE N!ReceiveGetVersion
  BY <1>1, <1>2, <1>4 DEF N!ReceiveGetVersion, N!Send, Board, MinorReport
<1>5. CASE N!ReceiveSetCompute
  BY <1>1, <1>2, <1>5 DEF N!ReceiveSetCompute, N!Send, Board, MinorReport
<1>6. CASE N!ComputePixel
  <2>1. /\ N!Data(chunk, i, j, params) \in DataEvents(ChunkType)
        /\ N!Data(chunk, i, j, params).type = "COMPUTE_DATA"
    BY <1>0, MessageTypes DEF N!Data
  <2>2. N!Data(chunk, i, j, params) \in DataEvents(ChunkType) \ Signals
    BY <2>1, SignalKinds DEF Events
  <2> QED
    BY <1>6, <2>2 DEF N!ComputePixel, N!Send, Board, MinorReport
<1>7. CASE N!ChunkDone
  BY <1>7 DEF N!ChunkDone, N!Send, Board, EndReport
<1> QED
  BY <1>3, <1>4, <1>5, <1>6, <1>7 DEF Board, N!Work, N!Receive

\* The links carry messages of their types.
LEMMA LinksTyped ==
    ASSUME TypeInv, [Next]_vars
    PROVE  LinkType'
<1> SUFFICES events' \in Seq(Events) /\ toBoard' \in Seq(Requests)
  BY DEF LinkType
<1>0. events \in Seq(Events) /\ toBoard \in Seq(Requests)
  BY DEF TypeInv, LinkType
<1>1. CASE MinorHandling
  BY <1>0, <1>1 DEF MinorHandling, Requests
<1>2. CASE HandleStart
  <2>1. PICK a, b \in 1 .. 255 : Good(comp, a, b)
    BY DEF TypeInv, Sized
  <2>2. C!Request(comp') \in ChunkType
    BY <1>2, <2>1, AdvancedFields, RequestType DEF HandleStart
  <2> DEFINE m == [type |-> "COMPUTE", chunk |-> C!Request(comp')]
  <2>3. m \in Requests
    BY <2>2, MessageTypes
  <2>4. toBoard' = Append(toBoard, m) \/ toBoard' = toBoard
    BY <1>2 DEF HandleStart, ToBoard
  <2> HIDE DEF m
  <2>5. toBoard' \in Seq(Requests)
    BY <1>0, <2>3, <2>4
  <2>6. events' \in Seq(Events)
    BY <1>0, <1>2 DEF HandleStart, PopsKey, Pops
  <2> QED
    BY <2>5, <2>6
<1>3. CASE HandleDone
  BY <1>0, <1>3, MessageTypes DEF HandleDone
<1>4. CASE HandleBoardAbort
  BY <1>0, <1>4 DEF HandleBoardAbort, Pops
<1>5. CASE HandleAbort
  BY <1>0, <1>5, MessageTypes DEF HandleAbort, PopsKey, Pops, ToBoard
<1>6. CASE MinorReport
  BY <1>0, <1>6 DEF MinorReport, Events
<1>7. CASE EndReport
  BY <1>0, <1>7, MessageTypes DEF EndReport
<1>8. CASE Silent
  BY <1>0, <1>8 DEF Silent
<1>9. CASE N!ReceiveAbort
  <2>1. <<N!Simple("OK"), N!Simple("ABORT")>> \in Seq(Events)
    BY MessageTypes
  <2> QED
    BY <1>0, <1>9, <2>1 DEF N!ReceiveAbort, N!Receives
<1>10. CASE N!ReceiveCompute
  BY <1>0, <1>10, MessageTypes DEF N!ReceiveCompute, N!Receives, N!Send
<1>11. CASE PressButton
  BY <1>0, <1>11 DEF PressButton, N!Button
<1>12. CASE RestartBoard
  BY <1>0, <1>12, MessageTypes, Dropped DEF RestartBoard, N!Restart, N!Send
<1>13. ASSUME NEW k \in Keys, Press(k) PROVE events' \in Seq(Events) /\ toBoard' \in Seq(Requests)
  BY <1>0, <1>13, MessageTypes DEF Press
<1>14. CASE UNCHANGED vars
  BY <1>0, <1>14 DEF vars
<1> QED
  BY <1>1, <1>2, <1>3, <1>4, <1>5, <1>6, <1>7, <1>8, <1>9, <1>10, <1>11, <1>12, <1>13, <1>14,
     MainStep, BoardStep DEF Next

-----------------------------------------------------------------------------
(* The type invariant is kept.                                             *)

\* Only another size changes the tiling.
LEMMA CompStep ==
    ASSUME TypeInv, NEW a, NEW b, Good(comp, a, b), [Next]_vars, ~HandleResize
    PROVE  Good(comp', a, b) /\ comp'.w = comp.w /\ comp'.h = comp.h
<1>0. comp \in CompRecord
  BY GoodMeans
<1>1. ASSUME NEW d \in CompRecord, d.w = comp.w, d.h = comp.h, d.cid = comp.cid,
             d.cur_x = comp.cur_x, d.cur_y = comp.cur_y, d.computing => comp.computing, comp' = d
      PROVE  Good(comp', a, b) /\ comp'.w = comp.w /\ comp'.h = comp.h
  BY <1>1, FlagsKeepGood
<1>2. CASE HandleSet
  BY <1>0, <1>1, <1>2, Flags DEF HandleSet
<1>3. CASE HandleStart
  BY <1>3, AdvancedFields DEF HandleStart
<1>4. CASE HandleCpu
  BY <1>0, <1>1, <1>4, Flags DEF HandleCpu
<1>5. CASE HandleAbort
  BY <1>0, <1>1, <1>5, Flags DEF HandleAbort
<1>6. CASE HandleReset
  <2>1. /\ Good(C!AtChunkZero(comp), a, b)
        /\ C!AtChunkZero(comp).w = comp.w /\ C!AtChunkZero(comp).h = comp.h
    BY <1>0, Flags, ZeroKeepsGood
  <2> QED
    BY <1>6, <2>1 DEF HandleReset
<1>7. CASE HandleData
  <2>1. comp' = comp \/ comp' = C!Updated(comp, Computed(Head(events)))
    BY <1>7 DEF HandleData
  <2> QED
    BY <2>1, UpdatedFields
<1>8. CASE HandleBoardAbort
  BY <1>0, <1>1, <1>8, Flags DEF HandleBoardAbort
<1>9. CASE HandleClear \/ HandleVersion \/ HandleStartup \/ HandleReport \/ HandleDone
  BY <1>9 DEF HandleClear, HandleVersion, HandleStartup, HandleReport, HandleDone, hostVars
<1>10. CASE Board \/ PressButton \/ RestartBoard \/ \E k \in Keys : Press(k)
  BY <1>10 DEF Board, PressButton, RestartBoard, Press, hostVars
<1>11. CASE UNCHANGED vars
  BY <1>11 DEF vars, hostVars
<1> QED
  BY <1>2, <1>3, <1>4, <1>5, <1>6, <1>7, <1>8, <1>9, <1>10, <1>11
     DEF Next, Main, HandleKey, HandleMessage

\* The grid is as large as the image.
LEMMA GridTyped ==
    ASSUME TypeInv, [Next]_vars
    PROVE  GridType'
<1>1. PICK a, b \in 1 .. 255 : Good(comp, a, b)
  BY DEF TypeInv, Sized
<1> DEFINE Marks == {"unset", "good", "unprepared", "alien", "cleared"}
           S == 0 .. comp.w * comp.h - 1
<1>2. CASE HandleResize
  BY <1>2 DEF HandleResize, Blank, GridType
<1>3. CASE ~HandleResize
  <2>1. comp'.w = comp.w /\ comp'.h = comp.h
    BY <1>1, <1>3, CompStep
  <2>2. grid \in [S -> Marks]
    BY DEF TypeInv, GridType
  <2> SUFFICES grid' \in [S -> Marks]
    BY <2>1 DEF GridType
  <2> HIDE DEF S
  <2>3. CASE HandleClear
    BY <2>2, <2>3 DEF HandleClear
  <2>4. CASE HandleData
    <3>1. ASSUME NEW k, NEW q \in Marks, grid' = [grid EXCEPT ![k] = q]
          PROVE  grid' \in [S -> Marks]
      BY <2>2, <3>1
    <3>2. ASSUME NEW c, NEW d, NEW m PROVE Quality(c, d, m) \in Marks
      BY DEF Quality
    <3>3. \/ grid' = grid
          \/ grid' = [grid EXCEPT ![C!Index(comp, Computed(Head(events)))] =
                        Quality(comp, Computed(Head(events)), Head(events))]
      BY <2>4 DEF HandleData
    <3> HIDE DEF Marks
    <3> QED
      BY <2>2, <3>1, <3>2, <3>3
  <2>5. CASE ~HandleClear /\ ~HandleData
    <3>1. grid' = grid
      BY <1>3, <2>5 DEF Next, Main, HandleKey, HandleMessage, HandleSet, HandleStart, HandleCpu,
         HandleAbort, HandleReset, HandleVersion, HandleStartup, HandleReport, HandleDone,
         HandleBoardAbort, Board, PressButton, RestartBoard, Press, hostVars, vars
    <3> QED
      BY <2>2, <3>1
  <2> QED
    BY <2>3, <2>4, <2>5
<1> QED
  BY <1>2, <1>3

\* The state of the board.
LEMMA BoardTyped ==
    ASSUME TypeInv, [Next]_vars
    PROVE  BoardType'
<1>0. BoardType /\ toBoard \in Seq(Requests)
  BY DEF TypeInv, LinkType
<1>1. CASE Main \/ (\E k \in Keys : Press(k)) \/ UNCHANGED vars
  <2>1. UNCHANGED boardVars
    BY <1>1 DEF Main, HandleKey, HandleMessage, HandleSet, HandleStart, HandleCpu, HandleClear,
         HandleAbort, HandleReset, HandleResize, HandleVersion, HandleStartup, HandleReport, HandleDone,
         HandleData, HandleBoardAbort, Press, Unmoved, vars
  <2> QED
    BY <1>0, <2>1 DEF BoardType, boardVars
<1>2. CASE N!Check
  BY <1>0, <1>2 DEF N!Check, BoardType
<1>3. CASE N!ReceiveGetVersion
  BY <1>0, <1>3 DEF N!ReceiveGetVersion, N!NextRound, BoardType
<1>4. CASE N!ReceiveAbort
  BY <1>0, <1>4 DEF N!ReceiveAbort, N!NextRound, BoardType
<1>5. CASE N!ReceiveSetCompute
  <2>1. params' \in ParamType
    BY <1>0, <1>5, RequestKinds DEF N!ReceiveSetCompute, N!Receives
  <2> QED
    BY <1>0, <1>5, <2>1 DEF N!ReceiveSetCompute, N!NextRound, BoardType
<1>6. CASE N!ReceiveCompute
  <2>1. chunk' \in ChunkType
    BY <1>0, <1>6, RequestKinds DEF N!ReceiveCompute, N!Receives, BoardType
  <2> QED
    BY <1>0, <1>6, <2>1 DEF N!ReceiveCompute, N!NextRound, BoardType
<1>7. CASE N!ComputePixel
  BY <1>0, <1>7 DEF N!ComputePixel, BoardType
<1>8. CASE N!ChunkDone
  BY <1>0, <1>8 DEF N!ChunkDone, N!NextRound, BoardType
<1>9. CASE PressButton
  BY <1>0, <1>9 DEF PressButton, N!Button, BoardType
<1>10. CASE RestartBoard
  BY <1>0, <1>10 DEF RestartBoard, N!Restart, BoardType, ParamType
<1> QED
  BY <1>1, <1>2, <1>3, <1>4, <1>5, <1>6, <1>7, <1>8, <1>9, <1>10 DEF Next, Board, N!Work, N!Receive

\* Reports, data and the wish for the next chunk ask for no new size.
LEMMA NoResize ==
    /\ \A m \in Reports \cup DataEvents(ChunkType) : m \in Events /\ m \notin Resizes
    /\ NextChunkEvent \notin Resizes
<1>1. ASSUME NEW m \in Reports \cup DataEvents(ChunkType)
      PROVE  m \in Events /\ m.type # "key"
  BY DEF Events, Reports, DataEvents, N!Simple
<1>2. NextChunkEvent.key # "resize" /\ NextChunkEvent \in Events
  BY MessageTypes DEF NextChunkEvent
<1> QED
  BY <1>1, <1>2, SignalKinds

\* Two messages sent at once are sent one after the other.
LEMMA TwoAtOnce ==
    ASSUME NEW E, NEW s \in Seq(E), NEW x \in E, NEW y \in E
    PROVE  s \o <<x, y>> = Append(Append(s, x), y) /\ Append(s, x) \in Seq(E)
BY SMT

\* At most one new size is asked for, and the image has room for it.
LEMMA OneResizeKept ==
    ASSUME TypeInv, [Next]_vars
    PROVE  OneResize'
<1>0. /\ events \in Seq(Events) /\ Unique(events, Resizes)
      /\ Free(events, Resizes) \/ comp.w + Step <= MaxWidth
  BY DEF TypeInv, LinkType, OneResize
<1>1. PICK a, b \in 1 .. 255 : Good(comp, a, b)
  BY DEF TypeInv, Sized
<1>2. ASSUME events # <<>>, events' = Tail(events), ~HandleResize
      PROVE  OneResize'
  BY <1>0, <1>1, <1>2, CompStep, Popped DEF OneResize
<1>3. ASSUME NEW m \in Events, m \notin Resizes, events' = Append(events, m)
      PROVE  OneResize'
  <2>1. ~HandleResize
    <3> SUFFICES ASSUME HandleResize PROVE FALSE
      OBVIOUS
    <3>1. events # <<>> /\ events' = Tail(events)
      BY DEF HandleResize, PopsKey, Pops
    <3>2. Len(Tail(events)) = Len(events) - 1 /\ Len(Append(events, m)) = Len(events) + 1 /\ Len(events) \in Nat
      BY <1>0, <3>1, HeadTailProperties, AppendProperties
    <3> QED
      BY <1>3, <3>1, <3>2
  <2> QED
    BY <1>0, <1>1, <1>3, <2>1, CompStep, Pushed DEF OneResize
<1>4. ASSUME events' = events, ~HandleResize PROVE OneResize'
  BY <1>0, <1>1, <1>4, CompStep DEF OneResize
<1>5. CASE HandleResize
  <2>1. events # <<>> /\ events' = Tail(events) /\ Head(events) \in Resizes
    <3>1. events # <<>> /\ Head(events) \in Events /\ events' = Tail(events)
          /\ Head(events).type = "key" /\ Head(events).key = "resize"
      BY <1>0, <1>5 DEF HandleResize, PopsKey, Pops
    <3> QED
      BY <3>1, SignalKinds
  <2>2. Unique(events', Resizes) /\ Free(events', Resizes)
    BY <1>0, <2>1, Popped
  <2> QED
    BY <2>2 DEF OneResize
<1> SUFFICES ASSUME ~HandleResize PROVE OneResize'
  BY <1>5
<1>6. CASE MinorHandling \/ HandleStart \/ HandleBoardAbort \/ HandleAbort
  BY <1>2, <1>6 DEF MinorHandling, HandleStart, HandleBoardAbort, HandleAbort, PopsKey, Pops
<1>7. CASE HandleDone
  <2>1. CASE events' = Tail(events)
    BY <1>2, <1>7, <2>1 DEF HandleDone
  <2>2. CASE events' = Append(Tail(events), NextChunkEvent)
    <3>1. Tail(events) \in Seq(Events) /\ Unique(Tail(events), Resizes)
          /\ (Free(Tail(events), Resizes) \/ comp.w + Step <= MaxWidth)
      BY <1>0, <1>7, Popped DEF HandleDone
    <3> QED
      BY <1>1, <2>2, <3>1, NoResize, MessageTypes, CompStep, Pushed DEF OneResize
  <2> QED
    BY <1>7, <2>1, <2>2 DEF HandleDone
<1>8. CASE MinorReport
  BY <1>3, <1>8, NoResize DEF MinorReport
<1>9. N!Simple("DONE") \in Reports /\ N!Simple("ABORT") \in Reports /\ N!Simple("OK") \in Reports
      /\ N!Simple("STARTUP") \in Reports
  BY DEF Reports
<1>10. CASE EndReport
  BY <1>3, <1>9, <1>10, NoResize DEF EndReport
<1>11. CASE N!ReceiveAbort
  <2> DEFINE s == Append(events, N!Simple("OK"))
  <2>1. events' = Append(s, N!Simple("ABORT")) /\ s \in Seq(Events)
    BY <1>0, <1>9, <1>11, NoResize, TwoAtOnce DEF N!ReceiveAbort
  <2>2. Unique(s, Resizes) /\ (Free(s, Resizes) \/ comp.w + Step <= MaxWidth)
    BY <1>0, <1>9, NoResize, Pushed
  <2> HIDE DEF s
  <2> QED
    BY <1>1, <1>9, <2>1, <2>2, NoResize, CompStep, Pushed DEF OneResize
<1>12. CASE N!ReceiveCompute
  BY <1>3, <1>9, <1>12, NoResize DEF N!ReceiveCompute, N!Send
<1>13. CASE RestartBoard
  BY <1>3, <1>9, <1>13, NoResize DEF RestartBoard, N!Restart, N!Send
<1>14. CASE Silent \/ PressButton \/ UNCHANGED vars
  BY <1>4, <1>14 DEF Silent, PressButton, N!Button, vars
<1>15. ASSUME NEW k \in Keys, Press(k) PROVE OneResize'
  <2>1. Key(k) \in Events /\ events' = Append(events, Key(k)) /\ Key(k).key = k /\ Key(k).type = "key"
    BY <1>15, MessageTypes DEF Press, Key
  <2>2. CASE k # "resize"
    BY <1>3, <2>1, <2>2, SignalKinds
  <2>3. CASE k = "resize"
    <3>1. comp.w + Step <= MaxWidth /\ comp' = comp
      BY <1>15, <2>3 DEF Press, ResizeBound, hostVars
    <3>2. Free(events, Resizes)
      <4> SUFFICES ASSUME NEW n \in DOMAIN events, events[n] \in Resizes PROVE FALSE
        BY DEF Free
      <4>1. events[n].type = "key" /\ events[n].key = "resize"
        BY <1>0, SignalKinds
      <4> QED
        BY <1>15, <2>3, <4>1 DEF Press, ResizeBound
    <3> QED
      BY <1>0, <2>1, <3>1, <3>2, Pushed DEF OneResize
  <2> QED
    BY <2>2, <2>3
<1> QED
  BY <1>6, <1>7, <1>8, <1>10, <1>11, <1>12, <1>13, <1>14, <1>15, MainStep, BoardStep DEF Next

LEMMA NextTyped == TypeInv /\ [Next]_vars => TypeInv'
<1> SUFFICES ASSUME TypeInv, [Next]_vars PROVE TypeInv'
  OBVIOUS
<1>1. PICK a, b \in 1 .. 255 : Good(comp, a, b)
  BY DEF TypeInv, Sized
<1>2. Sized'
  <2>1. CASE HandleResize
    <3>1. events \in Seq(Events) /\ events # <<>> /\ Head(events) \in Resizes /\ comp' = C!Resized(comp, Step)
      <4>1. events # <<>> /\ Head(events) \in Events /\ events \in Seq(Events)
            /\ Head(events).type = "key" /\ Head(events).key = "resize" /\ comp' = C!Resized(comp, Step)
        BY <2>1 DEF HandleResize, PopsKey, Pops, TypeInv, LinkType
      <4> QED
        BY <4>1, SignalKinds
    <3>2. comp.w + Step <= MaxWidth
      BY <3>1, Popped DEF TypeInv, OneResize
    <3> QED
      BY <1>1, <3>1, <3>2, ResizedFields DEF Sized
  <2>2. CASE ~HandleResize
    BY <1>1, <2>2, CompStep DEF Sized
  <2> QED
    BY <2>1, <2>2
<1>3. FlagType'
  <2>1. FlagType
    BY DEF TypeInv
  <2>2. ASSUME NEW m \in Events PROVE m.type = "key" => m.byUser \in BOOLEAN
    BY EventKinds
  <2> QED
    BY <2>1 DEF FlagType, Next, Main, HandleKey, HandleMessage, HandleSet, HandleStart, HandleCpu,
         HandleAbort, HandleReset, HandleClear, HandleVersion, HandleResize, HandleStartup, HandleReport,
         HandleDone, HandleData, HandleBoardAbort, Board, PressButton, RestartBoard, Press, hostVars, vars
<1> QED
  BY <1>2, <1>3, GridTyped, BoardTyped, LinksTyped, OneResizeKept DEF TypeInv

\* TypeOK of SemSystem: whatever the user, the buttons and the resets do, the
\* grid is as large as the image, and the chunk number stays within it.
THEOREM SystemTyped == Spec => []TypeOK
<1>1. TypeInv => TypeOK
  <2> SUFFICES ASSUME TypeInv PROVE TypeOK
    OBVIOUS
  <2>1. PICK a, b \in 1 .. 255 : Good(comp, a, b)
    BY DEF TypeInv, Sized
  <2>2. C!CompType
    BY <2>1, GoodMeans DEF C!CompType, CompRecord
  <2> QED
    BY <2>2 DEF TypeInv, TypeOK, GridType, FlagType, BoardType
<1> QED
  BY <1>1, InitTyped, NextTyped, PTL DEF Spec

-----------------------------------------------------------------------------
(* A user who waits.                                                       *)

\* A key that is pressed only when all is quiet stays first in the queue, with
\* the board idle and nothing on the way, until it is handled.
PatientKeys == {Key(k) : k \in Keys \ Hasty}
Idlers == {Key(k) : k \in Keys \cap Hasty} \cup {N!Simple("STARTUP")}
Patient ==
    \/ Free(events, PatientKeys)
    \/ events # <<>> /\ Tail(events) \in Seq(Idlers) /\ toBoard = <<>> /\ ~computing

LEMMA KeyKinds ==
    /\ \A m \in Reports \cup DataEvents(ChunkType) : m \in Events /\ m \notin PatientKeys
    /\ NextChunkEvent \notin PatientKeys
    /\ \A k \in Keys : Key(k) \in PatientKeys <=> k \notin Hasty
    /\ Idlers \subseteq Events
    /\ \A m \in Idlers : m \notin PatientKeys
    /\ N!Simple("STARTUP") \in Idlers
    /\ \A k \in Keys : k \in Hasty => Key(k) \in Idlers
<1>1. \A m \in PatientKeys : m.type = "key" /\ m.byUser = TRUE /\ m.key \notin Hasty /\ m.key \in Keys
  BY DEF PatientKeys, Key
<1>2. ASSUME NEW m \in Reports \cup DataEvents(ChunkType)
      PROVE  m \in Events /\ m.type # "key"
  BY DEF Events, Reports, DataEvents, N!Simple
<1>3. NextChunkEvent.byUser = FALSE
  BY DEF NextChunkEvent
<1>4. ASSUME NEW k \in Keys PROVE Key(k) \in PatientKeys <=> k \notin Hasty
  <2>1. Key(k).key = k
    BY DEF Key
  <2> QED
    BY <1>1, <2>1 DEF PatientKeys
<1>5. Idlers \subseteq Events
  BY MessageTypes DEF Idlers
<1>6. ASSUME NEW m \in Idlers PROVE m \notin PatientKeys
  <2>1. CASE m = N!Simple("STARTUP")
    <3>1. m.type # "key"
      BY <2>1 DEF N!Simple
    <3> QED
      BY <1>1, <3>1
  <2>2. CASE m \in {Key(k) : k \in Keys \cap Hasty}
    BY <1>4, <2>2
  <2> QED
    BY <2>1, <2>2 DEF Idlers
<1>7. N!Simple("STARTUP") \in Idlers /\ \A k \in Keys : k \in Hasty => Key(k) \in Idlers
  BY DEF Idlers
<1> QED
  BY <1>1, <1>2, <1>3, <1>4, <1>5, <1>6, <1>7

\* The sequences of idle events hold no patient key.
LEMMA IdleFree ==
    ASSUME NEW s \in Seq(Idlers), NEW S, \A m \in Idlers : m \notin S
    PROVE  Free(s, S) /\ s \in Seq(Events)
<1>1. \A n \in DOMAIN s : s[n] \in Idlers
  BY SMT
<1>2. s \in Seq(Events)
  BY KeyKinds
<1> QED
  BY <1>1, <1>2 DEF Free

\* When a patient key is handled, nothing else goes on.
LEMMA PatientTurn ==
    ASSUME TypeInv, Patient, events # <<>>, Head(events) \in PatientKeys
    PROVE  Tail(events) \in Seq(Idlers) /\ toBoard = <<>> /\ ~computing
BY Popped DEF Patient, TypeInv, LinkType

LEMMA PatientInit == Init => Patient
<1> SUFFICES ASSUME Init PROVE Free(events, PatientKeys)
  BY DEF Patient
<1>1. events = <<N!Simple("STARTUP")>> /\ N!Simple("STARTUP") \notin PatientKeys
  BY KeyKinds DEF Init
<1> QED
  BY <1>1 DEF Free

LEMMA PatientKept ==
    ASSUME TypeInv, Patient, [Next]_vars
    PROVE  Patient'
<1>0. events \in Seq(Events) /\ toBoard \in Seq(Requests)
  BY DEF TypeInv, LinkType
<1>a. N!Simple("DONE") \in Reports /\ N!Simple("ABORT") \in Reports /\ N!Simple("OK") \in Reports
      /\ N!Simple("STARTUP") \in Reports
  BY DEF Reports
<1>1. ASSUME events # <<>>, events' = Tail(events) PROVE Patient'
  <2>1. CASE Free(events, PatientKeys)
    BY <1>0, <1>1, <2>1, Popped DEF Patient
  <2>2. CASE Tail(events) \in Seq(Idlers)
    BY <1>1, <2>2, KeyKinds, IdleFree DEF Patient
  <2> QED
    BY <2>1, <2>2 DEF Patient
<1>2. ASSUME NEW m \in Reports \cup DataEvents(ChunkType), events' = Append(events, m),
             Free(events, PatientKeys)
      PROVE  Patient'
  BY <1>0, <1>2, KeyKinds, Pushed DEF Patient
<1>3. ASSUME computing \/ toBoard # <<>> PROVE Free(events, PatientKeys)
  BY <1>3 DEF Patient
<1>4. CASE MinorHandling \/ HandleStart \/ HandleBoardAbort \/ HandleAbort
  BY <1>1, <1>4 DEF MinorHandling, HandleStart, HandleBoardAbort, HandleAbort, PopsKey, Pops
<1>5. CASE HandleDone
  <2>1. CASE events' = Tail(events)
    BY <1>1, <1>5, <2>1 DEF HandleDone
  <2>2. CASE events' = Append(Tail(events), NextChunkEvent)
    <3>1. Free(Tail(events), PatientKeys) /\ Tail(events) \in Seq(Events)
      <4>1. CASE Free(events, PatientKeys)
        BY <1>0, <1>5, <4>1, Popped DEF HandleDone
      <4>2. CASE Tail(events) \in Seq(Idlers)
        BY <4>2, KeyKinds, IdleFree
      <4> QED
        BY <4>1, <4>2 DEF Patient
    <3> QED
      BY <2>2, <3>1, KeyKinds, MessageTypes, Pushed DEF Patient
  <2> QED
    BY <1>5, <2>1, <2>2 DEF HandleDone
<1>6. CASE MinorReport
  BY <1>2, <1>3, <1>6 DEF MinorReport
<1>7. CASE EndReport
  BY <1>2, <1>3, <1>7, <1>a DEF EndReport
<1>8. CASE N!ReceiveAbort
  <2> DEFINE s == Append(events, N!Simple("OK"))
  <2>1. events' = Append(s, N!Simple("ABORT")) /\ s \in Seq(Events)
    BY <1>0, <1>a, <1>8, KeyKinds, TwoAtOnce DEF N!ReceiveAbort
  <2>2. Free(events, PatientKeys)
    BY <1>3, <1>8 DEF N!ReceiveAbort, N!Receives
  <2>3. Free(s, PatientKeys)
    BY <1>0, <1>a, <2>2, KeyKinds, Pushed
  <2> HIDE DEF s
  <2> QED
    BY <1>a, <2>1, <2>3, KeyKinds, Pushed DEF Patient
<1>9. CASE N!ReceiveCompute
  BY <1>2, <1>3, <1>9, <1>a DEF N!ReceiveCompute, N!Receives, N!Send
<1>10. CASE Silent \/ PressButton \/ UNCHANGED vars
  BY <1>10 DEF Silent, PressButton, N!Button, vars, boardVars, Patient
<1>11. ASSUME NEW m \in Idlers, events' = Append(events, m), toBoard = <<>> => toBoard' = <<>>,
              computing' => computing
       PROVE  Patient'
  <2>1. m \in Events /\ m \notin PatientKeys
    BY KeyKinds
  <2>2. CASE Free(events, PatientKeys)
    BY <1>0, <1>11, <2>1, <2>2, Pushed DEF Patient
  <2>3. CASE events # <<>> /\ Tail(events) \in Seq(Idlers) /\ toBoard = <<>> /\ ~computing
    <3>1. Tail(Append(events, m)) = Append(Tail(events), m) /\ Append(events, m) # <<>>
      BY <1>0, <2>1, <2>3, HeadTailAppend, AppendProperties
    <3>2. Append(Tail(events), m) \in Seq(Idlers)
      BY <2>3, AppendProperties
    <3> QED
      BY <1>11, <2>3, <3>1, <3>2 DEF Patient
  <2> QED
    BY <2>2, <2>3 DEF Patient
<1>12. CASE RestartBoard
  <2>1. events' = Append(events, N!Simple("STARTUP")) /\ ~computing'
    BY <1>12 DEF RestartBoard, N!Restart, N!Send
  <2>2. toBoard = <<>> => toBoard' = <<>>
    BY <1>0, <1>12, Dropped DEF RestartBoard, N!Restart
  <2> QED
    BY <1>11, <2>1, <2>2, KeyKinds
<1>13. ASSUME NEW k \in Keys, Press(k) PROVE Patient'
  <2>1. events' = Append(events, Key(k)) /\ toBoard' = toBoard /\ computing' = computing
    BY <1>13 DEF Press, boardVars
  <2>2. CASE k \in Hasty
    BY <1>11, <2>1, <2>2, KeyKinds
  <2>3. CASE k \notin Hasty
    <3>1. events = <<>> /\ toBoard = <<>> /\ ~computing
      BY <1>13, <2>3 DEF Press, Quiet
    <3>2. events' = <<Key(k)>> /\ Tail(<<Key(k)>>) = <<>>
      BY <2>1, <3>1
    <3>3. events' # <<>> /\ Tail(events') \in Seq(Idlers)
      BY <3>2
    <3> QED
      BY <2>1, <3>1, <3>3 DEF Patient
  <2> QED
    BY <2>2, <2>3
<1> QED
  BY <1>4, <1>5, <1>6, <1>7, <1>8, <1>9, <1>10, <1>12, <1>13, MainStep, BoardStep DEF Next

-----------------------------------------------------------------------------
(* One chunk at a time.                                                    *)

\* If the user waits with start and abort, a chunk is wished for, asked of the
\* board, computed there or reported as ended, and never two of these at once.
OneToken ==
    /\ Unique(events, Signals) /\ Unique(toBoard, Asks)
    /\ Free(events, Signals) \/ (Free(toBoard, Asks) /\ ~computing)
    /\ computing => Free(toBoard, Asks)

WaitsInv == TypeInv /\ Patient /\ OneToken

LEMMA NoSignal ==
    /\ N!Simple("OK") \in Events \ Signals /\ N!Simple("STARTUP") \in Events \ Signals
    /\ N!Simple("DONE") \in Events \cap Signals /\ N!Simple("ABORT") \in Events \cap Signals
    /\ NextChunkEvent \in Events \cap Signals
    /\ \A k \in Keys : Key(k) \in Events /\ (Key(k) \in Signals <=> k = "start")
    /\ "start" \notin Hasty => \A m \in Idlers : m \in Events \ Signals
<1>1. ASSUME NEW t \in {"STARTUP", "OK", "VERSION", "DONE", "ABORT"}
      PROVE  N!Simple(t) \in Events /\ (N!Simple(t) \in Signals <=> t \in {"DONE", "ABORT"})
  <2>1. N!Simple(t) \in Events /\ N!Simple(t).type = t
    BY MessageTypes DEF N!Simple
  <2> QED
    BY <2>1, SignalKinds
<1>2. ASSUME NEW k \in Keys
      PROVE  Key(k) \in Events /\ (Key(k) \in Signals <=> k = "start")
  <2>1. Key(k) \in Events /\ Key(k).type = "key" /\ Key(k).key = k
    BY MessageTypes DEF Key
  <2> QED
    BY <2>1, SignalKinds
<1>3. NextChunkEvent \in Events \cap Signals
  BY MessageTypes DEF Signals
<1>4. "start" \notin Hasty => \A m \in Idlers : m \in Events \ Signals
  BY <1>1, <1>2 DEF Idlers
<1> QED
  BY <1>1, <1>2, <1>3, <1>4

LEMMA AskKinds ==
    /\ \A m \in Others : m \in Requests /\ m \notin Asks /\ m \notin Asking(ChunkType)
    /\ N!Simple("ABORT") \in Requests /\ N!Simple("ABORT") \notin Asking(ChunkType)
    /\ N!Simple("ABORT") \in Asks /\ Asking(ChunkType) \subseteq Asks
<1>1. \A m \in Others : m \in Requests /\ m.type \in {"GET_VERSION", "SET_COMPUTE"}
  BY DEF Others, Requests, N!Simple
<1>2. N!Simple("ABORT").type = "ABORT" /\ \A m \in Asking(ChunkType) : m.type = "COMPUTE"
  BY DEF N!Simple, Asking
<1>3. N!Simple("ABORT") \in Requests /\ N!Simple("ABORT") \in Asks /\ Asking(ChunkType) \subseteq Asks
  BY DEF Requests, Asks
<1> QED
  BY <1>1, <1>2, <1>3, RequestKinds

LEMMA WaitsInit == Init => OneToken
<1> SUFFICES ASSUME Init PROVE OneToken
  OBVIOUS
<1>1. /\ events = <<N!Simple("STARTUP")>> /\ toBoard = <<>> /\ ~computing
      /\ N!Simple("STARTUP") \notin Signals
  BY NoSignal DEF Init, N!BoardInit
<1> QED
  BY <1>1 DEF OneToken, Unique, Free

\* The event a handler takes, by what the handler asks of it.
LEMMA Handled ==
    ASSUME TypeInv
    PROVE  /\ \A k : PopsKey(k) => /\ events # <<>> /\ Head(events) \in Events /\ events' = Tail(events)
                                   /\ Head(events).type = "key" /\ Head(events).key = k
                                   /\ (k = "start" => Head(events) \in Signals)
                                   /\ (k # "start" => Head(events) \notin Signals)
                                   /\ (k \notin Hasty /\ k # "start" => Head(events) \in PatientKeys)
           /\ \A t : Pops(t) => /\ events # <<>> /\ Head(events) \in Events /\ events' = Tail(events)
                                /\ Head(events).type = t
                                /\ (t \in {"DONE", "ABORT"} => Head(events) \in Signals)
<1>0. events \in Seq(Events)
  BY DEF TypeInv, LinkType
<1>1. ASSUME NEW t, Pops(t)
      PROVE  /\ events # <<>> /\ Head(events) \in Events /\ events' = Tail(events)
             /\ Head(events).type = t
             /\ (t \in {"DONE", "ABORT"} => Head(events) \in Signals)
  <2>1. events # <<>> /\ Head(events) \in Events /\ events' = Tail(events) /\ Head(events).type = t
    BY <1>0, <1>1 DEF Pops
  <2> QED
    BY <2>1, SignalKinds
<1>2. ASSUME NEW k, PopsKey(k)
      PROVE  /\ events # <<>> /\ Head(events) \in Events /\ events' = Tail(events)
             /\ Head(events).type = "key" /\ Head(events).key = k
             /\ (k = "start" => Head(events) \in Signals)
             /\ (k # "start" => Head(events) \notin Signals)
             /\ (k \notin Hasty /\ k # "start" => Head(events) \in PatientKeys)
  <2>1. /\ events # <<>> /\ Head(events) \in Events /\ events' = Tail(events)
        /\ Head(events).type = "key" /\ Head(events).key = k
    BY <1>1, <1>2 DEF PopsKey
  <2>2. k # "start" => Head(events) = Key(k) /\ k \in Keys
    BY <2>1, EventKinds
  <2> QED
    BY <2>1, <2>2, SignalKinds, KeyKinds
<1> QED
  BY <1>1, <1>2

\* What HandleStart does to the links.
LEMMA StartStep ==
    ASSUME TypeInv, HandleStart
    PROVE  /\ events # <<>> /\ Head(events) \in Signals /\ events' = Tail(events)
           /\ computing' = computing
           /\ \/ ~comp'.computing /\ toBoard' = toBoard
              \/ \E m \in Asking(ChunkType) : toBoard' = Append(toBoard, m) /\ m.chunk = C!Request(comp')
<1>1. PICK a, b \in 1 .. 255 : Good(comp, a, b)
  BY DEF TypeInv, Sized
<1>2. C!Request(comp') \in ChunkType
  BY <1>1, AdvancedFields, RequestType DEF HandleStart
<1> DEFINE m == [type |-> "COMPUTE", chunk |-> C!Request(comp')]
<1>3. m \in Asking(ChunkType) /\ m.chunk = C!Request(comp')
  BY <1>2 DEF Asking
<1>4. (~comp'.computing /\ toBoard' = toBoard) \/ toBoard' = Append(toBoard, m)
  BY DEF HandleStart, ToBoard
<1> HIDE DEF m
<1>5. \/ ~comp'.computing /\ toBoard' = toBoard
      \/ \E z \in Asking(ChunkType) : toBoard' = Append(toBoard, z) /\ z.chunk = C!Request(comp')
  BY <1>3, <1>4
<1> QED
  BY <1>5, Handled DEF HandleStart, Unmoved, boardVars

LEMMA OneTokenKept ==
    ASSUME "start" \notin Hasty, "abort" \notin Hasty, TypeInv, Patient, OneToken, [Next]_vars
    PROVE  OneToken'
<1>0. events \in Seq(Events) /\ toBoard \in Seq(Requests)
  BY DEF TypeInv, LinkType
<1>a. Unique(events, Signals) /\ Unique(toBoard, Asks)
  BY DEF OneToken
<1>b. ASSUME toBoard # <<>>, toBoard' = Tail(toBoard)
      PROVE  Unique(toBoard', Asks) /\ (Free(toBoard, Asks) => Free(toBoard', Asks))
  BY <1>0, <1>a, <1>b, Popped
<1>c. ASSUME NEW m \in Requests, toBoard' = Append(toBoard, m), m \notin Asks \/ Free(toBoard, Asks)
      PROVE  /\ Unique(toBoard', Asks)
             /\ Free(toBoard, Asks) /\ m \notin Asks => Free(toBoard', Asks)
  BY <1>0, <1>a, <1>c, Pushed
<1>1. CASE MinorHandling
  <2>1. computing' = computing /\ Unique(events', Signals) /\ (Free(events, Signals) => Free(events', Signals))
    BY <1>0, <1>1, Popped DEF MinorHandling, boardVars, OneToken
  <2>2. Unique(toBoard', Asks) /\ (Free(toBoard, Asks) => Free(toBoard', Asks))
    <3>1. CASE toBoard' = toBoard
      BY <1>a, <3>1
    <3>2. CASE \E m \in Others : toBoard' = Append(toBoard, m)
      <4>1. PICK m \in Others : toBoard' = Append(toBoard, m)
        BY <3>2
      <4> QED
        BY <1>c, <4>1, AskKinds
    <3> QED
      BY <1>1, <3>1, <3>2 DEF MinorHandling
  <2> QED
    BY <2>1, <2>2 DEF OneToken
<1>2. CASE HandleStart
  <2>1. computing' = computing /\ events # <<>> /\ Head(events) \in Signals /\ events' = Tail(events)
    BY <1>2, StartStep
  <2>2. Free(events', Signals) /\ Unique(events', Signals) /\ Free(toBoard, Asks) /\ ~computing
    BY <1>0, <2>1, Popped DEF OneToken
  <2>3. toBoard' = toBoard \/ \E m \in Asking(ChunkType) : toBoard' = Append(toBoard, m)
    BY <1>2, StartStep
  <2>4. Unique(toBoard', Asks)
    <3>1. CASE toBoard' = toBoard
      BY <1>a, <3>1
    <3>2. CASE \E m \in Asking(ChunkType) : toBoard' = Append(toBoard, m)
      <4>1. PICK m \in Asking(ChunkType) : toBoard' = Append(toBoard, m)
        BY <3>2
      <4>2. m \in Requests
        BY DEF Requests
      <4> QED
        BY <1>c, <2>2, <4>1, <4>2
    <3> QED
      BY <2>3, <3>1, <3>2
  <2> QED
    BY <2>1, <2>2, <2>4 DEF OneToken
<1>3. CASE HandleDone
  <2>1. events # <<>> /\ Head(events) \in Signals
    BY <1>0, <1>3, SignalKinds, Popped DEF HandleDone
  <2>2. Free(Tail(events), Signals) /\ Unique(Tail(events), Signals) /\ Free(toBoard, Asks) /\ ~computing
        /\ Tail(events) \in Seq(Events)
    BY <1>0, <2>1, Popped DEF OneToken
  <2>3. Unique(events', Signals)
    BY <1>3, <2>2, NoSignal, Pushed DEF HandleDone
  <2>4. toBoard' = toBoard /\ computing' = computing
    BY <1>3 DEF HandleDone, Unmoved, boardVars
  <2> QED
    BY <2>2, <2>3, <2>4 DEF OneToken
<1>4. CASE HandleBoardAbort
  <2>1. events # <<>> /\ Head(events) \in Signals /\ events' = Tail(events)
        /\ toBoard' = toBoard /\ computing' = computing
    BY <1>4, Handled DEF HandleBoardAbort, Unmoved, boardVars
  <2>2. Free(events', Signals) /\ Unique(events', Signals) /\ Free(toBoard, Asks) /\ ~computing
    BY <1>0, <2>1, Popped DEF OneToken
  <2> QED
    BY <2>1, <2>2 DEF OneToken
<1>5. CASE HandleAbort
  <2>1. events # <<>> /\ Head(events) \in PatientKeys /\ events' = Tail(events) /\ Head(events) \notin Signals
    BY <1>5, Handled DEF HandleAbort
  <2>2. Tail(events) \in Seq(Idlers) /\ toBoard = <<>> /\ ~computing
    BY <2>1, PatientTurn
  <2>3. Free(events', Signals) /\ Unique(events', Signals)
    BY <2>1, <2>2, NoSignal, IdleFree DEF Free, Unique
  <2>4. computing' = computing /\ (toBoard' = toBoard \/ toBoard' = Append(toBoard, N!Simple("ABORT")))
    BY <1>5 DEF HandleAbort, ToBoard, Unmoved, boardVars
  <2>5. Unique(toBoard', Asks)
    BY <1>0, <2>2, <2>4, AskKinds, Pushed DEF Unique, Free
  <2> QED
    BY <2>2, <2>3, <2>4, <2>5 DEF OneToken
<1>6. ASSUME NEW m \in Events \ Signals, events' = Append(events, m)
      PROVE  Unique(events', Signals) /\ (Free(events, Signals) => Free(events', Signals))
  BY <1>0, <1>6, Pushed DEF OneToken
<1>7. CASE MinorReport
  <2>1. Unique(events', Signals) /\ (Free(events, Signals) => Free(events', Signals)) /\ computing' = computing
    BY <1>6, <1>7 DEF MinorReport, Events
  <2>2. Unique(toBoard', Asks) /\ (Free(toBoard, Asks) => Free(toBoard', Asks))
    BY <1>a, <1>b, <1>7 DEF MinorReport
  <2> QED
    BY <2>1, <2>2 DEF OneToken
<1>8. CASE EndReport
  <2>1. Free(events, Signals) /\ Free(toBoard, Asks) /\ ~computing' /\ toBoard' = toBoard
    BY <1>8 DEF EndReport, OneToken
  <2>2. Unique(events', Signals)
    <3>1. ASSUME NEW m \in Events, events' = Append(events, m) PROVE Unique(events', Signals)
      BY <1>0, <1>a, <2>1, <3>1, Pushed
    <3> QED
      BY <1>8, <3>1, NoSignal DEF EndReport
  <2> QED
    BY <2>1, <2>2 DEF OneToken
<1>9. ASSUME NEW t \in {"COMPUTE", "ABORT"}, N!Receives(t)
      PROVE  /\ Free(events, Signals) /\ ~computing
             /\ toBoard' \in Seq(Requests) /\ Free(toBoard', Asks) /\ Unique(toBoard', Asks)
  <2>1. toBoard # <<>> /\ Head(toBoard) \in Asks /\ toBoard' = Tail(toBoard)
    BY <1>0, <1>9, RequestKinds DEF N!Receives
  <2>2. ~Free(toBoard, Asks)
    BY <1>0, <2>1, Popped
  <2>3. Free(toBoard', Asks) /\ toBoard' \in Seq(Requests) /\ Unique(toBoard', Asks)
    BY <1>0, <2>1, Popped DEF OneToken
  <2> QED
    BY <2>2, <2>3 DEF OneToken
<1>10. CASE N!ReceiveAbort
  <2> DEFINE s == Append(events, N!Simple("OK"))
  <2>1. Free(events, Signals) /\ Free(toBoard', Asks) /\ Unique(toBoard', Asks) /\ ~computing'
    BY <1>9, <1>10 DEF N!ReceiveAbort
  <2>2. events' = Append(s, N!Simple("ABORT")) /\ s \in Seq(Events)
    BY <1>0, <1>10, NoSignal, TwoAtOnce DEF N!ReceiveAbort
  <2>3. Unique(s, Signals) /\ Free(s, Signals)
    BY <1>0, <2>1, NoSignal, Pushed DEF OneToken
  <2> HIDE DEF s
  <2>4. Unique(events', Signals)
    BY <2>2, <2>3, NoSignal, Pushed
  <2> QED
    BY <2>1, <2>4 DEF OneToken
<1>11. CASE N!ReceiveCompute
  <2>1. Free(events, Signals) /\ Free(toBoard', Asks) /\ Unique(toBoard', Asks)
    BY <1>9, <1>11 DEF N!ReceiveCompute
  <2>2. Unique(events', Signals) /\ Free(events', Signals)
    BY <1>6, <1>11, <2>1, NoSignal DEF N!ReceiveCompute, N!Send
  <2> QED
    BY <2>1, <2>2 DEF OneToken
<1>12. CASE Silent \/ PressButton \/ UNCHANGED vars
  BY <1>12 DEF Silent, PressButton, N!Button, vars, boardVars, OneToken
<1>13. CASE RestartBoard
  <2>1. Unique(events', Signals) /\ (Free(events, Signals) => Free(events', Signals)) /\ ~computing'
    BY <1>6, <1>13, NoSignal DEF RestartBoard, N!Restart, N!Send
  <2>2. Unique(toBoard', Asks) /\ (Free(toBoard, Asks) => Free(toBoard', Asks))
    BY <1>0, <1>13, Dropped DEF RestartBoard, N!Restart, OneToken
  <2> QED
    BY <2>1, <2>2 DEF OneToken
<1>14. ASSUME NEW k \in Keys, Press(k) PROVE OneToken'
  <2>1. events' = Append(events, Key(k)) /\ toBoard' = toBoard /\ computing' = computing
    BY <1>14 DEF Press, boardVars
  <2>2. CASE k # "start"
    <3>1. Unique(events', Signals) /\ (Free(events, Signals) => Free(events', Signals))
      BY <1>6, <2>1, <2>2, NoSignal
    <3> QED
      BY <2>1, <3>1 DEF OneToken
  <2>3. CASE k = "start"
    <3>1. events = <<>> /\ toBoard = <<>> /\ ~computing
      BY <1>14, <2>3 DEF Press, Quiet
    <3>2. Free(events, Signals) /\ Free(toBoard, Asks)
      BY <3>1 DEF Free
    <3>3. Unique(events', Signals)
      BY <1>0, <2>1, <3>2, NoSignal, Pushed DEF OneToken
    <3> QED
      BY <2>1, <3>1, <3>2, <3>3 DEF OneToken
  <2> QED
    BY <2>2, <2>3
<1> QED
  BY <1>1, <1>2, <1>3, <1>4, <1>5, <1>7, <1>8, <1>10, <1>11, <1>12, <1>13, <1>14, MainStep, BoardStep DEF Next

LEMMA WaitsNext ==
    ASSUME "start" \notin Hasty, "abort" \notin Hasty
    PROVE  WaitsInv /\ [Next]_vars => WaitsInv'
BY NextTyped, PatientKept, OneTokenKept DEF WaitsInv

-----------------------------------------------------------------------------
(* No value is stored for another pixel.                                   *)

\* Chunks of the present tiling, and data from inside one of them.
GoodChunks(a, b) ==
    {c \in ChunkType : /\ c.cid < N2
                       /\ c.x = (c.cid % Divide) * a /\ c.y = (c.cid \div Divide) * b
                       /\ c.n_re = a /\ c.n_im = b
                       /\ c.w = a * Divide /\ c.h = b * Divide}
GoodData(a, b) ==
    {m \in DataEvents(ChunkType) : m.chunk \in GoodChunks(a, b) /\ m.i_re < a /\ m.i_im < b}
AlignedLinks(a, b) ==
    /\ Free(events, DataEvents(ChunkType) \ GoodData(a, b))
    /\ Free(toBoard, Asking(ChunkType) \ Asking(GoodChunks(a, b)))
    /\ computing => /\ chunk \in GoodChunks(a, b)
                    /\ pixel = j * a + i /\ i < a /\ pixel <= a * b

AlignedInv ==
    /\ TypeInv /\ Patient
    /\ \E a, b \in 1 .. 255 : Good(comp, a, b) /\ AlignedLinks(a, b)
    /\ AlignedWrites

\* A running computation asks for its own chunk.
LEMMA RequestGood ==
    ASSUME NEW c, NEW a, NEW b, Good(c, a, b), c.computing
    PROVE  C!Request(c) \in GoodChunks(a, b) /\ C!Request(c).cid = c.cid
<1>1. /\ C!ChunkRe(c) = a /\ C!ChunkIm(c) = b /\ c.cid < N2
      /\ c.w = a * Divide /\ c.h = b * Divide
      /\ c.cur_x = (c.cid % Divide) * a /\ c.cur_y = (c.cid \div Divide) * b
  BY GoodMeans
<1>2. C!Request(c) \in ChunkType
  BY RequestType
<1>3. C!Request(c) = [cid |-> c.cid, x |-> c.cur_x, y |-> c.cur_y,
                      n_re |-> a, n_im |-> b, w |-> c.w, h |-> c.h]
  BY <1>1 DEF C!Request
<1> DEFINE r == C!Request(c)
<1>4. r.cid = c.cid /\ r.x = c.cur_x /\ r.y = c.cur_y /\ r.n_re = a /\ r.n_im = b /\ r.w = c.w /\ r.h = c.h
  BY <1>3
<1> HIDE DEF r
<1>5. r \in ChunkType
  BY <1>2 DEF r
<1>6. r \in GoodChunks(a, b) /\ r.cid = c.cid
  BY <1>1, <1>4, <1>5 DEF GoodChunks
<1> QED
  BY <1>6 DEF r

\* Data of the chunk the host is at are stored where they belong.
LEMMA DataFit ==
    ASSUME NEW c, NEW a, NEW b, Good(c, a, b), NEW m \in GoodData(a, b), m.chunk.cid = c.cid
    PROVE  /\ C!Index(c, Computed(m)) = ((c.cid % Divide) * a + m.i_re)
                                        + ((c.cid \div Divide) * b + m.i_im) * c.w
           /\ Quality(c, Computed(m), m) # "alien"
<1> DEFINE x == (c.cid % Divide) * a + m.i_re
           y == (c.cid \div Divide) * b + m.i_im
           d == Computed(m)
<1>1. /\ m.chunk \in GoodChunks(a, b) /\ m.i_re \in Nat /\ m.i_im \in Nat /\ m.i_re < a /\ m.i_im < b
  BY DEF GoodData, DataEvents
<1>2. /\ c.cid < N2 /\ m.chunk.x = (c.cid % Divide) * a /\ m.chunk.y = (c.cid \div Divide) * b
      /\ m.chunk.w = c.w /\ m.chunk.h = c.h
      /\ c.cur_x = (c.cid % Divide) * a /\ c.cur_y = (c.cid \div Divide) * b
      /\ c.w = a * Divide /\ c.cid \in Nat
      /\ a \in Nat \ {0} /\ b \in Nat \ {0}
  BY <1>1, GoodMeans DEF GoodChunks, CompRecord
<1>3. C!Index(c, d) = x + y * c.w
  BY <1>2 DEF C!Index, Computed
<1>4. d.iter = <<c.w, c.h, x, y>>
  BY <1>2 DEF Computed
<1>5. (x + y * (a * Divide)) % (a * Divide) = x /\ (x + y * (a * Divide)) \div (a * Divide) = y
  <2>1. m.i_re \in 0 .. a - 1 /\ m.i_im \in 0 .. b - 1
    BY <1>1, <1>2, SMT
  <2>2. CP!AtItsIndex(c.cid, a, b, m.i_re, m.i_im)
    BY <1>2, <2>1, CP!PixelFound, ImageAssumption
  <2> QED
    BY <2>2 DEF CP!AtItsIndex
<1>6. C!Pixel(c, C!Index(c, d) % c.w, C!Index(c, d) \div c.w) = <<c.w, c.h, x, y>>
  BY <1>2, <1>3, <1>5 DEF C!Pixel
<1>7. Quality(c, d, m) # "alien"
  BY <1>4, <1>6 DEF Quality
<1> QED
  BY <1>3, <1>7

\* Only data are bad data, and only requests for a chunk bad requests.
LEMMA Harmless ==
    ASSUME NEW a, NEW b
    PROVE  /\ \A m \in Reports \cup KeyEvents : m \in Events /\ m \notin DataEvents(ChunkType) \ GoodData(a, b)
           /\ \A m \in Others \cup {N!Simple("ABORT")} :
                m \in Requests /\ m \notin Asking(ChunkType) \ Asking(GoodChunks(a, b))
<1>1. \A m \in Reports \cup KeyEvents : m \in Events /\ m.type # "COMPUTE_DATA"
  BY DEF Events, Reports, KeyEvents, N!Simple, Key, NextChunkEvent
<1>2. \A m \in DataEvents(ChunkType) : m.type = "COMPUTE_DATA"
  BY DEF DataEvents
<1> QED
  BY <1>1, <1>2, AskKinds

LEMMA AlignedLinksKept ==
    ASSUME TypeInv, NEW a, NEW b, Good(comp, a, b), AlignedLinks(a, b), [Next]_vars, ~HandleResize
    PROVE  AlignedLinks(a, b)'
<1> DEFINE B == DataEvents(ChunkType) \ GoodData(a, b)
           R == Asking(ChunkType) \ Asking(GoodChunks(a, b))
           W == computing => /\ chunk \in GoodChunks(a, b)
                             /\ pixel = j * a + i /\ i < a /\ pixel <= a * b
<1>0. /\ events \in Seq(Events) /\ toBoard \in Seq(Requests) /\ Free(events, B) /\ Free(toBoard, R)
      /\ BoardType /\ a \in Nat \ {0} /\ b \in Nat \ {0}
  BY GoodMeans DEF TypeInv, LinkType, AlignedLinks
<1>1. \A m \in Reports \cup KeyEvents : m \in Events /\ m \notin B
  BY Harmless
<1>2. \A m \in Others \cup {N!Simple("ABORT")} : m \in Requests /\ m \notin R
  BY Harmless
<1>3. W
  BY DEF AlignedLinks
<1>4. UNCHANGED boardVars => W'
  BY <1>3 DEF boardVars
<1> SUFFICES Free(events', B) /\ Free(toBoard', R) /\ W'
  BY DEF AlignedLinks
<1> HIDE DEF B, R
<1>5. ASSUME events # <<>>, events' = Tail(events) PROVE Free(events', B)
  BY <1>0, <1>5, Popped
<1>6. ASSUME NEW m \in Events, events' = Append(events, m), m \notin B PROVE Free(events', B)
  BY <1>0, <1>6, Pushed
<1>7. ASSUME toBoard # <<>>, toBoard' = Tail(toBoard) PROVE Free(toBoard', R)
  BY <1>0, <1>7, Popped
<1>8. ASSUME NEW m \in Requests, toBoard' = Append(toBoard, m), m \notin R PROVE Free(toBoard', R)
  BY <1>0, <1>8, Pushed
<1>9. NextChunkEvent \in KeyEvents /\ \A k \in Keys : Key(k) \in KeyEvents
  BY DEF KeyEvents
<1>10. \A t \in {"STARTUP", "OK", "VERSION", "DONE", "ABORT"} : N!Simple(t) \in Reports
  BY DEF Reports
<1> HIDE DEF W
<1>11. CASE MinorHandling
  BY <1>0, <1>2, <1>4, <1>5, <1>8, <1>11 DEF MinorHandling
<1>12. CASE HandleStart
  <2>1. Free(events', B) /\ W'
    BY <1>4, <1>5, <1>12, StartStep DEF HandleStart, Unmoved
  <2>0. toBoard' = toBoard \/ comp'.computing
    BY <1>12 DEF HandleStart
  <2>2. CASE toBoard' = toBoard
    BY <1>0, <2>1, <2>2
  <2>3. CASE comp'.computing
    <3>1. C!Request(comp') \in GoodChunks(a, b)
      BY <1>12, <2>3, AdvancedFields, RequestGood DEF HandleStart
    <3>2. PICK m \in Asking(ChunkType) : toBoard' = Append(toBoard, m) /\ m.chunk = C!Request(comp')
      BY <1>12, <2>3, StartStep
    <3>3. m \in Requests /\ m \notin R
      BY <3>1, <3>2 DEF R, Asking, Requests
    <3> QED
      BY <1>8, <2>1, <3>2, <3>3
  <2> QED
    BY <2>0, <2>2, <2>3
<1>13. CASE HandleDone
  <2>1. W' /\ toBoard' = toBoard /\ events # <<>>
    BY <1>4, <1>13 DEF HandleDone, Unmoved
  <2>2. Tail(events) \in Seq(Events) /\ Free(Tail(events), B)
    BY <1>0, <2>1, Popped
  <2>3. Free(Append(Tail(events), NextChunkEvent), B)
    BY <1>1, <1>9, <2>2, Pushed
  <2> QED
    BY <1>0, <1>13, <2>1, <2>2, <2>3 DEF HandleDone
<1>14. CASE HandleBoardAbort
  BY <1>0, <1>4, <1>5, <1>14 DEF HandleBoardAbort, Pops, Unmoved
<1>15. CASE HandleAbort
  BY <1>0, <1>2, <1>4, <1>5, <1>8, <1>15 DEF HandleAbort, PopsKey, Pops, Unmoved, ToBoard
<1>16. CASE N!Check
  <2>1. Free(events', B) /\ toBoard' = toBoard
    BY <1>0, <1>1, <1>6, <1>10, <1>16 DEF N!Check, N!Send
  <2>2. W'
    BY <1>3, <1>16 DEF N!Check, W
  <2> QED
    BY <1>0, <2>1, <2>2
<1>17. CASE N!ReceiveGetVersion
  <2>1. W'
    BY <1>3, <1>17 DEF N!ReceiveGetVersion, W
  <2> QED
    BY <1>1, <1>6, <1>7, <1>10, <1>17, <2>1 DEF N!ReceiveGetVersion, N!Receives, N!Send
<1>18. CASE N!ReceiveAbort
  <2> DEFINE s == Append(events, N!Simple("OK"))
  <2>1. events' = Append(s, N!Simple("ABORT")) /\ s \in Seq(Events) /\ W'
    BY <1>0, <1>1, <1>10, <1>18, TwoAtOnce DEF N!ReceiveAbort, W
  <2>2. Free(s, B)
    BY <1>0, <1>1, <1>10, Pushed
  <2> HIDE DEF s
  <2>3. Free(events', B)
    BY <1>1, <1>10, <2>1, <2>2, Pushed
  <2> QED
    BY <1>7, <1>18, <2>1, <2>3 DEF N!ReceiveAbort, N!Receives
<1>19. CASE N!ReceiveSetCompute
  <2>1. W'
    BY <1>3, <1>19 DEF N!ReceiveSetCompute, W
  <2> QED
    BY <1>1, <1>6, <1>7, <1>10, <1>19, <2>1 DEF N!ReceiveSetCompute, N!Receives, N!Send
<1>20. CASE N!ReceiveCompute
  <2>1. Free(events', B) /\ Free(toBoard', R)
    BY <1>1, <1>6, <1>7, <1>10, <1>20 DEF N!ReceiveCompute, N!Receives, N!Send
  <2>2. CASE computing
    <3>1. W'
      BY <1>3, <1>20, <2>2 DEF N!ReceiveCompute, W
    <3> QED
      BY <2>1, <3>1
  <2>3. CASE ~computing
    <3>1. Head(toBoard) \in Asking(ChunkType) /\ Head(toBoard) \notin R
      BY <1>0, <1>20, RequestKinds, Popped DEF N!ReceiveCompute, N!Receives
    <3>2. Head(toBoard).chunk \in GoodChunks(a, b)
      BY <3>1 DEF R, Asking
    <3>3. chunk' \in GoodChunks(a, b) /\ pixel' = 0 /\ j' = 0 /\ i' = 0
      BY <1>20, <2>3, <3>2 DEF N!ReceiveCompute
    <3>4. 0 = 0 * a + 0 /\ 0 < a /\ 0 <= a * b
      <4>1. 0 * a = 0 /\ a * b \in Nat
        BY <1>0, SMT
      <4> QED
        BY <1>0, <4>1, SMT
    <3> QED
      BY <2>1, <3>3, <3>4 DEF W
  <2> QED
    BY <2>2, <2>3
<1>21. CASE N!ComputePixel
  <2>1. /\ computing /\ chunk \in GoodChunks(a, b) /\ chunk \in ChunkType /\ chunk.n_re = a /\ chunk.n_im = b
        /\ pixel = j * a + i /\ i < a /\ a * b > pixel
        /\ i \in Nat /\ j \in Nat /\ params \in ParamType
    BY <1>0, <1>3, <1>21 DEF N!ComputePixel, W, GoodChunks, BoardType
  <2>2. /\ j < b /\ j * a + i \in Nat /\ a * b \in Nat
        /\ (i + 1) % a = 0 => i + 1 = a /\ (j * a + i) + 1 = (j + 1) * a + 0
        /\ (i + 1) % a # 0 => i + 1 < a
    BY <1>0, <2>1, NP!NextPosition
  <2>3. N!Data(chunk, i, j, params) \in Events /\ N!Data(chunk, i, j, params) \notin B
    <3>1. N!Data(chunk, i, j, params) \in DataEvents(ChunkType)
      BY <2>1, MessageTypes
    <3>2. N!Data(chunk, i, j, params) \in GoodData(a, b)
      BY <2>1, <2>2, <3>1 DEF GoodData, N!Data
    <3> QED
      BY <3>1, <3>2 DEF B, Events
  <2>4. Free(events', B) /\ toBoard' = toBoard
    BY <1>6, <1>21, <2>3 DEF N!ComputePixel, N!Send
  <2>5. chunk' = chunk /\ pixel' = pixel + 1 /\ i' < a /\ pixel' = j' * a + i' /\ pixel' <= a * b
    <3> DEFINE n == a * b
               r == j * a
               r1 == (j + 1) * a
    <3>1. n \in Nat /\ r \in Nat /\ r1 = r + a /\ a \in Nat \ {0} /\ pixel = r + i /\ i \in Nat /\ n > pixel
          /\ pixel' = pixel + 1 /\ chunk' = chunk
      <4>1. (j + 1) * a = j * a + a /\ j * a \in Nat
        BY <1>0, <2>1, SMT
      <4> QED
        BY <1>0, <1>21, <2>1, <2>2, <4>1 DEF N!ComputePixel
    <3>2. CASE (i + 1) % a = 0
      <4>1. i' = 0 /\ j' = j + 1 /\ pixel + 1 = (j + 1) * a + 0
        BY <1>21, <2>1, <2>2, <3>2 DEF N!ComputePixel
      <4>2. j' * a + i' = r1 + 0
        BY <4>1
      <4> HIDE DEF n, r, r1
      <4>3. pixel + 1 <= n /\ 0 < a
        BY <3>1, SMT
      <4>4. pixel + 1 = r1 + 0
        BY <4>1 DEF r1
      <4> QED
        BY <3>1, <4>1, <4>2, <4>3, <4>4 DEF n
    <3>3. CASE (i + 1) % a # 0
      <4>1. i' = i + 1 /\ j' = j /\ i + 1 < a
        BY <1>21, <2>1, <2>2, <3>3 DEF N!ComputePixel
      <4>2. j' * a + i' = r + (i + 1)
        BY <4>1
      <4> HIDE DEF n, r, r1
      <4>3. pixel + 1 = r + (i + 1) /\ pixel + 1 <= n
        BY <3>1, SMT
      <4> QED
        BY <3>1, <4>1, <4>2, <4>3 DEF n
    <3> QED
      BY <3>2, <3>3
  <2> QED
    BY <1>0, <2>1, <2>4, <2>5 DEF W
<1>22. CASE N!ChunkDone
  BY <1>0, <1>1, <1>6, <1>10, <1>22 DEF N!ChunkDone, N!Send, W
<1>23. CASE PressButton
  BY <1>0, <1>3, <1>23 DEF PressButton, N!Button, W
<1>24. CASE RestartBoard
  <2>1. Free(events', B) /\ ~computing'
    BY <1>1, <1>6, <1>10, <1>24 DEF RestartBoard, N!Restart, N!Send
  <2>2. Free(toBoard', R)
    BY <1>0, <1>24, Dropped DEF RestartBoard, N!Restart
  <2> QED
    BY <2>1, <2>2 DEF W
<1>25. ASSUME NEW k \in Keys, Press(k) PROVE Free(events', B) /\ Free(toBoard', R) /\ W'
  BY <1>0, <1>1, <1>4, <1>6, <1>9, <1>25 DEF Press
<1>26. CASE UNCHANGED vars
  BY <1>0, <1>4, <1>26 DEF vars
<1> QED
  BY <1>11, <1>12, <1>13, <1>14, <1>15, <1>16, <1>17, <1>18, <1>19, <1>20, <1>21, <1>22, <1>23, <1>24,
     <1>25, <1>26, MainStep DEF Next, Board, N!Work, N!Receive

\* A value is stored only for the pixel it was computed for.
LEMMA AlignedGrid ==
    ASSUME TypeInv, NEW a, NEW b, Good(comp, a, b), AlignedLinks(a, b), AlignedWrites, [Next]_vars
    PROVE  AlignedWrites'
<1>0. events \in Seq(Events) /\ \A k \in DOMAIN grid : grid[k] # "alien"
  BY DEF TypeInv, LinkType, AlignedWrites
<1>1. CASE HandleResize
  <2>1. grid' = [k \in 0 .. comp'.w * comp'.h - 1 |-> "unset"]
    BY <1>1 DEF HandleResize, Blank
  <2> QED
    BY <2>1 DEF AlignedWrites
<1>2. CASE HandleClear
  <2>1. grid' = [k \in DOMAIN grid |-> IF grid[k] = "unset" THEN "unset" ELSE "cleared"]
    BY <1>2 DEF HandleClear
  <2> QED
    BY <2>1 DEF AlignedWrites
<1>3. CASE HandleData
  <2> DEFINE m == Head(events)
             x == C!Index(comp, Computed(m))
             v == Quality(comp, Computed(m), m)
  <2>1. CASE grid' = grid
    BY <1>0, <2>1 DEF AlignedWrites
  <2>2. CASE grid' # grid
    <3>1. C!Hits(comp, Computed(m)) /\ grid' = [grid EXCEPT ![x] = v]
      BY <1>3, <2>2 DEF HandleData
    <3>2. m.chunk.cid = comp.cid
      BY <3>1 DEF C!Hits, C!Takes, Computed
    <3>3. events # <<>> /\ m \in DataEvents(ChunkType)
      <4>1. events # <<>> /\ m \in Events /\ m.type = "COMPUTE_DATA"
        BY <1>0, <1>3 DEF HandleData, Pops
      <4> QED
        BY <4>1, EventKinds
    <3>4. m \in GoodData(a, b)
      <4> DEFINE B == DataEvents(ChunkType) \ GoodData(a, b)
      <4>1. Free(events, B)
        BY DEF AlignedLinks
      <4> HIDE DEF B
      <4>2. m \notin B
        BY <1>0, <3>3, <4>1, Popped
      <4> QED
        BY <3>3, <4>2 DEF B
    <3>5. v # "alien"
      BY <3>2, <3>4, DataFit
    <3> HIDE DEF x, v
    <3> QED
      BY <1>0, <3>1, <3>5 DEF AlignedWrites
  <2> QED
    BY <2>1, <2>2
<1>4. CASE ~HandleResize /\ ~HandleClear /\ ~HandleData
  <2>1. grid' = grid
    BY <1>4 DEF Next, Main, HandleKey, HandleMessage, HandleSet, HandleStart, HandleCpu,
       HandleAbort, HandleReset, HandleVersion, HandleStartup, HandleReport, HandleDone,
       HandleBoardAbort, Board, PressButton, RestartBoard, Press, hostVars, vars
  <2> QED
    BY <1>0, <2>1 DEF AlignedWrites
<1> QED
  BY <1>1, <1>2, <1>3, <1>4

LEMMA AlignedInit == Init => AlignedInv
<1> SUFFICES ASSUME Init PROVE AlignedInv
  OBVIOUS
<1>1. PICK a, b \in 1 .. 255 : Good(comp, a, b)
  BY InitIsGood
<1>2. events = <<N!Simple("STARTUP")>> /\ toBoard = <<>> /\ computing = FALSE
      /\ grid = [k \in 0 .. comp.w * comp.h - 1 |-> "unset"]
  BY DEF Init, N!BoardInit, Blank
<1>3. N!Simple("STARTUP") \notin DataEvents(ChunkType)
  BY Harmless, MessageTypes DEF DataEvents, N!Simple
<1>4. AlignedLinks(a, b)
  BY <1>2, <1>3 DEF AlignedLinks, Free
<1>5. AlignedWrites
  BY <1>2 DEF AlignedWrites
<1> QED
  BY <1>1, <1>4, <1>5, InitTyped, PatientInit DEF AlignedInv

LEMMA AlignedNext ==
    ASSUME "resize" \notin Hasty
    PROVE  AlignedInv /\ [Next]_vars => AlignedInv'
<1> SUFFICES ASSUME AlignedInv, [Next]_vars PROVE AlignedInv'
  OBVIOUS
<1>1. PICK a, b \in 1 .. 255 : Good(comp, a, b) /\ AlignedLinks(a, b)
  BY DEF AlignedInv
<1>2. TypeInv /\ Patient /\ AlignedWrites
  BY DEF AlignedInv
<1>3. AlignedWrites' /\ TypeInv' /\ Patient'
  BY <1>1, <1>2, AlignedGrid, NextTyped, PatientKept
<1>4. CASE ~HandleResize
  BY <1>1, <1>2, <1>3, <1>4, CompStep, AlignedLinksKept DEF AlignedInv
<1>5. CASE HandleResize
  <2>1. PICK a2, b2 \in 1 .. 255 : Good(comp', a2, b2)
    BY <1>3 DEF TypeInv, Sized
  <2>2. events # <<>> /\ Head(events) \in PatientKeys /\ events' = Tail(events)
    BY <1>2, <1>5, Handled DEF HandleResize
  <2>3. Tail(events) \in Seq(Idlers) /\ toBoard = <<>> /\ ~computing
    BY <1>2, <2>2, PatientTurn
  <2>4. toBoard' = <<>> /\ ~computing'
    BY <1>5, <2>3 DEF HandleResize, Unmoved, boardVars
  <2>5. Free(events', DataEvents(ChunkType) \ GoodData(a2, b2))
    <3>1. \A m \in Idlers : m \notin DataEvents(ChunkType)
      BY DEF Idlers, Key, N!Simple, DataEvents
    <3> QED
      BY <2>2, <2>3, <3>1, IdleFree
  <2>6. AlignedLinks(a2, b2)'
    BY <2>4, <2>5 DEF AlignedLinks, Free
  <2> QED
    BY <1>3, <2>1, <2>6 DEF AlignedInv
<1> QED
  BY <1>4, <1>5

\* AlignedWrites of SemSystem: if a new size is asked for only when all is
\* quiet, no value is ever stored for another pixel, whatever the user does
\* with the other keys (an abort and a new start with data still on the way
\* included), the buttons and the resets of the board.
THEOREM WritesAreAligned ==
    ASSUME "resize" \notin Hasty
    PROVE  Spec => []AlignedWrites
<1>1. AlignedInv => AlignedWrites
  BY DEF AlignedInv
<1> QED
  BY <1>1, AlignedInit, AlignedNext, PTL DEF Spec

-----------------------------------------------------------------------------
(* The host knows whether it is computing.                                 *)

\* Every element of S is before every element of T.
Precede(s, S, T) == \A k, n \in DOMAIN s : s[k] \in T /\ s[n] \in S => n < k

\* An element of S is before each element of T.
Heralded(s, S, T) == \A n \in DOMAIN s : s[n] \in T => \E m \in DOMAIN s : m < n /\ s[m] \in S

LEMMA PoppedMore ==
    ASSUME NEW E, NEW S, NEW T, NEW s \in Seq(E), s # <<>>
    PROVE  /\ Precede(s, S, T) => Precede(Tail(s), S, T)
           /\ Precede(s, S, T) /\ Head(s) \in T => Free(s, S) /\ Free(Tail(s), S)
           /\ ~Free(s, S) /\ Head(s) \notin S => ~Free(Tail(s), S)
           /\ Heralded(s, S, T) /\ Head(s) \notin S => Heralded(Tail(s), S, T)
           /\ Heralded(s, S, T) => Head(s) \notin T
<1>1. /\ \A n \in DOMAIN Tail(s) : n + 1 \in DOMAIN s /\ n \in Nat \ {0} /\ Tail(s)[n] = s[n + 1]
      /\ Head(s) = s[1] /\ 1 \in DOMAIN s
  BY Popped
<1>2. \A n \in DOMAIN s : n \in Nat \ {0} /\ ~(n < 1)
  BY SMT
<1>3. Precede(s, S, T) => Precede(Tail(s), S, T)
  <2> SUFFICES ASSUME Precede(s, S, T), NEW k \in DOMAIN Tail(s), NEW n \in DOMAIN Tail(s),
                      Tail(s)[k] \in T, Tail(s)[n] \in S
               PROVE  n < k
    BY DEF Precede
  <2>1. n + 1 < k + 1 /\ n \in Nat /\ k \in Nat
    BY <1>1 DEF Precede
  <2> QED
    BY <2>1, SMT
<1>4. Precede(s, S, T) /\ Head(s) \in T => Free(s, S)
  BY <1>1, <1>2 DEF Precede, Free
<1>5. Heralded(s, S, T) => Head(s) \notin T
  BY <1>1, <1>2 DEF Heralded
<1>6. ASSUME Heralded(s, S, T), Head(s) \notin S PROVE Heralded(Tail(s), S, T)
  <2> SUFFICES ASSUME NEW n \in DOMAIN Tail(s), Tail(s)[n] \in T
               PROVE  \E m \in DOMAIN Tail(s) : m < n /\ Tail(s)[m] \in S
    BY DEF Heralded
  <2>1. PICK m \in DOMAIN s : m < n + 1 /\ s[m] \in S
    BY <1>1, <1>6 DEF Heralded
  <2>2. m # 1
    BY <1>1, <1>6, <2>1
  <2>3. m - 1 \in DOMAIN Tail(s) /\ Tail(s)[m - 1] = s[m]
    BY <2>2, Popped
  <2>4. m - 1 < n
    BY <1>1, <1>2, <2>1, SMT
  <2> QED
    BY <2>1, <2>3, <2>4
<1> QED
  BY <1>3, <1>4, <1>5, <1>6, Popped

LEMMA PushedMore ==
    ASSUME NEW E, NEW S, NEW T, NEW s \in Seq(E), NEW x \in E
    PROVE  /\ Precede(s, S, T) /\ (x \notin S \/ (Free(s, T) /\ x \notin T)) => Precede(Append(s, x), S, T)
           /\ ~Free(s, S) => ~Free(Append(s, x), S)
           /\ x \in S => ~Free(Append(s, x), S)
           /\ Heralded(s, S, T) /\ (x \notin T \/ ~Free(s, S)) => Heralded(Append(s, x), S, T)
<1>1. /\ Len(s) \in Nat
      /\ Len(s) + 1 \in DOMAIN Append(s, x) /\ Append(s, x)[Len(s) + 1] = x
      /\ \A n \in DOMAIN s : n \in DOMAIN Append(s, x) /\ Append(s, x)[n] = s[n] /\ n < Len(s) + 1
      /\ \A n \in DOMAIN Append(s, x) : n \in DOMAIN s \/ n = Len(s) + 1
  BY Pushed
<1>2. Precede(s, S, T) /\ (x \notin S \/ (Free(s, T) /\ x \notin T)) => Precede(Append(s, x), S, T)
  BY <1>1 DEF Precede, Free
<1>3. ASSUME Heralded(s, S, T), x \notin T \/ ~Free(s, S) PROVE Heralded(Append(s, x), S, T)
  <2> SUFFICES ASSUME NEW n \in DOMAIN Append(s, x), Append(s, x)[n] \in T
               PROVE  \E m \in DOMAIN Append(s, x) : m < n /\ Append(s, x)[m] \in S
    BY DEF Heralded
  <2>1. CASE n \in DOMAIN s
    BY <1>1, <1>3, <2>1 DEF Heralded
  <2>2. CASE n = Len(s) + 1
    <3>1. PICK m \in DOMAIN s : s[m] \in S
      BY <1>1, <1>3, <2>2 DEF Free
    <3> QED
      BY <1>1, <2>2, <3>1
  <2> QED
    BY <1>1, <2>1, <2>2
<1> QED
  BY <1>1, <1>2, <1>3 DEF Free

\* The data of a chunk arrive before its end is reported, and all that was
\* sent before a chunk is asked for.
DataFirst == Precede(events, DataEvents(ChunkType), Signals)

\* A computation that runs is not aborted.
ComputingRuns == comp.computing => ~comp.abort

\* While the computation is at its last chunk, the pixel that ends it is still
\* to come: after it, the computation does not run any more.
LastData(c, a, b) ==
    {m \in DataEvents(ChunkType) : m.chunk.cid = c /\ m.i_re + 1 = a /\ m.i_im + 1 = b}
Asked(c) == {m \in Asking(ChunkType) : m.chunk.cid = c}
Done == {N!Simple("DONE")}
Abort == {N!Simple("ABORT")}
Awaited(a, b) ==
    \/ ~Free(toBoard, Asked(comp.cid))
    \/ /\ computing /\ chunk.cid = comp.cid
       /\ pixel = a * b => ~Free(events, LastData(comp.cid, a, b))
    \/ ~Free(events, Done) /\ ~Free(events, LastData(comp.cid, a, b))
    \/ ~Free(events, Abort)
LastInv(a, b) == comp.computing /\ ~(comp.cid + 1 < N2) => Awaited(a, b)

\* If the host believes that it is computing, the board will tell it when it
\* is not.
Sync ==
    data_computing => \/ ~Free(events, Done \cup Abort)
                      \/ computing
                      \/ ~Free(toBoard, Asking(ChunkType))

SyncInv ==
    /\ WaitsInv /\ DataFirst /\ ComputingRuns /\ Sync /\ restarts \in Nat
    /\ \E a, b \in 1 .. 255 : Good(comp, a, b) /\ AlignedLinks(a, b) /\ LastInv(a, b)

LEMMA DataKinds ==
    /\ \A m \in Reports \cup KeyEvents : m \in Events /\ m \notin DataEvents(ChunkType)
    /\ \A m \in DataEvents(ChunkType) : m \in Events /\ m \notin Signals
    /\ N!Simple("OK") \in Reports /\ N!Simple("VERSION") \in Reports /\ N!Simple("STARTUP") \in Reports
    /\ N!Simple("DONE") \in Reports /\ N!Simple("ABORT") \in Reports
    /\ NextChunkEvent \in KeyEvents /\ \A k \in Keys : Key(k) \in KeyEvents
    /\ Done \subseteq Signals /\ Abort \subseteq Signals
    /\ N!Simple("DONE") \notin Abort /\ N!Simple("ABORT") \notin Done
    /\ NextChunkEvent \notin Done \cup Abort
<1>1. \A m \in Reports \cup KeyEvents : m \in Events /\ m.type # "COMPUTE_DATA"
  BY DEF Events, Reports, KeyEvents, N!Simple, Key, NextChunkEvent
<1>2. \A m \in DataEvents(ChunkType) : m \in Events /\ m.type = "COMPUTE_DATA"
  BY DEF DataEvents, Events
<1>3. \A m \in DataEvents(ChunkType) : m \notin Signals
  BY <1>2, SignalKinds
<1>4. N!Simple("DONE").type = "DONE" /\ N!Simple("ABORT").type = "ABORT" /\ NextChunkEvent.type = "key"
  BY DEF N!Simple, NextChunkEvent
<1>5. /\ N!Simple("OK") \in Reports /\ N!Simple("VERSION") \in Reports /\ N!Simple("STARTUP") \in Reports
      /\ N!Simple("DONE") \in Reports /\ N!Simple("ABORT") \in Reports
      /\ NextChunkEvent \in KeyEvents /\ \A k \in Keys : Key(k) \in KeyEvents
  BY DEF Reports, KeyEvents
<1>6. Done \subseteq Signals /\ Abort \subseteq Signals
  BY DEF Done, Abort, Signals
<1>7. /\ N!Simple("DONE") \notin Abort /\ N!Simple("ABORT") \notin Done
      /\ NextChunkEvent \notin Done \cup Abort
  BY <1>4 DEF Done, Abort
<1> QED
  BY <1>1, <1>2, <1>3, <1>5, <1>6, <1>7

LEMMA RunsKept ==
    ASSUME TypeInv, ComputingRuns, [Next]_vars
    PROVE  ComputingRuns'
<1>1. PICK a, b \in 1 .. 255 : Good(comp, a, b)
  BY DEF TypeInv, Sized
<1>2. comp \in CompRecord
  BY <1>1, GoodMeans
<1>3. CASE HandleSet \/ HandleCpu \/ HandleAbort \/ HandleReset \/ HandleBoardAbort
  BY <1>2, <1>3, Flags DEF HandleSet, HandleCpu, HandleAbort, HandleReset, HandleBoardAbort, ComputingRuns
<1>4. CASE HandleStart
  BY <1>1, <1>4, AdvancedFields DEF HandleStart, ComputingRuns
<1>5. CASE HandleData
  <2>1. comp' = comp \/ comp' = C!Updated(comp, Computed(Head(events)))
    BY <1>5 DEF HandleData
  <2>2. comp' = comp \/ ~comp'.computing
    BY <1>1, <2>1, UpdatedFields
  <2> QED
    BY <2>2 DEF ComputingRuns
<1>6. CASE HandleResize
  <2>1. events \in Seq(Events) /\ events # <<>> /\ Head(events) \in Resizes
    <3>1. events # <<>> /\ Head(events) \in Events /\ events \in Seq(Events)
          /\ Head(events).type = "key" /\ Head(events).key = "resize"
      BY <1>6 DEF HandleResize, PopsKey, Pops, TypeInv, LinkType
    <3> QED
      BY <3>1, SignalKinds
  <2>2. comp.w + Step <= MaxWidth
    BY <2>1, Popped DEF TypeInv, OneResize
  <2> QED
    BY <1>1, <1>6, <2>2, ResizedFields DEF HandleResize, ComputingRuns
<1>7. CASE HandleClear \/ HandleVersion \/ HandleStartup \/ HandleReport \/ HandleDone
  BY <1>7 DEF HandleClear, HandleVersion, HandleStartup, HandleReport, HandleDone, hostVars, ComputingRuns
<1>8. CASE Board \/ PressButton \/ RestartBoard \/ (\E k \in Keys : Press(k)) \/ UNCHANGED vars
  BY <1>8 DEF Board, PressButton, RestartBoard, Press, hostVars, vars, ComputingRuns
<1> QED
  BY <1>3, <1>4, <1>5, <1>6, <1>7, <1>8 DEF Next, Main, HandleKey, HandleMessage

LEMMA DataFirstKept ==
    ASSUME TypeInv, OneToken, DataFirst, [Next]_vars
    PROVE  DataFirst'
<1> DEFINE D == DataEvents(ChunkType)
<1>0. events \in Seq(Events) /\ Precede(events, D, Signals) /\ BoardType
  BY DEF TypeInv, LinkType, DataFirst
<1> SUFFICES Precede(events', D, Signals)
  BY DEF DataFirst
<1> HIDE DEF D
<1>1. ASSUME events # <<>>, events' = Tail(events) PROVE Precede(events', D, Signals)
  BY <1>0, <1>1, PoppedMore
<1>2. ASSUME NEW s \in Seq(Events), NEW m \in Reports \cup KeyEvents, Precede(s, D, Signals)
      PROVE  Append(s, m) \in Seq(Events) /\ Precede(Append(s, m), D, Signals)
  BY <1>2, DataKinds, PushedMore DEF D
<1>3. CASE MinorHandling \/ HandleStart \/ HandleBoardAbort \/ HandleAbort
  BY <1>1, <1>3 DEF MinorHandling, HandleStart, HandleBoardAbort, HandleAbort, PopsKey, Pops
<1>4. CASE HandleDone
  <2>1. Tail(events) \in Seq(Events) /\ Precede(Tail(events), D, Signals)
    BY <1>0, <1>4, PoppedMore, Popped DEF HandleDone
  <2> QED
    BY <1>2, <1>4, <2>1, DataKinds DEF HandleDone
<1>5. CASE N!ComputePixel
  <2>1. N!Data(chunk, i, j, params) \in D
    BY <1>0, MessageTypes DEF BoardType, D
  <2>2. events' = Append(events, N!Data(chunk, i, j, params)) /\ computing
    BY <1>5 DEF N!ComputePixel, N!Send
  <2>3. Free(events, Signals)
    BY <2>2 DEF OneToken
  <2> HIDE DEF N!Data
  <2> QED
    BY <1>0, <2>1, <2>2, <2>3, DataKinds, PushedMore DEF D
<1>6. CASE N!Check \/ N!ReceiveGetVersion \/ N!ReceiveSetCompute \/ N!ReceiveCompute \/ N!ChunkDone
  BY <1>0, <1>2, <1>6, DataKinds
     DEF N!Check, N!ReceiveGetVersion, N!ReceiveSetCompute, N!ReceiveCompute, N!ChunkDone, N!Send
<1>7. CASE N!ReceiveAbort
  <2> DEFINE s == Append(events, N!Simple("OK"))
  <2>1. events' = Append(s, N!Simple("ABORT"))
    BY <1>0, <1>7, DataKinds, TwoAtOnce DEF N!ReceiveAbort
  <2>2. s \in Seq(Events) /\ Precede(s, D, Signals)
    BY <1>0, <1>2, DataKinds
  <2> HIDE DEF s
  <2> QED
    BY <1>2, <2>1, <2>2, DataKinds
<1>8. CASE RestartBoard
  BY <1>0, <1>2, <1>8, DataKinds DEF RestartBoard, N!Restart, N!Send
<1>9. CASE PressButton \/ UNCHANGED vars
  BY <1>0, <1>9 DEF PressButton, N!Button, vars
<1>10. ASSUME NEW k \in Keys, Press(k) PROVE Precede(events', D, Signals)
  BY <1>0, <1>2, <1>10, DataKinds DEF Press
<1> QED
  BY <1>3, <1>4, <1>5, <1>6, <1>7, <1>8, <1>9, <1>10, MainStep DEF Next, Board, N!Work, N!Receive

\* A step that takes away no signal, no data and no request for a chunk,
\* brings no data, no end of a chunk and no request, and leaves the chunk of
\* the board alone.
EventsKept ==
    /\ \A S \in SUBSET (DataEvents(ChunkType) \cup Signals) : ~Free(events, S) => ~Free(events', S)
    /\ \A S, T \in SUBSET DataEvents(ChunkType) : Heralded(events, S, T) => Heralded(events', S, T)
    /\ Free(events, DataEvents(ChunkType) \cup Done) => Free(events', DataEvents(ChunkType) \cup Done)
AskingKept ==
    /\ \A S \in SUBSET Asking(ChunkType) : ~Free(toBoard, S) => ~Free(toBoard', S)
    /\ Free(toBoard, Asking(ChunkType)) => Free(toBoard', Asking(ChunkType))

Calm ==
    \/ HandleSet \/ HandleCpu \/ HandleAbort \/ HandleReset \/ HandleClear \/ HandleVersion
    \/ HandleResize \/ HandleStartup \/ HandleReport
    \/ /\ N!ReceiveGetVersion \/ N!ReceiveSetCompute \/ (N!Check /\ ~(abort_request /\ computing))
       /\ UNCHANGED hostVars
    \/ PressButton \/ (\E k \in Keys : Press(k)) \/ UNCHANGED vars
Busy ==
    /\ \/ N!Check /\ abort_request /\ computing
       \/ N!ReceiveAbort \/ N!ReceiveCompute \/ N!ComputePixel \/ N!ChunkDone
    /\ UNCHANGED hostVars

LEMMA StepKinds ==
    ASSUME [Next]_vars, MaxRestarts = 0, restarts \in Nat
    PROVE  /\ Calm \/ HandleStart \/ HandleData \/ HandleDone \/ HandleBoardAbort \/ Busy
           /\ restarts' \in Nat
<1>1. ~RestartBoard
  <2>1. ~(restarts < 0)
    BY SMT
  <2> QED
    BY <2>1 DEF RestartBoard
<1>2. Calm \/ HandleStart \/ HandleData \/ HandleDone \/ HandleBoardAbort \/ Busy
  BY <1>1 DEF Next, Main, HandleKey, HandleMessage, Board, N!Work, N!Receive, Calm, Busy
<1>3. restarts' = restarts
  BY <1>1 DEF Next, Main, HandleKey, HandleMessage, Board, PressButton, Press, HandleSet, HandleStart,
     HandleCpu, HandleAbort, HandleReset, HandleClear, HandleVersion, HandleResize, HandleStartup,
     HandleReport, HandleData, HandleDone, HandleBoardAbort, Unmoved, budget, vars
<1> QED
  BY <1>2, <1>3

LEMMA CalmKeeps ==
    ASSUME TypeInv, Calm
    PROVE  EventsKept /\ AskingKept /\ UNCHANGED <<computing, chunk, pixel, i, j>>
<1> DEFINE D == DataEvents(ChunkType) \cup Signals
           X == DataEvents(ChunkType)
           Y == DataEvents(ChunkType) \cup Done
           A == Asking(ChunkType)
           G == UNCHANGED <<computing, chunk, pixel, i, j>>
<1>0. events \in Seq(Events) /\ toBoard \in Seq(Requests) /\ comp.w \in Nat /\ comp.h \in Nat
  BY GoodMeans DEF TypeInv, LinkType, Sized, CompRecord
<1>0a. /\ EventsKept <=> (/\ \A S \in SUBSET D : ~Free(events, S) => ~Free(events', S)
                          /\ \A S, T \in SUBSET X : Heralded(events, S, T) => Heralded(events', S, T)
                          /\ Free(events, Y) => Free(events', Y))
       /\ AskingKept <=> (/\ \A S \in SUBSET A : ~Free(toBoard, S) => ~Free(toBoard', S)
                          /\ Free(toBoard, A) => Free(toBoard', A))
       /\ X \subseteq D /\ X \subseteq Y
  BY DEF EventsKept, AskingKept
<1>0b. \A m \in Reports \cup KeyEvents : m \in Events /\ m \notin X
  BY DataKinds
<1> HIDE DEF D, X, Y, A
<1>1. ASSUME events # <<>>, events' = Tail(events), Head(events) \notin D PROVE EventsKept
  <2>1. \A S \in SUBSET D : ~Free(events, S) => ~Free(events', S)
    BY <1>0, <1>1, PoppedMore
  <2>2. \A S, T \in SUBSET X : Heralded(events, S, T) => Heralded(events', S, T)
    BY <1>0, <1>0a, <1>1, PoppedMore
  <2>3. Free(events, Y) => Free(events', Y)
    BY <1>0, <1>1, Popped
  <2> QED
    BY <1>0a, <2>1, <2>2, <2>3
<1>2. ASSUME NEW m \in Events, m \notin Y, events' = Append(events, m) PROVE EventsKept
  <2>1. \A S \in SUBSET D : ~Free(events, S) => ~Free(events', S)
    BY <1>0, <1>2, PushedMore
  <2>2. \A S, T \in SUBSET X : Heralded(events, S, T) => Heralded(events', S, T)
    BY <1>0, <1>0a, <1>2, PushedMore
  <2>3. Free(events, Y) => Free(events', Y)
    BY <1>0, <1>2, Pushed
  <2> QED
    BY <1>0a, <2>1, <2>2, <2>3
<1>3. events' = events => EventsKept
  BY <1>0a
<1>4. ASSUME toBoard # <<>>, toBoard' = Tail(toBoard), Head(toBoard) \notin A PROVE AskingKept
  <2>1. \A S \in SUBSET A : ~Free(toBoard, S) => ~Free(toBoard', S)
    BY <1>0, <1>4, PoppedMore
  <2>2. Free(toBoard, A) => Free(toBoard', A)
    BY <1>0, <1>4, Popped
  <2> QED
    BY <1>0a, <2>1, <2>2
<1>5. ASSUME NEW m \in Requests, m \notin A, toBoard' = Append(toBoard, m) PROVE AskingKept
  <2>1. \A S \in SUBSET A : ~Free(toBoard, S) => ~Free(toBoard', S)
    BY <1>0, <1>5, PushedMore
  <2>2. Free(toBoard, A) => Free(toBoard', A)
    BY <1>0, <1>5, Pushed
  <2> QED
    BY <1>0a, <2>1, <2>2
<1>6. toBoard' = toBoard => AskingKept
  BY <1>0a
<1>7. UNCHANGED boardVars => G
  BY DEF boardVars
<1>8. ASSUME NEW k, PopsKey(k), k # "start" PROVE EventsKept
  <2>1. events # <<>> /\ events' = Tail(events) /\ Head(events) \notin Signals /\ Head(events).type = "key"
    BY <1>8, Handled
  <2>2. Head(events) \notin DataEvents(ChunkType)
    BY <2>1 DEF DataEvents
  <2> QED
    BY <1>1, <2>1, <2>2 DEF D
<1>9. ASSUME NEW t \in {"STARTUP", "OK", "VERSION"}, Pops(t) PROVE EventsKept
  <2>1. events # <<>> /\ events' = Tail(events) /\ Head(events).type = t /\ Head(events) \in Events
    BY <1>9, Handled
  <2>2. Head(events) \notin DataEvents(ChunkType)
    BY <2>1 DEF DataEvents
  <2> QED
    BY <1>1, <2>1, <2>2, SignalKinds DEF D
<1>10. /\ N!Simple("GET_VERSION") \in Requests \ A /\ N!Simple("ABORT") \in Requests \ A
       /\ [type |-> "SET_COMPUTE", params |-> <<comp.w, comp.h>>] \in Requests \ A
  <2>1. [type |-> "SET_COMPUTE", params |-> <<comp.w, comp.h>>] \in Others /\ N!Simple("GET_VERSION") \in Others
    BY <1>0 DEF ParamType, Others
  <2> QED
    BY <2>1, AskKinds DEF A
<1>10a. N!Simple("OK") \in Events \ Y /\ N!Simple("VERSION") \in Events \ Y
        /\ \A k \in Keys : Key(k) \in Events \ Y
  <2>1. N!Simple("OK").type = "OK" /\ N!Simple("VERSION").type = "VERSION"
        /\ N!Simple("DONE").type = "DONE" /\ \A k \in Keys : Key(k).type = "key"
    BY DEF N!Simple, Key
  <2> QED
    BY <1>0b, <2>1, DataKinds DEF Y, X, Done
<1> SUFFICES EventsKept /\ AskingKept /\ G
  OBVIOUS
<1> HIDE DEF G
<1>11. CASE HandleSet
  BY <1>5, <1>6, <1>7, <1>8, <1>10, <1>11 DEF HandleSet, ToBoard, Unmoved
<1>12. CASE HandleCpu \/ HandleReset \/ HandleClear \/ HandleResize
  BY <1>6, <1>7, <1>8, <1>12 DEF HandleCpu, HandleReset, HandleClear, HandleResize, Unmoved
<1>13. CASE HandleAbort
  BY <1>5, <1>6, <1>7, <1>8, <1>10, <1>13 DEF HandleAbort, ToBoard, Unmoved
<1>14. CASE HandleVersion
  BY <1>5, <1>7, <1>8, <1>10, <1>14 DEF HandleVersion, ToBoard, Unmoved
<1>15. CASE HandleStartup \/ HandleReport
  BY <1>6, <1>7, <1>9, <1>15 DEF HandleStartup, HandleReport, Unmoved
<1>16. ASSUME NEW t, N!Receives(t), t # "COMPUTE" PROVE AskingKept
  <2>1. toBoard # <<>> /\ toBoard' = Tail(toBoard) /\ Head(toBoard).type = t
    BY <1>16 DEF N!Receives
  <2>2. Head(toBoard) \notin A
    BY <1>16, <2>1 DEF Asking, A
  <2> QED
    BY <1>4, <2>1, <2>2
<1>17. CASE N!ReceiveGetVersion
  BY <1>2, <1>10a, <1>16, <1>17 DEF N!ReceiveGetVersion, N!Send, G
<1>18. CASE N!ReceiveSetCompute
  BY <1>2, <1>10a, <1>16, <1>18 DEF N!ReceiveSetCompute, N!Send, G
<1>19. CASE N!Check /\ ~(abort_request /\ computing)
  BY <1>3, <1>6, <1>19 DEF N!Check, G
<1>20. CASE PressButton
  BY <1>3, <1>6, <1>20 DEF PressButton, N!Button, G
<1>21. ASSUME NEW k \in Keys, Press(k) PROVE EventsKept /\ AskingKept /\ G
  BY <1>2, <1>6, <1>7, <1>10a, <1>21 DEF Press
<1>22. CASE UNCHANGED vars
  BY <1>3, <1>6, <1>7, <1>22 DEF vars
<1> QED
  BY <1>11, <1>12, <1>13, <1>14, <1>15, <1>17, <1>18, <1>19, <1>20, <1>21, <1>22 DEF Calm

\* What such a step does to the computation.
LEMMA CalmComp ==
    ASSUME TypeInv, Calm
    PROVE  /\ comp'.computing => comp.computing
           /\ comp'.cid = comp.cid \/ comp'.cid = 0
           /\ comp'.done => comp.done
           /\ data_computing' => data_computing
<1>1. PICK a, b \in 1 .. 255 : Good(comp, a, b)
  BY DEF TypeInv, Sized
<1>2. comp \in CompRecord
  BY <1>1, GoodMeans
<1>3. CASE HandleSet \/ HandleCpu \/ HandleAbort \/ HandleReset
  BY <1>2, <1>3, Flags DEF HandleSet, HandleCpu, HandleAbort, HandleReset
<1>4. CASE HandleResize
  <2>1. events \in Seq(Events) /\ events # <<>> /\ Head(events) \in Resizes
    <3>1. events # <<>> /\ Head(events) \in Events /\ events \in Seq(Events)
          /\ Head(events).type = "key" /\ Head(events).key = "resize"
      BY <1>4 DEF HandleResize, PopsKey, Pops, TypeInv, LinkType
    <3> QED
      BY <3>1, SignalKinds
  <2>2. comp.w + Step <= MaxWidth
    BY <2>1, Popped DEF TypeInv, OneResize
  <2> QED
    BY <1>1, <1>4, <2>2, ResizedFields DEF HandleResize
<1>5. CASE ~(HandleSet \/ HandleCpu \/ HandleAbort \/ HandleReset \/ HandleResize)
  BY <1>5 DEF Calm, HandleClear, HandleVersion, HandleStartup, HandleReport, PressButton, Press,
     hostVars, vars
<1> QED
  BY <1>3, <1>4, <1>5

\* When the signal is handled, nothing of a chunk is on the way.
LEMMA SignalTurn ==
    ASSUME TypeInv, OneToken, DataFirst, events # <<>>, Head(events) \in Signals
    PROVE  /\ Free(toBoard, Asks) /\ ~computing /\ Tail(events) \in Seq(Events)
           /\ Free(events, DataEvents(ChunkType)) /\ Free(Tail(events), DataEvents(ChunkType))
           /\ Free(Tail(events), Signals)
<1>1. events \in Seq(Events)
  BY DEF TypeInv, LinkType
<1>2. ~Free(events, Signals)
  BY <1>1, Popped
<1> QED
  BY <1>1, <1>2, Popped, PoppedMore DEF OneToken, DataFirst

LEMMA FreeSubset ==
    ASSUME NEW s, NEW S, NEW T, S \subseteq T
    PROVE  Free(s, T) => Free(s, S)
BY DEF Free

LEMMA StartTurn ==
    ASSUME TypeInv, OneToken, DataFirst, HandleStart
    PROVE  /\ \A a, b : ~Awaited(a, b)
           /\ ~computing /\ Free(toBoard, Asks) /\ Free(events', Signals)
           /\ Free(events', DataEvents(ChunkType))
           /\ Free(events, Done) /\ Free(events, Abort) /\ \A c : Free(toBoard, Asked(c))
<1>1. /\ events # <<>> /\ Head(events) \in Signals /\ events' = Tail(events) /\ Head(events).type = "key"
      /\ events \in Seq(Events)
  BY StartStep, Handled DEF HandleStart, TypeInv, LinkType
<1>2. Free(toBoard, Asks) /\ ~computing /\ Free(Tail(events), Signals)
      /\ Free(Tail(events), DataEvents(ChunkType))
  BY <1>1, SignalTurn
<1>3. Head(events) \notin Done /\ Head(events) \notin Abort
  <2>1. N!Simple("DONE").type = "DONE" /\ N!Simple("ABORT").type = "ABORT"
    BY DEF N!Simple
  <2> QED
    BY <1>1, <2>1 DEF Done, Abort
<1>4. Free(Tail(events), Done) /\ Free(Tail(events), Abort)
  BY <1>2, DataKinds, FreeSubset
<1>5. Free(events, Done) /\ Free(events, Abort)
  BY <1>1, <1>3, <1>4, Popped
<1>6. \A c : Asked(c) \subseteq Asks
  BY AskKinds DEF Asked
<1>7. \A c : Free(toBoard, Asked(c))
  BY <1>2, <1>6, FreeSubset
<1> QED
  BY <1>1, <1>2, <1>5, <1>7 DEF Awaited

\* Data are handled: the image may be done.
LEMMA DataTurn ==
    ASSUME TypeInv, NEW a, NEW b, Good(comp, a, b), AlignedLinks(a, b), HandleData
    PROVE  /\ events # <<>> /\ events' = Tail(events) /\ toBoard' = toBoard
           /\ Head(events) \in GoodData(a, b) /\ Head(events) \notin Signals
           /\ UNCHANGED <<computing, chunk, pixel, i, j, data_computing>>
           /\ comp'.cid = comp.cid
           /\ \/ comp' = comp
              \/ ~comp'.computing /\ Head(events) \in LastData(comp.cid, a, b) /\ ~(comp.cid + 1 < N2)
           /\ Head(events) \in LastData(comp.cid, a, b) /\ ~(comp.cid + 1 < N2) /\ ~comp.abort
                => ~comp'.computing
<1> DEFINE m == Head(events)
           d == Computed(m)
           B == DataEvents(ChunkType) \ GoodData(a, b)
<1>1. events # <<>> /\ events' = Tail(events) /\ m \in Events /\ m.type = "COMPUTE_DATA"
      /\ events \in Seq(Events)
  BY Handled DEF HandleData, TypeInv, LinkType
<1>2. m \in DataEvents(ChunkType) /\ m \notin Signals
  BY <1>1, EventKinds, DataKinds
<1>3. m \in GoodData(a, b)
  <2>1. Free(events, B)
    BY DEF AlignedLinks
  <2> HIDE DEF B
  <2>2. m \notin B
    BY <1>1, <2>1, Popped
  <2> QED
    BY <1>2, <2>2 DEF B
<1>4. d.cid = m.chunk.cid /\ d.i_re = m.i_re /\ d.i_im = m.i_im
  BY DEF Computed
<1>4a. EndsImage(comp, d, a, b) <=> m.chunk.cid = comp.cid /\ ~(comp.cid + 1 < N2)
                                   /\ m.i_re + 1 = a /\ m.i_im + 1 = b
  BY <1>4 DEF EndsImage
<1>5. (comp.abort /\ comp' = comp) \/ (~comp.abort /\ comp' = C!Updated(comp, d))
  BY DEF HandleData
<1> HIDE DEF d
<1>6. /\ C!Updated(comp, d).cid = comp.cid
      /\ EndsImage(comp, d, a, b) => ~C!Updated(comp, d).computing
      /\ ~EndsImage(comp, d, a, b) => C!Updated(comp, d) = comp
  BY UpdatedFields
<1>7. m \in LastData(comp.cid, a, b) /\ ~(comp.cid + 1 < N2) <=> EndsImage(comp, d, a, b)
  BY <1>2, <1>4a DEF LastData
<1>8. toBoard' = toBoard /\ UNCHANGED <<computing, chunk, pixel, i, j, data_computing>>
  BY DEF HandleData, Unmoved, boardVars
<1> QED
  BY <1>1, <1>2, <1>3, <1>5, <1>6, <1>7, <1>8

\* The last pixel of a chunk is in its last column and its last row.
LEMMA LastPosition ==
    ASSUME NEW a \in Nat \ {0}, NEW b \in Nat \ {0}, NEW x \in Nat, NEW y \in Nat, x < a,
           y * a + x + 1 = a * b
    PROVE  x + 1 = a /\ y + 1 = b
<1>1. y < b
  <2> SUFFICES ASSUME b <= y PROVE FALSE
    BY SMT
  <2>1. y = b + (y - b) /\ y - b \in Nat
    BY SMT
  <2> DEFINE d == y - b
  <2>2. y * a = b * a + d * a /\ d * a \in Nat /\ b * a = a * b /\ a * b \in Nat
    <3>1. d \in Nat /\ y = b + d
      BY <2>1
    <3> HIDE DEF d
    <3>2. (b + d) * a = b * a + d * a /\ d * a \in Nat /\ b * a = a * b /\ a * b \in Nat
      BY <3>1, SMT
    <3> QED
      BY <3>1, <3>2
  <2> DEFINE p == y * a
             q == d * a
             r == a * b
  <2>3. p = r + q /\ q \in Nat /\ r \in Nat /\ p + x + 1 = r
    BY <2>2
  <2> HIDE DEF p, q, r
  <2> QED
    BY <2>3, SMT
<1>2. y + 1 = b
  <2> SUFFICES ASSUME y + 1 # b PROVE FALSE
    OBVIOUS
  <2> DEFINE d == b - (y + 2)
  <2>1. d \in Nat /\ b = y + 2 + d
    BY <1>1, SMT
  <2> HIDE DEF d
  <2>2. a * (y + 2 + d) = y * a + 2 * a + d * a /\ d * a \in Nat /\ y * a \in Nat
    BY <2>1, SMT
  <2> DEFINE p == y * a
             q == d * a
  <2>3. p + x + 1 = p + 2 * a + q /\ p \in Nat /\ q \in Nat
    BY <2>1, <2>2
  <2> HIDE DEF p, q
  <2> QED
    BY <2>3, SMT
<1>3. y * a + a = a * b /\ y * a \in Nat
  <2>1. a * (y + 1) = y * a + a /\ y * a \in Nat
    BY SMT
  <2> QED
    BY <1>2, <2>1
<1> DEFINE p == y * a
<1>4. p + x + 1 = p + a /\ p \in Nat
  BY <1>3
<1> HIDE DEF p
<1> QED
  BY <1>2, <1>4, SMT

LEMMA LastKept ==
    ASSUME TypeInv, OneToken, DataFirst, ComputingRuns, NEW a, NEW b, Good(comp, a, b),
           AlignedLinks(a, b), LastInv(a, b), [Next]_vars, ~HandleResize,
           MaxRestarts = 0, restarts \in Nat
    PROVE  LastInv(a, b)'
<1> DEFINE L == LastData(comp.cid, a, b)
           A == Asked(comp.cid)
<1>0. /\ events \in Seq(Events) /\ toBoard \in Seq(Requests) /\ BoardType
      /\ a \in Nat \ {0} /\ b \in Nat \ {0} /\ N2 \in Nat /\ comp.cid \in Nat
      /\ comp.computing => comp.cid < N2
  BY GoodMeans DEF TypeInv, LinkType, CompRecord
<1>1. L \subseteq DataEvents(ChunkType) /\ A \subseteq Asking(ChunkType)
      /\ Done \subseteq Signals /\ Abort \subseteq Signals
  BY DataKinds DEF LastData, Asked
<1> SUFFICES ASSUME comp'.computing, ~(comp'.cid + 1 < N2) PROVE Awaited(a, b)'
  BY DEF LastInv, N2
<1>2. ASSUME comp'.cid = comp.cid, Awaited(a, b), EventsKept, AskingKept,
             UNCHANGED <<computing, chunk, pixel>>
      PROVE  Awaited(a, b)'
  <2>1. /\ ~Free(toBoard, A) => ~Free(toBoard', A)
        /\ ~Free(events, L) => ~Free(events', L)
        /\ ~Free(events, Done) => ~Free(events', Done)
        /\ ~Free(events, Abort) => ~Free(events', Abort)
    BY <1>1, <1>2 DEF EventsKept, AskingKept
  <2> QED
    BY <1>2, <2>1 DEF Awaited
<1>3. CASE Calm
  <2>1. comp.computing /\ (comp'.cid = comp.cid \/ comp'.cid = 0)
    BY <1>3, CalmComp
  <2>2. comp'.cid = comp.cid
    <3>1. CASE comp'.cid = 0
      BY <1>0, <2>1, <3>1, SMT
    <3> QED
      BY <2>1, <3>1
  <2>3. Awaited(a, b)
    BY <2>1, <2>2 DEF LastInv
  <2> QED
    BY <1>2, <1>3, <2>2, <2>3, CalmKeeps
<1>4. CASE HandleStart
  <2>1. PICK m \in Asking(ChunkType) : toBoard' = Append(toBoard, m) /\ m.chunk = C!Request(comp')
    BY <1>4, StartStep
  <2>2. m \in Asked(comp'.cid) /\ m \in Requests
    BY <2>1 DEF Asked, C!Request, Requests
  <2>3. ~Free(toBoard', Asked(comp'.cid))
    BY <1>0, <2>1, <2>2, PushedMore
  <2> QED
    BY <2>3 DEF Awaited
<1>5. CASE HandleData
  <2>1. /\ events # <<>> /\ events' = Tail(events) /\ toBoard' = toBoard
        /\ Head(events) \notin Signals /\ UNCHANGED <<computing, chunk, pixel>>
        /\ comp' = comp
        /\ Head(events) \in L /\ ~(comp.cid + 1 < N2) /\ ~comp.abort => ~comp'.computing
    BY <1>5, DataTurn
  <2>2. Awaited(a, b) /\ Head(events) \notin L
    BY <2>1 DEF LastInv, ComputingRuns
  <2>3. Head(events) \notin Done /\ Head(events) \notin Abort
    BY <1>1, <2>1
  <2> HIDE DEF L, A
  <2>4. /\ ~Free(events, L) => ~Free(events', L)
        /\ ~Free(events, Done) => ~Free(events', Done)
        /\ ~Free(events, Abort) => ~Free(events', Abort)
    BY <1>0, <2>1, <2>2, <2>3, PoppedMore
  <2> QED
    BY <2>1, <2>2, <2>4 DEF Awaited, L, A
<1>6. CASE HandleDone
  <2>1. events # <<>> /\ Head(events) \in Signals /\ Head(events) \in Done /\ comp' = comp
    <3>1. events # <<>> /\ Head(events) \in Events /\ Head(events).type = "DONE" /\ comp' = comp
      BY <1>0, <1>6 DEF HandleDone
    <3> QED
      BY <1>1, <3>1, EventKinds DEF Done
  <2>2. /\ Free(toBoard, Asks) /\ ~computing /\ Free(events, DataEvents(ChunkType))
        /\ Free(Tail(events), Signals)
    BY <2>1, SignalTurn
  <2>3. Free(events, L) /\ Free(toBoard, A) /\ Free(Tail(events), Abort)
    BY <1>1, <2>2, AskKinds DEF Free
  <2>4. Head(events) \notin Abort
    BY <2>1, DataKinds DEF Done
  <2>5. Free(events, Abort)
    BY <1>0, <2>1, <2>3, <2>4, Popped
  <2> QED
    BY <2>1, <2>2, <2>3, <2>5 DEF Awaited, LastInv
<1>7. CASE HandleBoardAbort
  BY <1>7, Flags, GoodMeans DEF HandleBoardAbort
<1>8. CASE Busy
  <2>0. comp' = comp /\ Awaited(a, b)
    BY <1>8 DEF Busy, hostVars, LastInv
  <2>1. ASSUME NEW m \in Events, NEW S, events' = Append(events, m)
        PROVE  (~Free(events, S) => ~Free(events', S)) /\ (m \in S => ~Free(events', S))
    BY <1>0, <2>1, PushedMore
  <2>2. N!Simple("ABORT") \in Events /\ N!Simple("DONE") \in Events /\ N!Simple("OK") \in Events
        /\ N!Simple("ABORT") \in Abort /\ N!Simple("DONE") \in Done
    BY MessageTypes DEF Abort, Done
  <2>3. CASE N!Check /\ abort_request /\ computing
    <3>1. ~Free(events', Abort)
      BY <2>1, <2>2, <2>3 DEF N!Check, N!Send
    <3> QED
      BY <3>1 DEF Awaited
  <2>4. CASE N!ReceiveAbort
    <3> DEFINE s == Append(events, N!Simple("OK"))
    <3>1. events' = Append(s, N!Simple("ABORT")) /\ s \in Seq(Events)
      BY <1>0, <2>2, <2>4, TwoAtOnce DEF N!ReceiveAbort
    <3> HIDE DEF s
    <3>2. ~Free(events', Abort)
      BY <2>2, <3>1, PushedMore
    <3> QED
      BY <3>2 DEF Awaited
  <2>5. CASE N!ReceiveCompute
    <3>1. /\ toBoard # <<>> /\ Head(toBoard) \in Asking(ChunkType) /\ toBoard' = Tail(toBoard)
          /\ events' = Append(events, N!Simple("OK")) /\ computing'
      BY <1>0, <2>5, RequestKinds DEF N!ReceiveCompute, N!Receives, N!Send
    <3>2. Head(toBoard) \in Asks /\ ~Free(toBoard, Asks) /\ Free(Tail(toBoard), Asks)
      BY <1>0, <3>1, AskKinds, Popped DEF OneToken
    <3>3. ~computing /\ Free(events, Signals)
      BY <3>2 DEF OneToken
    <3>4. Free(events, Done) /\ Free(events, Abort)
      BY <1>1, <3>3, FreeSubset
    <3>5. ~Free(toBoard, A)
      BY <2>0, <3>3, <3>4 DEF Awaited
    <3>6. Free(Tail(toBoard), A)
      BY <1>1, <3>2, AskKinds, FreeSubset
    <3> HIDE DEF A
    <3>7. Head(toBoard) \in A
      BY <1>0, <3>1, <3>5, <3>6, Popped
    <3>8. chunk' = Head(toBoard).chunk /\ pixel' = 0
      BY <2>5, <3>3 DEF N!ReceiveCompute
    <3>9. pixel' # a * b
      <4>1. a * b # 0
        BY <1>0, SMT
      <4> QED
        BY <3>8, <4>1
    <3> QED
      BY <2>0, <3>1, <3>7, <3>8, <3>9 DEF Awaited, Asked, A
  <2>6. CASE N!ComputePixel
    <3>1. computing /\ chunk \in GoodChunks(a, b) /\ pixel = j * a + i /\ i < a
          /\ i \in Nat /\ j \in Nat /\ chunk \in ChunkType /\ params \in ParamType
      BY <1>0, <2>6 DEF N!ComputePixel, AlignedLinks, BoardType
    <3> DEFINE m == N!Data(chunk, i, j, params)
    <3>2. /\ m \in DataEvents(ChunkType) /\ m \in Events
          /\ m.chunk = chunk /\ m.i_re = i /\ m.i_im = j
      BY <3>1, MessageTypes DEF N!Data, Events
    <3>3. events' = Append(events, m) /\ chunk' = chunk /\ pixel' = pixel + 1 /\ computing'
      BY <2>6, <3>1 DEF N!ComputePixel, N!Send
    <3>4. ~Free(toBoard, Asks) => FALSE
      BY <3>1 DEF OneToken
    <3>5. Free(events, Signals)
      BY <3>1 DEF OneToken
    <3>6. Free(toBoard, A) /\ Free(events, Done) /\ Free(events, Abort)
      BY <1>1, <3>4, <3>5, AskKinds, FreeSubset
    <3>7. chunk.cid = comp.cid
      BY <2>0, <3>6 DEF Awaited
    <3>8. pixel' = a * b => m \in L
      <4> SUFFICES ASSUME pixel' = a * b PROVE i + 1 = a /\ j + 1 = b
        BY <3>2, <3>7 DEF LastData
      <4>1. j * a + i + 1 = a * b
        BY <3>1, <3>3
      <4> QED
        BY <1>0, <3>1, <4>1, LastPosition
    <3> HIDE DEF m, L
    <3>9. pixel' = a * b => ~Free(events', L)
      BY <2>1, <3>2, <3>3, <3>8
    <3> QED
      BY <2>0, <3>3, <3>7, <3>9 DEF Awaited, L
  <2>7. CASE N!ChunkDone
    <3>1. computing /\ chunk \in GoodChunks(a, b) /\ pixel <= a * b /\ pixel \in Nat
          /\ chunk.n_re * chunk.n_im <= pixel
      BY <1>0, <2>7 DEF N!ChunkDone, AlignedLinks, BoardType
    <3>2. pixel = a * b
      <4>1. a * b <= pixel /\ a * b \in Nat
        <5>1. a * b \in Nat
          BY <1>0, SMT
        <5> QED
          BY <3>1, <5>1 DEF GoodChunks
      <4> QED
        BY <3>1, <4>1
    <3>3. Free(toBoard, A) /\ Free(events, Done) /\ Free(events, Abort)
      BY <1>1, <3>1, AskKinds, FreeSubset DEF OneToken
    <3>4. ~Free(events, L)
      BY <2>0, <3>2, <3>3 DEF Awaited
    <3>5. events' = Append(events, N!Simple("DONE"))
      BY <2>7 DEF N!ChunkDone, N!Send
    <3>6. ~Free(events', L) /\ ~Free(events', Done)
      BY <2>1, <2>2, <3>4, <3>5
    <3> QED
      BY <2>0, <3>6 DEF Awaited
  <2> QED
    BY <1>8, <2>3, <2>4, <2>5, <2>6, <2>7 DEF Busy
<1> QED
  BY <1>3, <1>4, <1>5, <1>6, <1>7, <1>8, StepKinds

LEMMA SyncKept ==
    ASSUME TypeInv, OneToken, DataFirst, Sync, NEW a, NEW b, Good(comp, a, b),
           AlignedLinks(a, b), LastInv(a, b), [Next]_vars, MaxRestarts = 0, restarts \in Nat
    PROVE  Sync'
<1> DEFINE E == Done \cup Abort
           A == Asking(ChunkType)
<1>0. events \in Seq(Events) /\ toBoard \in Seq(Requests) /\ E \subseteq Signals
  BY DataKinds DEF TypeInv, LinkType
<1> SUFFICES ASSUME data_computing' PROVE ~Free(events', E) \/ computing' \/ ~Free(toBoard', A)
  BY DEF Sync
<1>1. data_computing => ~Free(events, E) \/ computing \/ ~Free(toBoard, A)
  BY DEF Sync
<1>2. CASE Calm
  <2>1. data_computing /\ computing' = computing
    BY <1>2, CalmKeeps, CalmComp
  <2>2. (~Free(events, E) => ~Free(events', E)) /\ (~Free(toBoard, A) => ~Free(toBoard', A))
    BY <1>0, <1>2, CalmKeeps DEF EventsKept, AskingKept
  <2> QED
    BY <1>1, <2>1, <2>2
<1>3. CASE HandleStart
  <2>1. comp'.computing
    <3> DEFINE e == C!Advanced(C!Enabled(comp))
    <3>1. comp' = e
      BY <1>3 DEF HandleStart
    <3>2. ~comp.computing \/ comp.cid + 1 < N2
      BY <1>3, StartTurn DEF LastInv
    <3> QED
      BY <3>1, <3>2, AdvancedFields
  <2>2. PICK m \in A : toBoard' = Append(toBoard, m)
    BY <1>3, <2>1, StartStep
  <2>3. m \in Requests
    BY DEF Requests
  <2> HIDE DEF A
  <2> QED
    BY <1>0, <2>2, <2>3, PushedMore
<1>4. CASE HandleData
  <2>1. /\ events # <<>> /\ events' = Tail(events) /\ toBoard' = toBoard
        /\ Head(events) \notin Signals /\ computing' = computing /\ data_computing
    BY <1>4, DataTurn
  <2> HIDE DEF E
  <2>2. ~Free(events, E) => ~Free(events', E)
    BY <1>0, <2>1, PoppedMore
  <2> QED
    BY <1>1, <2>1, <2>2
<1>5. CASE HandleDone \/ HandleBoardAbort
  BY <1>5 DEF HandleDone, HandleBoardAbort
<1>6. CASE Busy
  <2>1. ASSUME NEW m \in Events, events' = Append(events, m), m \in E
        PROVE  ~Free(events', E)
    BY <1>0, <2>1, PushedMore
  <2>2. N!Simple("ABORT") \in Events /\ N!Simple("DONE") \in Events /\ N!Simple("OK") \in Events
        /\ N!Simple("ABORT") \in E /\ N!Simple("DONE") \in E
    BY MessageTypes DEF Abort, Done
  <2> HIDE DEF E
  <2>3. CASE N!Check /\ abort_request /\ computing
    BY <2>1, <2>2, <2>3 DEF N!Check, N!Send
  <2>4. CASE N!ReceiveAbort
    <3> DEFINE s == Append(events, N!Simple("OK"))
    <3>1. events' = Append(s, N!Simple("ABORT")) /\ s \in Seq(Events)
      BY <1>0, <2>2, <2>4, TwoAtOnce DEF N!ReceiveAbort
    <3> HIDE DEF s
    <3> QED
      BY <2>2, <3>1, PushedMore
  <2>5. CASE N!ReceiveCompute \/ N!ComputePixel
    <3>1. computing \in BOOLEAN /\ (computing' = TRUE \/ (computing /\ computing' = computing))
      BY <2>5 DEF N!ReceiveCompute, N!ComputePixel, TypeInv, BoardType
    <3> QED
      BY <3>1
  <2>6. CASE N!ChunkDone
    BY <2>1, <2>2, <2>6 DEF N!ChunkDone, N!Send
  <2> QED
    BY <1>6, <2>3, <2>4, <2>5, <2>6 DEF Busy
<1> QED
  BY <1>2, <1>3, <1>4, <1>5, <1>6, StepKinds

\* With a new size nothing of the old image is on the way.
LEMMA ResizeTurn ==
    ASSUME "resize" \notin Hasty, TypeInv, Patient, HandleResize
    PROVE  /\ events # <<>> /\ events' = Tail(events) /\ events' \in Seq(Idlers)
           /\ toBoard = <<>> /\ toBoard' = <<>> /\ ~computing /\ ~computing'
           /\ \E a, b \in 1 .. 255 : Good(comp', a, b) /\ AlignedLinks(a, b)'
           /\ comp'.cid = 0 /\ comp'.computing = comp.computing
<1>1. events # <<>> /\ Head(events) \in PatientKeys /\ events' = Tail(events)
  BY Handled DEF HandleResize
<1>2. Tail(events) \in Seq(Idlers) /\ toBoard = <<>> /\ ~computing
  BY <1>1, PatientTurn
<1>3. toBoard' = <<>> /\ ~computing'
  BY <1>2 DEF HandleResize, Unmoved, boardVars
<1>4. [Next]_vars
  BY DEF Next, Main, HandleKey
<1>5. PICK a, b \in 1 .. 255 : Good(comp', a, b)
  BY <1>4, NextTyped DEF TypeInv, Sized
<1>6. Free(events', DataEvents(ChunkType) \ GoodData(a, b))
  <2>1. \A m \in Idlers : m \notin DataEvents(ChunkType)
    BY DEF Idlers, Key, N!Simple, DataEvents
  <2> QED
    BY <1>1, <1>2, <2>1, IdleFree
<1>7. AlignedLinks(a, b)'
  BY <1>3, <1>6 DEF AlignedLinks, Free
<1>8. comp'.cid = 0 /\ comp'.computing = comp.computing
  <2>1. PICK c, d \in 1 .. 255 : Good(comp, c, d)
    BY DEF TypeInv, Sized
  <2>2. events \in Seq(Events) /\ events # <<>> /\ Head(events) \in Resizes
    <3>1. events # <<>> /\ Head(events) \in Events /\ events \in Seq(Events)
          /\ Head(events).type = "key" /\ Head(events).key = "resize"
      BY DEF HandleResize, PopsKey, Pops, TypeInv, LinkType
    <3> QED
      BY <3>1, SignalKinds
  <2>3. comp.w + Step <= MaxWidth
    BY <2>2, Popped DEF TypeInv, OneResize
  <2> QED
    BY <2>1, <2>3, ResizedFields DEF HandleResize
<1> QED
  BY <1>1, <1>2, <1>3, <1>5, <1>7, <1>8

LEMMA SyncInit == Init => SyncInv
<1> SUFFICES ASSUME Init PROVE SyncInv
  OBVIOUS
<1>1. PICK a, b \in 1 .. 255 : Good(comp, a, b)
  BY InitIsGood
<1>2. /\ events = <<N!Simple("STARTUP")>> /\ toBoard = <<>> /\ computing = FALSE
      /\ data_computing = FALSE /\ restarts = 0 /\ comp = C!CompInit
  BY DEF Init, C!Init, N!BoardInit
<1>3. N!Simple("STARTUP") \notin DataEvents(ChunkType)
  BY DataKinds
<1>4. AlignedLinks(a, b)
  BY <1>2, <1>3 DEF AlignedLinks, Free
<1>5. ComputingRuns /\ LastInv(a, b)
  BY <1>2 DEF C!CompInit, ComputingRuns, LastInv
<1>6. DataFirst
  BY <1>2, <1>3 DEF DataFirst, Precede
<1>7. WaitsInv
  BY InitTyped, PatientInit, WaitsInit DEF WaitsInv
<1> QED
  BY <1>1, <1>2, <1>4, <1>5, <1>6, <1>7 DEF SyncInv, Sync

LEMMA SyncNext ==
    ASSUME "start" \notin Hasty, "abort" \notin Hasty, "resize" \notin Hasty, MaxRestarts = 0
    PROVE  SyncInv /\ [Next]_vars => SyncInv'
<1> SUFFICES ASSUME SyncInv, [Next]_vars PROVE SyncInv'
  OBVIOUS
<1>1. PICK a, b \in 1 .. 255 : Good(comp, a, b) /\ AlignedLinks(a, b) /\ LastInv(a, b)
  BY DEF SyncInv
<1>2. TypeInv /\ Patient /\ OneToken /\ DataFirst /\ ComputingRuns /\ Sync /\ restarts \in Nat
  BY DEF SyncInv, WaitsInv
<1>3. WaitsInv' /\ DataFirst' /\ ComputingRuns' /\ Sync' /\ restarts' \in Nat
  BY <1>1, <1>2, WaitsNext, DataFirstKept, RunsKept, SyncKept, StepKinds DEF SyncInv
<1>4. CASE ~HandleResize
  <2>1. Good(comp', a, b) /\ AlignedLinks(a, b)' /\ LastInv(a, b)'
    BY <1>1, <1>2, <1>4, CompStep, AlignedLinksKept, LastKept
  <2> QED
    BY <1>3, <2>1 DEF SyncInv
<1>5. CASE HandleResize
  <2>1. PICK a2, b2 \in 1 .. 255 : Good(comp', a2, b2) /\ AlignedLinks(a2, b2)'
    BY <1>2, <1>5, ResizeTurn
  <2>2. LastInv(a2, b2)'
    <3> SUFFICES ASSUME comp'.computing, ~(comp'.cid + 1 < N2) PROVE FALSE
      BY DEF LastInv, N2
    <3>1. comp'.cid = 0 /\ comp.computing /\ toBoard = <<>> /\ ~computing
      BY <1>2, <1>5, ResizeTurn
    <3>2. comp.cid \in Nat /\ comp.cid < N2 /\ N2 \in Nat
      BY <1>1, <3>1, GoodMeans DEF CompRecord
    <3>3. ~(comp.cid + 1 < N2)
      BY <3>1, <3>2, SMT
    <3>4. Awaited(a, b)
      BY <1>1, <3>1, <3>3 DEF LastInv
    <3>5. events \in Seq(Events) /\ events # <<>> /\ Head(events) \notin Signals
          /\ Tail(events) \in Seq(Idlers)
      <4>1. events # <<>> /\ events' = Tail(events) /\ events' \in Seq(Idlers)
        BY <1>2, <1>5, ResizeTurn
      <4>2. Head(events) \notin Signals
        BY <1>2, <1>5, Handled DEF HandleResize
      <4> QED
        BY <1>2, <4>1, <4>2 DEF TypeInv, LinkType
    <3>6. Free(Tail(events), Signals)
      BY <3>5, NoSignal, IdleFree
    <3>7. Free(events, Signals)
      BY <3>5, <3>6, Popped
    <3>8. Free(events, Done) /\ Free(events, Abort)
      BY <3>7, DataKinds, FreeSubset
    <3>9. Free(toBoard, Asked(comp.cid))
      BY <3>1 DEF Free
    <3> QED
      BY <3>1, <3>4, <3>8, <3>9 DEF Awaited
  <2> QED
    BY <1>3, <2>1, <2>2 DEF SyncInv
<1> QED
  BY <1>4, <1>5

\* InSync of SemSystem: if the keys that start, stop or resize wait until all
\* is quiet and the board is not reset, the host never goes on believing that
\* it is computing when nobody is, whatever the other keys and the button do.
THEOREM HostIsInSync ==
    ASSUME "start" \notin Hasty, "abort" \notin Hasty, "resize" \notin Hasty, MaxRestarts = 0
    PROVE  Spec => []InSync
<1>1. SyncInv => InSync
  BY DEF SyncInv, Sync, InSync, Quiet, Free
<1> QED
  BY <1>1, SyncInit, SyncNext, PTL DEF Spec

-----------------------------------------------------------------------------
(* An abort at any moment.                                                 *)

\* What leads to the next request for a chunk, and what does without the user.
Wishes == {Key("start"), NextChunkEvent, N!Simple("DONE")}
Going == {NextChunkEvent, N!Simple("DONE")}

\* If the user waits with start, a chunk is wished for, asked of the board or
\* computed there, and never two of these at once, whatever is aborted.
OneChunk ==
    /\ Unique(events, Wishes) /\ Unique(toBoard, Asking(ChunkType))
    /\ Free(events, Wishes) \/ (Free(toBoard, Asking(ChunkType)) /\ ~computing)
    /\ computing => Free(toBoard, Asking(ChunkType))

\* Nothing comes behind an abort: no request behind the MSG_ABORT to the
\* board, and no chunk at all when the board reports one.
AbortLast ==
    /\ Precede(toBoard, Asking(ChunkType), Abort)
    /\ \/ Free(events, Abort)
       \/ Free(events, Wishes) /\ Free(toBoard, Asking(ChunkType)) /\ ~computing

\* After an accepted abort main is not led to another request, and what the
\* board has been asked for a MSG_ABORT follows.
Stopping ==
    stopped => /\ Free(events, Going)
               /\ computing \/ ~Free(toBoard, Asking(ChunkType)) => ~Free(toBoard, Abort)

AbortInv == TypeInv /\ Patient /\ OneChunk /\ AbortLast /\ Stopping

LEMMA WishKinds ==
    /\ N!Simple("DONE") \in Wishes /\ NextChunkEvent \in Wishes /\ Key("start") \in Wishes
    /\ N!Simple("DONE") \in Going /\ NextChunkEvent \in Going /\ Going \subseteq Wishes
    /\ Key("start") \notin Going
    /\ \A m \in Events \ Signals : m \notin Wishes /\ m \notin Going /\ m \notin Abort
    /\ N!Simple("ABORT") \in Abort /\ N!Simple("ABORT") \notin Wishes
    /\ N!Simple("ABORT") \notin Going
    /\ NextChunkEvent \notin Abort /\ N!Simple("DONE") \notin Abort /\ Key("start") \notin Abort
    /\ Wishes = {Key("start")} \cup Going
<1>1. /\ N!Simple("ABORT").type = "ABORT" /\ N!Simple("DONE").type = "DONE"
      /\ NextChunkEvent.type = "key" /\ Key("start").type = "key"
      /\ NextChunkEvent.byUser = FALSE /\ Key("start").byUser = TRUE
  BY DEF N!Simple, NextChunkEvent, Key
<1>2. Wishes \subseteq Signals /\ Going \subseteq Signals /\ Abort \subseteq Signals
  BY DEF Wishes, Going, Abort, Signals
<1>3. Key("start") \notin Going
  BY <1>1 DEF Going
<1>4. N!Simple("ABORT") \notin Wishes /\ N!Simple("ABORT") \notin Going
  BY <1>1 DEF Wishes, Going
<1>5. NextChunkEvent \notin Abort /\ N!Simple("DONE") \notin Abort /\ Key("start") \notin Abort
  BY <1>1 DEF Abort
<1>6. \A m \in Events \ Signals : m \notin Wishes /\ m \notin Going /\ m \notin Abort
  BY <1>2
<1>7. /\ N!Simple("DONE") \in Wishes /\ NextChunkEvent \in Wishes /\ Key("start") \in Wishes
      /\ N!Simple("DONE") \in Going /\ NextChunkEvent \in Going /\ Going \subseteq Wishes
      /\ N!Simple("ABORT") \in Abort /\ Wishes = {Key("start")} \cup Going
  BY DEF Wishes, Going, Abort
<1> QED
  BY <1>3, <1>4, <1>5, <1>6, <1>7

\* Uncrossed, in the terms of this section.
LEMMA UncrossedIs ==
    ASSUME TypeInv, Uncrossed
    PROVE  Free(toBoard, Abort) \/ Free(events, Going)
<1>1. events \in Seq(Events) /\ toBoard \in Seq(Requests)
  BY DEF TypeInv, LinkType
<1>2. N!Simple("ABORT").type = "ABORT" /\ N!Simple("DONE").type = "DONE"
  BY DEF N!Simple
<1>3. CASE \A n \in DOMAIN toBoard : toBoard[n].type # "ABORT"
  BY <1>2, <1>3 DEF Free, Abort
<1>4. CASE \A n \in DOMAIN events : events[n].type # "DONE" /\ events[n] # NextChunkEvent
  BY <1>2, <1>4 DEF Free, Going
<1> QED
  BY <1>3, <1>4 DEF Uncrossed

\* A start of the user that waits is alone with the idle events.
LEMMA StartAlone ==
    ASSUME "start" \notin Hasty, "start" \in Keys, TypeInv, Patient, toBoard # <<>> \/ computing
    PROVE  Free(events, {Key("start")})
<1>1. Free(events, PatientKeys) /\ Key("start") \in PatientKeys
  BY KeyKinds DEF Patient
<1> QED
  BY <1>1 DEF Free

\* What a reset of the board leaves of the requests.
LEMMA DroppedMore ==
    ASSUME NEW E, NEW S, NEW T, NEW s \in Seq(E), NEW k \in 0 .. Len(s), Precede(s, S, T)
    PROVE  LET r == SubSeq(s, k + 1, Len(s))
           IN  /\ Precede(r, S, T)
               /\ Free(s, S) \/ ~Free(s, T) => Free(r, S) \/ ~Free(r, T)
<1> DEFINE r == SubSeq(s, k + 1, Len(s))
<1>1. /\ r \in Seq(E) /\ k \in Nat
      /\ \A n \in DOMAIN r : n + k \in DOMAIN s /\ r[n] = s[n + k]
      /\ \A m \in DOMAIN s : k < m => m - k \in DOMAIN r /\ r[m - k] = s[m]
  BY Dropped, SMT
<1> HIDE DEF r
<1>2. /\ \A n \in DOMAIN r : n \in Nat \ {0}
      /\ \A n \in DOMAIN s : n \in Nat \ {0}
  BY <1>1, LenProperties
<1>3. Precede(r, S, T)
  <2> SUFFICES ASSUME NEW m \in DOMAIN r, NEW n \in DOMAIN r, r[m] \in T, r[n] \in S
               PROVE  n < m
    BY DEF Precede
  <2>1. n + k < m + k
    BY <1>1 DEF Precede
  <2> QED
    BY <1>1, <1>2, <2>1, SMT
<1>4. ASSUME ~Free(s, T), ~Free(r, S) PROVE ~Free(r, T)
  <2>1. PICK m \in DOMAIN s : s[m] \in T
    BY <1>4 DEF Free
  <2>2. PICK n \in DOMAIN r : r[n] \in S
    BY <1>4 DEF Free
  <2>3. n + k < m
    BY <1>1, <2>1, <2>2 DEF Precede
  <2>4. k < m
    BY <1>1, <1>2, <2>1, <2>2, <2>3, SMT
  <2> QED
    BY <1>1, <2>1, <2>4 DEF Free
<1>5. Free(s, S) => Free(r, S)
  BY <1>1 DEF Free
<1> QED
  BY <1>3, <1>4, <1>5 DEF r

LEMMA AbortInit == Init => AbortInv
<1> SUFFICES ASSUME Init PROVE AbortInv
  OBVIOUS
<1>1. /\ events = <<N!Simple("STARTUP")>> /\ toBoard = <<>> /\ ~computing /\ stopped = FALSE
      /\ N!Simple("STARTUP") \in Events \ Signals
  BY NoSignal DEF Init, N!BoardInit
<1>2. N!Simple("STARTUP") \notin Wishes /\ N!Simple("STARTUP") \notin Abort
  BY <1>1, WishKinds
<1>3. OneChunk /\ AbortLast /\ Stopping
  BY <1>1, <1>2 DEF OneChunk, AbortLast, Stopping, Unique, Free, Precede
<1> QED
  BY <1>3, InitTyped, PatientInit DEF AbortInv

\* What a step that neither begins nor ends a chunk, and aborts none, leaves of
\* the links.
EventsSame ==
    /\ Unique(events', Wishes)
    /\ Free(events, Wishes) => Free(events', Wishes)
    /\ Free(events, Going) => Free(events', Going)
    /\ Free(events, Abort) => Free(events', Abort)
RequestsSame ==
    /\ Unique(toBoard', Asking(ChunkType))
    /\ Free(toBoard, Asking(ChunkType)) => Free(toBoard', Asking(ChunkType))
    /\ ~Free(toBoard, Abort) => ~Free(toBoard', Abort)
    /\ Precede(toBoard', Asking(ChunkType), Abort)

LEMMA SameKeeps ==
    ASSUME OneChunk, AbortLast, Stopping, EventsSame, RequestsSame, UNCHANGED <<computing, stopped>>
    PROVE  OneChunk' /\ AbortLast' /\ Stopping'
<1> DEFINE A == Asking(ChunkType)
<1>1. OneChunk'
  BY DEF OneChunk, EventsSame, RequestsSame
<1>2. AbortLast'
  BY DEF AbortLast, EventsSame, RequestsSame
<1>3. Stopping'
  BY DEF Stopping, EventsSame, RequestsSame
<1> QED
  BY <1>1, <1>2, <1>3

LEMMA SameEvents ==
    ASSUME TypeInv, OneChunk,
           \/ events' = events
           \/ events # <<>> /\ events' = Tail(events)
           \/ \E m \in Events \ Signals : events' = Append(events, m)
    PROVE  EventsSame
<1>1. events \in Seq(Events) /\ Unique(events, Wishes)
  BY DEF TypeInv, LinkType, OneChunk
<1>2. CASE events' = events
  BY <1>1, <1>2 DEF EventsSame
<1>3. CASE events # <<>> /\ events' = Tail(events)
  BY <1>1, <1>3, Popped DEF EventsSame
<1>4. ASSUME NEW m \in Events \ Signals, events' = Append(events, m) PROVE EventsSame
  <2>1. m \notin Wishes /\ m \notin Going /\ m \notin Abort
    BY WishKinds
  <2> QED
    BY <1>1, <1>4, <2>1, Pushed DEF EventsSame
<1> QED
  BY <1>2, <1>3, <1>4

LEMMA SameRequests ==
    ASSUME TypeInv, OneChunk, AbortLast,
           \/ toBoard' = toBoard
           \/ \E m \in Others : toBoard' = Append(toBoard, m)
           \/ toBoard # <<>> /\ Head(toBoard) \notin Asks /\ toBoard' = Tail(toBoard)
    PROVE  RequestsSame
<1> DEFINE A == Asking(ChunkType)
<1>1. toBoard \in Seq(Requests) /\ Unique(toBoard, A) /\ Precede(toBoard, A, Abort)
  BY DEF TypeInv, LinkType, OneChunk, AbortLast
<1>2. CASE toBoard' = toBoard
  BY <1>1, <1>2 DEF RequestsSame
<1>3. ASSUME NEW m \in Others, toBoard' = Append(toBoard, m) PROVE RequestsSame
  <2>1. m \in Requests /\ m \notin A
    BY AskKinds
  <2> HIDE DEF A
  <2>2. Unique(toBoard', A) /\ (Free(toBoard, A) => Free(toBoard', A))
    BY <1>1, <1>3, <2>1, Pushed
  <2>3. Precede(toBoard', A, Abort) /\ (~Free(toBoard, Abort) => ~Free(toBoard', Abort))
    BY <1>1, <1>3, <2>1, PushedMore
  <2> QED
    BY <2>2, <2>3 DEF RequestsSame, A
<1>4. CASE toBoard # <<>> /\ Head(toBoard) \notin Asks /\ toBoard' = Tail(toBoard)
  <2>1. Head(toBoard) \notin Abort
    BY <1>4, AskKinds DEF Abort
  <2> HIDE DEF A
  <2>2. Unique(toBoard', A) /\ (Free(toBoard, A) => Free(toBoard', A))
    BY <1>1, <1>4, Popped
  <2>3. Precede(toBoard', A, Abort) /\ (~Free(toBoard, Abort) => ~Free(toBoard', Abort))
    BY <1>1, <1>4, <2>1, PoppedMore
  <2> QED
    BY <2>2, <2>3 DEF RequestsSame, A
<1> QED
  BY <1>2, <1>3, <1>4

\* The events that begin, end or abort a chunk, when main handles them.
LEMMA AbortMain ==
    ASSUME "start" \notin Hasty, AbortInv, Uncrossed, TypeInv', Uncrossed', Main
    PROVE  OneChunk' /\ AbortLast' /\ Stopping'
<1> DEFINE A == Asking(ChunkType)
<1>0. /\ TypeInv /\ Patient /\ OneChunk /\ AbortLast /\ Stopping
      /\ events \in Seq(Events) /\ toBoard \in Seq(Requests)
      /\ Unique(events, Wishes) /\ Unique(toBoard, A) /\ Precede(toBoard, A, Abort)
  BY DEF AbortInv, TypeInv, LinkType, OneChunk, AbortLast
<1>a. Free(toBoard, Abort) \/ Free(events, Going)
  BY <1>0, UncrossedIs
<1>b. Free(toBoard', Abort) \/ Free(events', Going)
  <2>1. TypeInv' /\ Uncrossed' => (Free(toBoard, Abort) \/ Free(events, Going))'
    BY UncrossedIs, PTL
  <2> QED
    BY <2>1
<1>c. ASSUME events # <<>>, Head(events) \in Wishes
      PROVE  /\ Free(toBoard, A) /\ ~computing /\ Free(events, Abort)
             /\ Tail(events) \in Seq(Events) /\ Free(Tail(events), Wishes)
             /\ Free(Tail(events), Going) /\ Free(Tail(events), Abort)
  <2>1. ~Free(events, Wishes) /\ Free(Tail(events), Wishes) /\ Tail(events) \in Seq(Events)
    BY <1>0, <1>c, Popped
  <2>2. Free(toBoard, A) /\ ~computing /\ Free(events, Abort)
    BY <1>0, <2>1 DEF OneChunk, AbortLast
  <2>3. Free(Tail(events), Abort)
    BY <1>0, <1>c, <2>2, Popped
  <2> QED
    BY <2>1, <2>2, <2>3, WishKinds, FreeSubset
<1>1. CASE MinorHandling
  BY <1>0, <1>1, SameKeeps, SameEvents, SameRequests DEF MinorHandling, boardVars
<1>2. CASE HandleStart
  <2>1. /\ events # <<>> /\ Head(events) \in Events /\ events' = Tail(events)
        /\ Head(events).type = "key" /\ Head(events).key = "start" /\ computing' = computing
    BY <1>0, <1>2, Handled, StartStep DEF HandleStart
  <2>2. /\ Head(events).byUser => Head(events) = Key("start") /\ "start" \in Keys
        /\ ~Head(events).byUser => Head(events) = NextChunkEvent
    BY <2>1, EventKinds
  <2>3. Head(events) \in Wishes
    BY <2>2, WishKinds
  <2>4. /\ Free(toBoard, A) /\ ~computing' /\ Free(events', Wishes)
        /\ Free(events', Going) /\ Free(events', Abort)
    BY <1>c, <2>1, <2>3
  <2>5. Free(toBoard, Abort)
    <3>1. CASE Head(events).byUser
      <4>1. Head(events) \in PatientKeys
        BY <2>2, <3>1, KeyKinds
      <4>2. toBoard = <<>>
        BY <1>0, <2>1, <4>1, PatientTurn
      <4> QED
        BY <4>2 DEF Free
    <3>2. CASE ~Head(events).byUser
      <4>1. Head(events) \in Going
        BY <2>2, <3>2, WishKinds
      <4>2. ~Free(events, Going)
        BY <1>0, <2>1, <4>1, Popped
      <4> QED
        BY <1>a, <4>2
    <3> QED
      BY <3>1, <3>2
  <2>6. Unique(toBoard', A) /\ Precede(toBoard', A, Abort)
    <3>1. CASE toBoard' = toBoard
      BY <1>0, <3>1
    <3>2. ASSUME NEW m \in A, toBoard' = Append(toBoard, m)
          PROVE  Unique(toBoard', A) /\ Precede(toBoard', A, Abort)
      <4>1. m \in Requests /\ m \notin Abort
        BY AskKinds DEF Requests, Abort
      <4> HIDE DEF A
      <4>2. Unique(toBoard', A)
        BY <1>0, <2>4, <3>2, <4>1, Pushed
      <4>3. Precede(toBoard', A, Abort)
        BY <1>0, <2>5, <3>2, <4>1, PushedMore
      <4> QED
        BY <4>2, <4>3
    <3> QED
      BY <1>0, <1>2, <3>1, <3>2, StartStep
  <2>7. ~stopped'
    <3> SUFFICES ASSUME stopped' PROVE FALSE
      OBVIOUS
    <3>1. stopped /\ ~Head(events).byUser
      BY <1>2 DEF HandleStart
    <3>2. Free(events, Going) /\ Head(events) \in Going
      BY <1>0, <2>2, <3>1, WishKinds DEF Stopping
    <3> QED
      BY <1>0, <2>1, <3>2, Popped
  <2>8. Unique(events', Wishes)
    BY <2>4 DEF Unique, Free
  <2> QED
    BY <2>4, <2>6, <2>7, <2>8 DEF OneChunk, AbortLast, Stopping
<1>3. CASE HandleDone
  <2>1. events # <<>> /\ Head(events) \in Events /\ Head(events).type = "DONE"
    BY <1>0, <1>3, Popped DEF HandleDone
  <2>2. Head(events) \in Going /\ Head(events) \in Wishes
    BY <2>1, EventKinds, WishKinds
  <2>3. /\ Free(toBoard, A) /\ ~computing /\ Tail(events) \in Seq(Events)
        /\ Free(Tail(events), Wishes) /\ Free(Tail(events), Abort)
    BY <1>c, <2>1, <2>2
  <2>4. Unique(Tail(events), Wishes)
    BY <2>3 DEF Unique, Free
  <2>5. Unique(events', Wishes) /\ Free(events', Abort)
    <3>1. CASE events' = Tail(events)
      BY <2>3, <2>4, <3>1
    <3>2. CASE events' = Append(Tail(events), NextChunkEvent)
      BY <2>3, <2>4, <3>2, NoSignal, WishKinds, Pushed
    <3> QED
      BY <1>3, <3>1, <3>2 DEF HandleDone
  <2>6. toBoard' = toBoard /\ computing' = computing /\ stopped' = stopped
    BY <1>3 DEF HandleDone, Unmoved, boardVars
  <2>7. ~stopped
    <3>1. ~Free(events, Going)
      BY <1>0, <2>1, <2>2, Popped
    <3> QED
      BY <1>0, <3>1 DEF Stopping
  <2> QED
    BY <1>0, <2>3, <2>5, <2>6, <2>7 DEF OneChunk, AbortLast, Stopping
<1>4. CASE HandleBoardAbort
  <2>1. /\ events # <<>> /\ Head(events) \in Events /\ Head(events).type = "ABORT"
        /\ events' = Tail(events) /\ toBoard' = toBoard /\ computing' = computing
    BY <1>0, <1>4, Handled DEF HandleBoardAbort, Unmoved, boardVars
  <2>2. Head(events) \in Abort
    BY <2>1, EventKinds, WishKinds
  <2>3. ~Free(events, Abort)
    BY <1>0, <2>1, <2>2, Popped
  <2>4. Free(events, Wishes) /\ Free(toBoard, A) /\ ~computing
    BY <1>0, <2>3 DEF AbortLast
  <2>5. Free(events', Wishes) /\ Unique(events', Wishes)
    BY <1>0, <2>1, <2>4, Popped
  <2>6. Free(events', Going)
    BY <2>5, WishKinds, FreeSubset
  <2> QED
    BY <1>0, <2>1, <2>4, <2>5, <2>6 DEF OneChunk, AbortLast, Stopping
<1>5. CASE HandleAbort
  <2>1. events # <<>> /\ events' = Tail(events) /\ computing' = computing
    BY <1>0, <1>5, Handled DEF HandleAbort, Unmoved, boardVars
  <2>2. EventsSame
    BY <1>0, <2>1, SameEvents
  <2>3. CASE ~data_computing
    <3>1. toBoard' = toBoard /\ stopped' = stopped
      BY <1>5, <2>3 DEF HandleAbort
    <3> QED
      BY <1>0, <2>1, <2>2, <3>1, SameKeeps, SameRequests
  <2>4. CASE data_computing
    <3>1. toBoard' = Append(toBoard, N!Simple("ABORT"))
      BY <1>5, <2>4 DEF HandleAbort, ToBoard
    <3>2. N!Simple("ABORT") \in Requests /\ N!Simple("ABORT") \notin A /\ N!Simple("ABORT") \in Abort
      BY AskKinds, WishKinds
    <3> HIDE DEF A
    <3>3. Unique(toBoard', A) /\ (Free(toBoard, A) => Free(toBoard', A))
      BY <1>0, <3>1, <3>2, Pushed
    <3>4. Precede(toBoard', A, Abort) /\ ~Free(toBoard', Abort)
      BY <1>0, <3>1, <3>2, PushedMore
    <3>5. Free(events', Going)
      BY <1>b, <3>4
    <3>6. OneChunk'
      BY <1>0, <2>1, <2>2, <3>3 DEF OneChunk, EventsSame, A
    <3>7. AbortLast'
      BY <1>0, <2>1, <2>2, <3>3, <3>4 DEF AbortLast, EventsSame, A
    <3>8. Stopping'
      BY <3>4, <3>5 DEF Stopping
    <3> QED
      BY <3>6, <3>7, <3>8
  <2> QED
    BY <2>3, <2>4
<1> QED
  BY <1>0, <1>1, <1>2, <1>3, <1>4, <1>5, MainStep

\* The steps of the board.
LEMMA AbortBoard ==
    ASSUME "start" \notin Hasty, AbortInv, Uncrossed, TypeInv', Uncrossed', Board
    PROVE  OneChunk' /\ AbortLast' /\ Stopping'
<1> DEFINE A == Asking(ChunkType)
<1>0. /\ TypeInv /\ Patient /\ OneChunk /\ AbortLast /\ Stopping
      /\ events \in Seq(Events) /\ toBoard \in Seq(Requests)
      /\ Unique(events, Wishes) /\ Unique(toBoard, A) /\ Precede(toBoard, A, Abort)
  BY DEF AbortInv, TypeInv, LinkType, OneChunk, AbortLast
<1>a. Free(toBoard, Abort) \/ Free(events, Going)
  BY <1>0, UncrossedIs
<1>b. Free(toBoard', Abort) \/ Free(events', Going)
  <2>1. TypeInv' /\ Uncrossed' => (Free(toBoard, Abort) \/ Free(events, Going))'
    BY UncrossedIs, PTL
  <2> QED
    BY <2>1
<1>1. CASE MinorReport
  BY <1>0, <1>1, SameKeeps, SameEvents, SameRequests DEF MinorReport, Events, hostVars
<1>2. CASE Silent
  BY <1>0, <1>2, SameKeeps, SameEvents, SameRequests DEF Silent, hostVars
<1>3. CASE EndReport
  <2>1. /\ computing /\ ~computing' /\ toBoard' = toBoard /\ stopped' = stopped
    BY <1>3 DEF EndReport, hostVars
  <2>2. Free(events, Wishes) /\ Free(events, Abort) /\ Free(toBoard, A)
    BY <1>0, <2>1 DEF OneChunk, AbortLast
  <2>3. Free(events, Going)
    BY <2>2, WishKinds, FreeSubset
  <2>4. CASE events' = Append(events, N!Simple("DONE"))
    <3>1. Unique(events', Wishes) /\ Free(events', Abort)
      BY <1>0, <2>2, <2>4, NoSignal, WishKinds, Pushed
    <3>2. stopped => Free(events', Going)
      BY <1>0, <1>b, <2>1 DEF Stopping
    <3> QED
      BY <1>0, <2>1, <2>2, <3>1, <3>2 DEF OneChunk, AbortLast, Stopping
  <2>5. CASE events' = Append(events, N!Simple("ABORT"))
    <3>1. Unique(events', Wishes) /\ Free(events', Wishes) /\ Free(events', Going)
      BY <1>0, <2>2, <2>3, <2>5, NoSignal, WishKinds, Pushed
    <3> QED
      BY <1>0, <2>1, <2>2, <3>1 DEF OneChunk, AbortLast, Stopping
  <2> QED
    BY <1>3, <2>4, <2>5 DEF EndReport
<1>4. CASE N!ReceiveAbort /\ UNCHANGED hostVars
  <2>1. /\ toBoard # <<>> /\ Head(toBoard) \in Requests /\ Head(toBoard).type = "ABORT"
        /\ toBoard' = Tail(toBoard) /\ computing' = FALSE /\ stopped' = stopped
    BY <1>0, <1>4 DEF N!ReceiveAbort, N!Receives, hostVars
  <2>2. Head(toBoard) \in Abort
    BY <2>1, RequestKinds, WishKinds
  <2> HIDE DEF A
  <2>3. Free(toBoard', A) /\ Unique(toBoard', A) /\ Precede(toBoard', A, Abort)
    BY <1>0, <2>1, <2>2, Popped, PoppedMore
  <2>4. ~Free(toBoard, Abort)
    BY <1>0, <2>1, <2>2, Popped
  <2>5. Free(events, Wishes) /\ Free(events, Going)
    <3>1. Free(events, Going)
      BY <1>a, <2>4
    <3>2. Free(events, {Key("start")})
      <4>1. CASE "start" \in Keys
        BY <1>0, <2>1, <4>1, StartAlone
      <4>2. CASE "start" \notin Keys
        <5>1. Key("start") \notin Events
          <6>1. Key("start").type = "key" /\ Key("start").byUser = TRUE /\ Key("start").key = "start"
            BY DEF Key
          <6> QED
            BY <4>2, <6>1, EventKinds
        <5> QED
          BY <1>0, <5>1, ElementOfSeq DEF Free
      <4> QED
        BY <4>1, <4>2
    <3> QED
      BY <3>1, <3>2, WishKinds DEF Free
  <2> DEFINE s == Append(events, N!Simple("OK"))
  <2>6. events' = Append(s, N!Simple("ABORT")) /\ s \in Seq(Events)
    BY <1>0, <1>4, NoSignal, TwoAtOnce DEF N!ReceiveAbort
  <2>7. Free(s, Wishes) /\ Free(s, Going) /\ Unique(s, Wishes)
    BY <1>0, <2>5, NoSignal, WishKinds, Pushed
  <2> HIDE DEF s
  <2>8. Free(events', Wishes) /\ Free(events', Going) /\ Unique(events', Wishes)
    BY <2>6, <2>7, NoSignal, WishKinds, Pushed
  <2> QED
    BY <2>1, <2>3, <2>8 DEF OneChunk, AbortLast, Stopping, A
<1>5. CASE N!ReceiveCompute /\ UNCHANGED hostVars
  <2>1. /\ toBoard # <<>> /\ Head(toBoard) \in A /\ toBoard' = Tail(toBoard) /\ stopped' = stopped
        /\ events' = Append(events, N!Simple("OK"))
    BY <1>0, <1>5, RequestKinds DEF N!ReceiveCompute, N!Receives, N!Send, hostVars
  <2>2. Head(toBoard) \notin Abort
    BY <2>1, AskKinds DEF Abort
  <2> HIDE DEF A
  <2>3. ~Free(toBoard, A) /\ Free(toBoard', A) /\ Unique(toBoard', A) /\ Precede(toBoard', A, Abort)
    BY <1>0, <2>1, Popped, PoppedMore
  <2>4. Free(events, Wishes) /\ Free(events, Abort)
    BY <1>0, <2>3 DEF OneChunk, AbortLast, A
  <2>5. ~Free(toBoard, Abort) => ~Free(toBoard', Abort)
    BY <1>0, <2>1, <2>2, PoppedMore
  <2>6. EventsSame
    BY <1>0, <2>1, NoSignal, SameEvents
  <2> QED
    BY <1>0, <2>1, <2>3, <2>4, <2>5, <2>6 DEF OneChunk, AbortLast, Stopping, EventsSame, A
<1> QED
  BY <1>0, <1>1, <1>2, <1>3, <1>4, <1>5, BoardStep

LEMMA AbortKept ==
    ASSUME "start" \notin Hasty, AbortInv, Uncrossed, Uncrossed', [Next]_vars
    PROVE  AbortInv'
<1> DEFINE A == Asking(ChunkType)
<1>0. /\ TypeInv /\ Patient /\ OneChunk /\ AbortLast /\ Stopping
      /\ events \in Seq(Events) /\ toBoard \in Seq(Requests)
      /\ Unique(events, Wishes) /\ Unique(toBoard, A) /\ Precede(toBoard, A, Abort)
  BY DEF AbortInv, TypeInv, LinkType, OneChunk, AbortLast
<1>a. TypeInv' /\ Patient'
  BY <1>0, NextTyped, PatientKept
<1> SUFFICES OneChunk' /\ AbortLast' /\ Stopping'
  BY <1>a DEF AbortInv
<1>1. CASE Main
  BY <1>1, <1>a, AbortMain
<1>2. CASE Board
  BY <1>2, <1>a, AbortBoard
<1>3. CASE PressButton \/ UNCHANGED vars
  <2>1. UNCHANGED <<events, toBoard, computing, stopped>>
    BY <1>3 DEF PressButton, N!Button, vars, boardVars, hostVars
  <2> QED
    BY <1>0, <2>1, SameKeeps, SameEvents, SameRequests
<1>4. CASE RestartBoard
  <2>1. /\ events' = Append(events, N!Simple("STARTUP")) /\ ~computing' /\ stopped' = stopped
    BY <1>4 DEF RestartBoard, N!Restart, N!Send, hostVars
  <2>2. PICK k \in 0 .. Len(toBoard) : toBoard' = SubSeq(toBoard, k + 1, Len(toBoard))
    BY <1>4 DEF RestartBoard, N!Restart
  <2> HIDE DEF A
  <2>3. Unique(toBoard', A) /\ (Free(toBoard, A) => Free(toBoard', A))
    BY <1>0, <2>2, Dropped
  <2>4. /\ Precede(toBoard', A, Abort)
        /\ Free(toBoard, A) \/ ~Free(toBoard, Abort) => Free(toBoard', A) \/ ~Free(toBoard', Abort)
    BY <1>0, <2>2, DroppedMore
  <2>5. EventsSame
    BY <1>0, <2>1, NoSignal, SameEvents
  <2>6. OneChunk'
    BY <1>0, <2>1, <2>3, <2>5 DEF OneChunk, EventsSame, A
  <2>7. AbortLast'
    BY <1>0, <2>1, <2>3, <2>4, <2>5 DEF AbortLast, EventsSame, A
  <2>8. Stopping'
    BY <1>0, <2>1, <2>4, <2>5 DEF Stopping, EventsSame, A
  <2> QED
    BY <2>6, <2>7, <2>8
<1>5. ASSUME NEW k \in Keys, Press(k) PROVE OneChunk' /\ AbortLast' /\ Stopping'
  <2>1. events' = Append(events, Key(k)) /\ UNCHANGED <<toBoard, computing, stopped>>
    BY <1>5 DEF Press, boardVars, hostVars
  <2>2. CASE k # "start"
    <3>1. Key(k) \in Events \ Signals
      BY <2>2, NoSignal
    <3> QED
      BY <1>0, <2>1, <3>1, SameKeeps, SameEvents, SameRequests
  <2>3. CASE k = "start"
    <3>1. events = <<>> /\ toBoard = <<>> /\ ~computing
      BY <1>5, <2>3 DEF Press, Quiet
    <3>2. events' = <<Key("start")>>
      BY <2>1, <2>3, <3>1
    <3>3. Unique(events', Wishes) /\ Free(events', Going) /\ Free(events', Abort)
      BY <3>2, WishKinds DEF Unique, Free
    <3>4. Free(toBoard', A) /\ ~computing'
      BY <2>1, <3>1 DEF Free
    <3> QED
      BY <1>0, <2>1, <3>3, <3>4 DEF OneChunk, AbortLast, Stopping
  <2> QED
    BY <2>2, <2>3
<1> QED
  BY <1>1, <1>2, <1>3, <1>4, <1>5 DEF Next

\* While the computation is stopped no chunk is sent.
LEMMA StoppedSendsNothing ==
    ASSUME AbortInv, [Next]_vars, SendsChunk
    PROVE  ~stopped'
<1>0. events \in Seq(Events) /\ toBoard \in Seq(Requests) /\ Len(toBoard) \in Nat /\ TypeInv
  BY DEF AbortInv, TypeInv, LinkType
<1>1. CASE HandleStart
  <2>1. Head(events) \in Events /\ Head(events).type = "key" /\ events # <<>>
    BY <1>0, <1>1, Handled DEF HandleStart
  <2> SUFFICES ASSUME stopped' PROVE FALSE
    OBVIOUS
  <2>2. stopped /\ ~Head(events).byUser
    BY <1>1 DEF HandleStart
  <2>3. Head(events) \in Going
    BY <2>1, <2>2, EventKinds, WishKinds
  <2> QED
    BY <1>0, <2>1, <2>2, <2>3, Popped DEF AbortInv, Stopping
<1>2. ASSUME NEW m \in Requests, m \notin Asking(ChunkType), toBoard' = Append(toBoard, m)
      PROVE  FALSE
  <2>1. Len(toBoard') = Len(toBoard) + 1 /\ toBoard'[Len(toBoard')] = m
    BY <1>0, <1>2, AppendProperties
  <2> QED
    BY <1>2, <2>1, RequestKinds DEF SendsChunk
<1>3. ASSUME toBoard # <<>>, toBoard' = Tail(toBoard) PROVE FALSE
  <2>1. Len(toBoard') = Len(toBoard) - 1
    BY <1>0, <1>3, HeadTailProperties
  <2> QED
    BY <1>0, <2>1, SMT DEF SendsChunk
<1>4. ASSUME toBoard' = toBoard PROVE FALSE
  BY <1>0, <1>4 DEF SendsChunk
<1>5. CASE MinorHandling
  BY <1>2, <1>4, <1>5, AskKinds DEF MinorHandling
<1>6. CASE HandleAbort
  BY <1>2, <1>4, <1>6, AskKinds DEF HandleAbort, ToBoard
<1>7. CASE RestartBoard
  <2>1. PICK n \in 0 .. Len(toBoard) : toBoard' = SubSeq(toBoard, n + 1, Len(toBoard))
    BY <1>7 DEF RestartBoard, N!Restart
  <2>2. Len(toBoard') <= Len(toBoard)
    BY <1>0, <2>1, SMT
  <2> QED
    BY <1>0, <2>2, SMT DEF SendsChunk
<1> QED
  BY <1>0, <1>1, <1>3, <1>4, <1>5, <1>6, <1>7, MainStep, BoardStep
     DEF Next, HandleDone, HandleBoardAbort, MinorReport, EndReport, Silent, PressButton, N!Button,
         N!ReceiveAbort, N!ReceiveCompute, N!Receives, Press, vars

\* AbortSticks of SemSystem: of all keys only 1 .. 5 have to wait until all is
\* quiet.  With 'a' pressed at any moment, whatever the other keys, the buttons
\* and the resets of the board do, no chunk is sent after an accepted abort
\* until the user starts again, unless the abort crosses the end of the chunk
\* that is computed: nothing else can undo it.
THEOREM AbortIsFinal ==
    ASSUME "start" \notin Hasty
    PROVE  Spec /\ []Uncrossed => AbortSticks
<1>1. AbortInv /\ [Next]_vars => [SendsChunk => ~stopped']_vars
  BY StoppedSendsNothing
<1>2. AbortInv /\ Uncrossed /\ Uncrossed' /\ [Next]_vars => AbortInv'
  BY AbortKept
<1> QED
  BY AbortInit, <1>1, <1>2, PTL DEF Spec, AbortSticks

-----------------------------------------------------------------------------
(* No chunk is left out.                                                   *)

\* The pixels of a chunk are computed in the order of their places.
Place(a, x, y) == y * a + x

LEMMA RowsApart ==
    ASSUME NEW a \in Nat \ {0}, NEW y \in Nat, NEW z \in Nat, y < z
    PROVE  y * a + a <= z * a /\ y * a \in Nat /\ z * a \in Nat
<1> DEFINE d == z - (y + 1)
<1>1. d \in Nat /\ z = y + 1 + d
  BY SMT
<1> HIDE DEF d
<1>2. (y + 1 + d) * a = y * a + a + d * a /\ y * a \in Nat /\ d * a \in Nat
  BY <1>1, SMT
<1> DEFINE p == y * a
           q == d * a
           r == z * a
<1>3. r = p + a + q /\ p \in Nat /\ q \in Nat
  BY <1>1, <1>2
<1> HIDE DEF p, q, r
<1>4. p + a <= r /\ r \in Nat
  BY <1>3, SMT
<1> QED
  BY <1>3, <1>4 DEF p, r

LEMMA PlaceOrder ==
    ASSUME NEW a \in Nat \ {0}, NEW x \in 0 .. a - 1, NEW i2 \in 0 .. a - 1, NEW y \in Nat, NEW j2 \in Nat
    PROVE  /\ Place(a, x, y) \in Nat
           /\ Place(a, x, y) = Place(a, i2, j2) => x = i2 /\ y = j2
           /\ y < j2 => Place(a, x, y) < Place(a, i2, j2)
           /\ y = j2 /\ x < i2 => Place(a, x, y) < Place(a, i2, j2)
<1> DEFINE p == y * a
           q == j2 * a
<1>1. p \in Nat /\ q \in Nat
  BY SMT
<1>2. (y < j2 => p + a <= q) /\ (j2 < y => q + a <= p) /\ (y = j2 => p = q)
  BY RowsApart
<1>3. Place(a, x, y) = p + x /\ Place(a, i2, j2) = q + i2
  BY DEF Place
<1> HIDE DEF p, q
<1>4. y < j2 => p + x < q + i2
  BY <1>1, <1>2, SMT
<1>5. j2 < y => q + i2 < p + x
  BY <1>1, <1>2, SMT
<1>6. y = j2 => (p + x = q + i2 => x = i2) /\ (x < i2 => p + x < q + i2)
  BY <1>1, <1>2, SMT
<1>7. p + x \in Nat
  BY <1>1, SMT
<1>8. p + x = q + i2 => y = j2
  BY <1>1, <1>4, <1>5, SMT
<1> QED
  BY <1>3, <1>4, <1>6, <1>7, <1>8

\* The places of a chunk are below its size, and the last pixel's is the last.
LEMMA PlaceBounds ==
    ASSUME NEW a \in Nat \ {0}, NEW b \in Nat \ {0}, NEW x \in 0 .. a - 1, NEW y \in 0 .. b - 1,
           NEW i2 \in 0 .. a - 1, NEW j2 \in 0 .. b - 1, i2 + 1 = a, j2 + 1 = b
    PROVE  /\ Place(a, x, y) < a * b
           /\ ~(x = i2 /\ y = j2) => Place(a, x, y) < Place(a, i2, j2)
<1>1. y * a + a <= b * a /\ y * a \in Nat /\ b * a \in Nat /\ b * a = a * b
  <2>1. y < b /\ y \in Nat /\ b * a = a * b
    BY SMT
  <2> QED
    BY <2>1, RowsApart
<1>2. Place(a, x, y) < a * b
  <2> DEFINE p == y * a
             q == b * a
  <2>1. p + a <= q /\ p \in Nat /\ q \in Nat /\ Place(a, x, y) = p + x /\ a * b = q
    BY <1>1 DEF Place
  <2> HIDE DEF p, q
  <2> QED
    BY <2>1, SMT
<1>3. ASSUME ~(x = i2 /\ y = j2) PROVE y < j2 \/ (y = j2 /\ x < i2)
  BY <1>3, SMT
<1>4. y \in Nat /\ j2 \in Nat
  BY SMT
<1> QED
  BY <1>2, <1>3, <1>4, PlaceOrder

\* What is stored in a grid g.
Complete(g) == \A k \in DOMAIN g : g[k] # "unset"
Stored(g, a, b, c, x, y) == g[CP!Spot(c, a, b, x, y)] # "unset"
ChunkStored(g, a, b, c) == \A x \in 0 .. a - 1, y \in 0 .. b - 1 : Stored(g, a, b, c, x, y)

\* The image is the sum of its chunks.
LEMMA GridDomain ==
    ASSUME TypeInv, NEW a, NEW b, Good(comp, a, b)
    PROVE  /\ DOMAIN grid = 0 .. (a * Divide) * (b * Divide) - 1
           /\ \A c \in Nat, x \in 0 .. a - 1, y \in 0 .. b - 1 :
                 c < N2 => CP!Spot(c, a, b, x, y) \in DOMAIN grid
<1>1. DOMAIN grid = 0 .. (a * Divide) * (b * Divide) - 1 /\ a \in Nat \ {0} /\ b \in Nat \ {0}
  BY GoodMeans DEF TypeInv, GridType
<1> QED
  BY <1>1, CP!SpotInside, ImageAssumption DEF N2

LEMMA AllChunks ==
    ASSUME TypeInv, NEW a, NEW b, Good(comp, a, b), NEW g, DOMAIN g = DOMAIN grid,
           \A c \in 0 .. N2 - 1 : ChunkStored(g, a, b, c)
    PROVE  Complete(g)
<1> SUFFICES ASSUME NEW k \in DOMAIN g PROVE g[k] # "unset"
  BY DEF Complete
<1>1. k \in 0 .. (a * Divide) * (b * Divide) - 1 /\ a \in Nat \ {0} /\ b \in Nat \ {0}
  BY GridDomain, GoodMeans
<1>2. PICK n \in 0 .. N2 - 1, x \in 0 .. a - 1, y \in 0 .. b - 1 : CP!Spot(n, a, b, x, y) = k
  BY <1>1, CP!SpotFound, ImageAssumption DEF N2
<1>3. Stored(g, a, b, n, x, y)
  BY <1>2 DEF ChunkStored
<1> QED
  BY <1>2, <1>3 DEF Stored

\* What is stored stays stored, or is cleared, as long as the size stays.
LEMMA GridKept ==
    ASSUME TypeInv, NEW a, NEW b, Good(comp, a, b), [Next]_vars, ~HandleResize
    PROVE  /\ DOMAIN grid' = DOMAIN grid
           /\ Complete(grid) => Complete(grid')
           /\ \A c \in Nat, x \in 0 .. a - 1, y \in 0 .. b - 1 :
                c < N2 /\ Stored(grid, a, b, c, x, y) => Stored(grid', a, b, c, x, y)
<1>1. /\ DOMAIN grid' = DOMAIN grid
      /\ \A k \in DOMAIN grid : grid[k] # "unset" => grid'[k] # "unset"
  <2>1. CASE HandleClear
    <3>1. grid' = [k \in DOMAIN grid |-> IF grid[k] = "unset" THEN "unset" ELSE "cleared"]
      BY <2>1 DEF HandleClear
    <3> QED
      BY <3>1
  <2>2. CASE HandleData
    <3> DEFINE k2 == C!Index(comp, Computed(Head(events)))
               q == Quality(comp, Computed(Head(events)), Head(events))
    <3>1. grid' = grid \/ grid' = [grid EXCEPT ![k2] = q]
      BY <2>2 DEF HandleData
    <3>2. q # "unset"
      BY DEF Quality
    <3>3. grid = [k \in DOMAIN grid |-> grid[k]]
      BY DEF TypeInv, GridType
    <3> HIDE DEF k2, q
    <3> QED
      BY <3>1, <3>2, <3>3
  <2>3. CASE ~HandleClear /\ ~HandleData
    <3>1. grid' = grid
      BY <2>3 DEF Next, Main, HandleKey, HandleMessage, HandleSet, HandleStart, HandleCpu,
         HandleAbort, HandleReset, HandleVersion, HandleStartup, HandleReport, HandleDone,
         HandleBoardAbort, Board, PressButton, RestartBoard, Press, hostVars, vars
    <3> QED
      BY <3>1
  <2> QED
    BY <2>1, <2>2, <2>3
<1> QED
  BY <1>1, GridDomain DEF Complete, Stored

\* Data are for a pixel, or for one after it.
OfPixel(c, x, y) == {m \in DataEvents(ChunkType) : m.chunk.cid = c /\ m.i_re = x /\ m.i_im = y}
Later(c, a, x, y) ==
    {m \in DataEvents(ChunkType) : m.chunk.cid = c /\ Place(a, x, y) < Place(a, m.i_re, m.i_im)}

Covered(a, b, x, y) ==
    Stored(grid, a, b, comp.cid, x, y) \/ ~Free(events, OfPixel(comp.cid, x, y))

\* While the chunk of the host has pixels that are not stored, it is asked
\* for, computed, or reported, with the data of its pixels on the way.
Coming(a, b) ==
    \/ ~Free(toBoard, Asked(comp.cid))
    \/ /\ computing /\ chunk.cid = comp.cid
       /\ \A x \in 0 .. a - 1, y \in 0 .. b - 1 : Place(a, x, y) < pixel => Covered(a, b, x, y)
    \/ /\ ~Free(events, Done)
       /\ \A x \in 0 .. a - 1, y \in 0 .. b - 1 : Covered(a, b, x, y)
    \/ ~Free(events, Abort)

\* The data of a chunk come in the order of the pixels.
InOrder(a, b) ==
    \A x \in 0 .. a - 1, y \in 0 .. b - 1 :
        \/ Stored(grid, a, b, comp.cid, x, y)
        \/ Heralded(events, OfPixel(comp.cid, x, y), Later(comp.cid, a, x, y))

InFlight ==
    \/ computing \/ ~Free(toBoard, Asking(ChunkType))
    \/ ~Free(events, DataEvents(ChunkType) \cup Done)

\* As long as the image is not complete, the computation is not done, the
\* chunks before the present one are stored, and the rest of it is to come.
Flow(a, b) ==
    /\ ~comp.done
    /\ InFlight => comp.computing
    /\ comp.computing =>
         /\ \A c \in 0 .. comp.cid - 1 : ChunkStored(grid, a, b, c)
         /\ ChunkStored(grid, a, b, comp.cid) \/ Coming(a, b)
         /\ InOrder(a, b)

FlowInv ==
    /\ WaitsInv /\ DataFirst /\ ComputingRuns /\ restarts \in Nat
    /\ \E a, b \in 1 .. 255 : /\ Good(comp, a, b) /\ AlignedLinks(a, b)
                              /\ Complete(grid) \/ Flow(a, b)

LEMMA SizesOpen ==
    ASSUME NEW a, NEW x, NEW y, NEW c
    PROVE  /\ OfPixel(c, x, y) \subseteq DataEvents(ChunkType)
           /\ Later(c, a, x, y) \subseteq DataEvents(ChunkType)
BY DEF OfPixel, Later

\* A step that leaves the chunk of the host, the board's work and the links'
\* data alone keeps the flow.
LEMMA FlowCarried ==
    ASSUME TypeInv, NEW a, NEW b, Good(comp, a, b), [Next]_vars, ~HandleResize, Flow(a, b),
           comp'.cid = comp.cid, comp'.computing = comp.computing, ~comp'.done,
           EventsKept, AskingKept, UNCHANGED <<computing, chunk, pixel>>
    PROVE  Flow(a, b)'
<1> DEFINE D == DataEvents(ChunkType)
           c == comp.cid
<1>1. InFlight' => InFlight
  <2> DEFINE Y == DataEvents(ChunkType) \cup Done
             A == Asking(ChunkType)
  <2>1. (Free(events, Y) => Free(events', Y)) /\ (Free(toBoard, A) => Free(toBoard', A))
    BY DEF EventsKept, AskingKept
  <2>2. InFlight <=> computing \/ ~Free(toBoard, A) \/ ~Free(events, Y)
    BY DEF InFlight
  <2>3. InFlight' <=> computing' \/ ~Free(toBoard', A) \/ ~Free(events', Y)
    BY DEF InFlight
  <2> HIDE DEF Y, A
  <2> QED
    BY <2>1, <2>2, <2>3
<1> SUFFICES ASSUME comp.computing
             PROVE  /\ \A n \in 0 .. c - 1 : ChunkStored(grid', a, b, n)
                    /\ ChunkStored(grid', a, b, c) \/ Coming(a, b)'
                    /\ InOrder(a, b)'
  BY <1>1 DEF Flow
<1>2. c \in Nat /\ c < N2 /\ N2 \in Nat
  BY GoodMeans DEF CompRecord
<1>3. \A n \in Nat, x \in 0 .. a - 1, y \in 0 .. b - 1 :
         n < N2 /\ Stored(grid, a, b, n, x, y) => Stored(grid', a, b, n, x, y)
  BY GridKept
<1>4. \A n \in 0 .. c : n \in Nat /\ n < N2 /\ (ChunkStored(grid, a, b, n) => ChunkStored(grid', a, b, n))
  <2>1. \A n \in 0 .. c : n \in Nat /\ n < N2
    BY <1>2, SMT
  <2> QED
    BY <1>3, <2>1 DEF ChunkStored
<1>5. \A n \in 0 .. c - 1 : ChunkStored(grid', a, b, n)
  <2>1. \A n \in 0 .. c - 1 : n \in 0 .. c
    BY <1>2, SMT
  <2> QED
    BY <1>4, <2>1 DEF Flow
<1>6. ASSUME NEW x \in 0 .. a - 1, NEW y \in 0 .. b - 1
      PROVE  Covered(a, b, x, y) => Covered(a, b, x, y)'
  <2>1. ~Free(events, OfPixel(c, x, y)) => ~Free(events', OfPixel(c, x, y))
    BY SizesOpen DEF EventsKept
  <2> QED
    BY <1>2, <1>3, <2>1 DEF Covered
<1>7. Coming(a, b) => Coming(a, b)'
  <2>1. /\ ~Free(toBoard, Asked(c)) => ~Free(toBoard', Asked(c))
        /\ ~Free(events, Done) => ~Free(events', Done)
        /\ ~Free(events, Abort) => ~Free(events', Abort)
    <3>1. Asked(c) \subseteq Asking(ChunkType) /\ Done \subseteq Signals /\ Abort \subseteq Signals
      BY DataKinds DEF Asked
    <3> QED
      BY <3>1 DEF EventsKept, AskingKept
  <2> QED
    BY <1>6, <2>1 DEF Coming
<1>8. InOrder(a, b)'
  <2> SUFFICES ASSUME NEW x \in 0 .. a - 1, NEW y \in 0 .. b - 1
               PROVE  \/ Stored(grid', a, b, c, x, y)
                      \/ Heralded(events', OfPixel(c, x, y), Later(c, a, x, y))
    BY DEF InOrder
  <2>1. Heralded(events, OfPixel(c, x, y), Later(c, a, x, y))
          => Heralded(events', OfPixel(c, x, y), Later(c, a, x, y))
    BY SizesOpen DEF EventsKept
  <2> QED
    BY <1>2, <1>3, <2>1 DEF Flow, InOrder
<1>9. c \in 0 .. c
  BY <1>2, SMT
<1> QED
  BY <1>4, <1>5, <1>7, <1>8, <1>9 DEF Flow

\* Nothing is said of a computation that does not run and has nothing on the
\* way.
LEMMA FlowEnded ==
    ASSUME NEW a, NEW b, ~comp'.done, ~comp'.computing, ~computing',
           Free(toBoard', Asking(ChunkType)), Free(events', DataEvents(ChunkType) \cup Done)
    PROVE  Flow(a, b)'
BY DEF Flow, InFlight

\* What the calm steps but an abort do to a computation of a size that stays.
LEMMA CalmFlags ==
    ASSUME TypeInv, Calm, ~HandleResize
    PROVE  /\ (HandleAbort /\ data_computing) \/ comp'.computing = comp.computing
           /\ comp'.cid = comp.cid \/ HandleReset
<1>1. PICK a, b \in 1 .. 255 : Good(comp, a, b)
  BY DEF TypeInv, Sized
<1>2. comp \in CompRecord
  BY <1>1, GoodMeans
<1>3. CASE HandleSet \/ HandleCpu \/ HandleAbort \/ HandleReset
  BY <1>2, <1>3, Flags DEF HandleSet, HandleCpu, HandleAbort, HandleReset
<1>4. CASE ~(HandleSet \/ HandleCpu \/ HandleAbort \/ HandleReset)
  BY <1>4 DEF Calm, HandleClear, HandleVersion, HandleStartup, HandleReport, PressButton, Press,
     hostVars, vars
<1> QED
  BY <1>3, <1>4

LEMMA FlowCalm ==
    ASSUME "abort" \notin Hasty, TypeInv, Patient, NEW a, NEW b, Good(comp, a, b), [Next]_vars,
           ~HandleResize, Flow(a, b), Calm
    PROVE  Flow(a, b)'
<1>0. ~comp'.done
  BY CalmComp DEF Flow
<1>1. CASE HandleAbort /\ data_computing
  <2>1. /\ Tail(events) \in Seq(Idlers) /\ toBoard = <<>> /\ ~computing /\ events' = Tail(events)
    BY <1>1, Handled, PatientTurn DEF HandleAbort
  <2>2. ~comp'.computing
    <3>1. comp \in CompRecord
      BY GoodMeans
    <3> QED
      BY <1>1, <3>1, Flags DEF HandleAbort
  <2>3. ~computing' /\ toBoard' = <<N!Simple("ABORT")>>
    BY <1>1, <2>1 DEF HandleAbort, ToBoard, Unmoved, boardVars
  <2>4. Free(toBoard', Asking(ChunkType))
    BY <2>3, AskKinds DEF Free
  <2>5. Free(events', DataEvents(ChunkType) \cup Done)
    <3>1. \A m \in Idlers : m.type \in {"key", "STARTUP"}
      BY DEF Idlers, Key, N!Simple
    <3>2. \A m \in DataEvents(ChunkType) \cup Done : m.type \in {"COMPUTE_DATA", "DONE"}
      BY DEF DataEvents, Done, N!Simple
    <3>3. \A m \in Idlers : m \notin DataEvents(ChunkType) \cup Done
      BY <3>1, <3>2
    <3> QED
      BY <2>1, <3>3, IdleFree
  <2> QED
    BY <1>0, <2>2, <2>3, <2>4, <2>5, FlowEnded
<1>2. CASE ~(HandleAbort /\ data_computing) /\ comp'.cid = comp.cid
  BY <1>0, <1>2, CalmKeeps, CalmFlags, FlowCarried
<1>3. CASE ~(HandleAbort /\ data_computing) /\ comp'.cid # comp.cid
  <2>1. comp'.computing = comp.computing /\ HandleReset /\ grid' = grid
    BY <1>3, CalmFlags DEF HandleReset
  <2>2. comp'.cid = 0 /\ comp.cid \in Nat \ {0}
    <3>1. comp \in CompRecord
      BY GoodMeans
    <3>2. comp'.cid = 0 /\ comp.cid \in Nat
      BY <2>1, <3>1, Flags DEF HandleReset, CompRecord
    <3> QED
      BY <1>3, <3>2
  <2>3. comp.computing => ChunkStored(grid, a, b, 0)
    <3>1. 0 \in 0 .. comp.cid - 1
      BY <2>2, SMT
    <3> QED
      BY <3>1 DEF Flow
  <2>4. InFlight' => InFlight
    <3> DEFINE Y == DataEvents(ChunkType) \cup Done
               A == Asking(ChunkType)
    <3>1. (Free(events, Y) => Free(events', Y)) /\ (Free(toBoard, A) => Free(toBoard', A))
          /\ computing' = computing
      BY CalmKeeps DEF EventsKept, AskingKept
    <3>2. InFlight <=> computing \/ ~Free(toBoard, A) \/ ~Free(events, Y)
      BY DEF InFlight
    <3>3. InFlight' <=> computing' \/ ~Free(toBoard', A) \/ ~Free(events', Y)
      BY DEF InFlight
    <3> HIDE DEF Y, A
    <3> QED
      BY <3>1, <3>2, <3>3
  <2>5. comp.computing => InOrder(a, b)'
    BY <2>1, <2>2, <2>3 DEF InOrder, ChunkStored
  <2>6. \A n \in 0 .. comp'.cid - 1 : ChunkStored(grid', a, b, n)
    <3>1. \A n \in 0 .. 0 - 1 : FALSE
      BY SMT
    <3> QED
      BY <2>2, <3>1
  <2> QED
    BY <1>0, <2>1, <2>2, <2>3, <2>4, <2>5, <2>6 DEF Flow
<1> QED
  BY <1>1, <1>2, <1>3

\* A chunk is asked for only when the one before it is stored.
LEMMA FlowStart ==
    ASSUME TypeInv, OneToken, DataFirst, NEW a, NEW b, Good(comp, a, b), Flow(a, b), HandleStart
    PROVE  (Complete(grid) \/ Flow(a, b))'
<1> DEFINE D == DataEvents(ChunkType)
<1>1. /\ ~computing /\ Free(events', D) /\ Free(events, Done) /\ Free(events, Abort)
      /\ Free(toBoard, Asked(comp.cid)) /\ grid' = grid
  BY StartTurn DEF HandleStart
<1>2. ~Coming(a, b)
  BY <1>1 DEF Coming
<1>3. comp.computing => /\ \A n \in 0 .. comp.cid - 1 : ChunkStored(grid, a, b, n)
                        /\ ChunkStored(grid, a, b, comp.cid)
  BY <1>2 DEF Flow
<1>4. N2 \in Nat /\ comp.cid \in Nat /\ (comp.computing => comp.cid < N2) /\ ~comp.done
  BY GoodMeans DEF CompRecord, Flow
<1>5. InOrder(a, b)'
  <2> SUFFICES ASSUME NEW c, NEW x, NEW y
               PROVE  Heralded(events', OfPixel(c, x, y), Later(c, a, x, y))
    BY DEF InOrder
  <2> QED
    BY <1>1, SizesOpen DEF Heralded, Free
<1>6. ASSUME comp'.computing PROVE Coming(a, b)'
  <2>1. PICK m \in Asking(ChunkType) : toBoard' = Append(toBoard, m) /\ m.chunk = C!Request(comp')
    BY <1>6, StartStep
  <2>2. m \in Asked(comp'.cid) /\ m \in Requests /\ toBoard \in Seq(Requests)
    BY <2>1 DEF Asked, C!Request, Requests, TypeInv, LinkType
  <2>3. ~Free(toBoard', Asked(comp'.cid))
    BY <2>1, <2>2, PushedMore
  <2> QED
    BY <2>3 DEF Coming
<1>7. \/ ~comp.computing /\ comp'.computing /\ comp'.cid = 0 /\ comp'.done = comp.done
      \/ /\ comp.computing /\ comp.cid + 1 < N2
         /\ comp'.computing /\ comp'.cid = comp.cid + 1 /\ comp'.done = comp.done
      \/ comp.computing /\ ~(comp.cid + 1 < N2)
  BY AdvancedFields DEF HandleStart
<1>8. CASE ~comp.computing /\ comp'.computing /\ comp'.cid = 0 /\ comp'.done = comp.done
  <2>1. \A n \in 0 .. comp'.cid - 1 : ChunkStored(grid', a, b, n)
    <3>1. \A n \in 0 .. 0 - 1 : FALSE
      BY SMT
    <3> QED
      BY <1>8, <3>1
  <2> QED
    BY <1>4, <1>5, <1>6, <1>8, <2>1 DEF Flow
<1>9. CASE /\ comp.computing /\ comp.cid + 1 < N2
           /\ comp'.computing /\ comp'.cid = comp.cid + 1 /\ comp'.done = comp.done
  <2>1. \A n \in 0 .. comp'.cid - 1 : n \in 0 .. comp.cid - 1 \/ n = comp.cid
    BY <1>4, <1>9, SMT
  <2>2. ASSUME NEW n \in 0 .. comp'.cid - 1 PROVE ChunkStored(grid', a, b, n)
    <3>1. ChunkStored(grid, a, b, n)
      BY <1>3, <1>9, <2>1
    <3> QED
      BY <1>1, <3>1
  <2> QED
    BY <1>4, <1>5, <1>6, <1>9, <2>2 DEF Flow
<1>10. CASE comp.computing /\ ~(comp.cid + 1 < N2)
  <2>1. \A n \in 0 .. N2 - 1 : n \in 0 .. comp.cid - 1 \/ n = comp.cid
    BY <1>4, <1>10, SMT
  <2>2. Complete(grid)
    BY <1>3, <1>10, <2>1, AllChunks
  <2> QED
    BY <1>1, <2>2 DEF Complete
<1> QED
  BY <1>7, <1>8, <1>9, <1>10

\* The board reports the end of a chunk after its data.
LEMMA FlowDone ==
    ASSUME TypeInv, OneToken, DataFirst, NEW a, NEW b, Good(comp, a, b), Flow(a, b), HandleDone
    PROVE  Flow(a, b)'
<1> DEFINE D == DataEvents(ChunkType)
<1>0. events \in Seq(Events) /\ events # <<>> /\ Head(events) \in Events /\ Head(events).type = "DONE"
      /\ UNCHANGED <<comp, grid, toBoard, computing>>
  BY DEF HandleDone, TypeInv, LinkType, Unmoved, boardVars
<1>1. Head(events) \in Done /\ Head(events) \in Signals
  BY <1>0, EventKinds, DataKinds DEF Done
<1>2. /\ Free(toBoard, Asks) /\ ~computing /\ Free(events, D) /\ Free(Tail(events), D)
      /\ Free(Tail(events), Signals) /\ Tail(events) \in Seq(Events)
  BY <1>0, <1>1, SignalTurn
<1>3. Free(events, Abort) /\ Free(toBoard, Asked(comp.cid))
  <2>1. Free(Tail(events), Abort) /\ Head(events) \notin Abort
    BY <1>1, <1>2, DataKinds, FreeSubset DEF Done
  <2>2. Asked(comp.cid) \subseteq Asks
    BY AskKinds DEF Asked
  <2>3. Free(events, Abort)
    BY <1>0, <2>1, Popped
  <2>4. Free(toBoard, Asked(comp.cid))
    BY <1>2, <2>2, FreeSubset
  <2> QED
    BY <2>3, <2>4
<1>4. comp.computing
  <2> DEFINE Y == DataEvents(ChunkType) \cup Done
  <2>1. Head(events) \in Y
    BY <1>1
  <2> HIDE DEF Y
  <2>2. ~Free(events, Y)
    BY <1>0, <2>1, Popped
  <2> QED
    BY <2>2 DEF Flow, InFlight, Y
<1>5. ASSUME NEW x \in 0 .. a - 1, NEW y \in 0 .. b - 1, Covered(a, b, x, y)
      PROVE  Stored(grid, a, b, comp.cid, x, y)
  <2>1. Free(events, OfPixel(comp.cid, x, y))
    BY <1>2, SizesOpen, FreeSubset
  <2> QED
    BY <1>5, <2>1 DEF Covered
<1>6. ChunkStored(grid, a, b, comp.cid)
  BY <1>2, <1>3, <1>4, <1>5 DEF Flow, Coming, ChunkStored
<1>7. Free(events', D)
  <2>1. NextChunkEvent \in Events /\ NextChunkEvent \notin D
    BY DataKinds
  <2>2. Free(Append(Tail(events), NextChunkEvent), D)
    BY <1>2, <2>1, Pushed
  <2> QED
    BY <1>2, <2>2 DEF HandleDone
<1>8. InOrder(a, b)'
  BY <1>0, <1>6 DEF InOrder, ChunkStored
<1> QED
  BY <1>0, <1>4, <1>6, <1>8 DEF Flow

LEMMA FlowAborted ==
    ASSUME TypeInv, OneToken, DataFirst, NEW a, NEW b, Good(comp, a, b), Flow(a, b), HandleBoardAbort
    PROVE  Flow(a, b)'
<1>1. events # <<>> /\ Head(events) \in Signals /\ events' = Tail(events)
  BY Handled DEF HandleBoardAbort
<1>2. /\ Free(toBoard, Asks) /\ ~computing /\ Free(events', DataEvents(ChunkType)) /\ Free(events', Signals)
  BY <1>1, SignalTurn
<1>3. Free(events', DataEvents(ChunkType) \cup Done)
  BY <1>2, DataKinds DEF Free
<1>4. Free(toBoard', Asking(ChunkType)) /\ ~computing'
  <2>1. toBoard' = toBoard /\ computing' = computing
    BY DEF HandleBoardAbort, Unmoved, boardVars
  <2> QED
    BY <1>2, <2>1, AskKinds, FreeSubset
<1>5. ~comp'.done /\ ~comp'.computing
  <2>1. comp \in CompRecord /\ comp' = C!Aborted(comp) /\ ~comp.done
    BY GoodMeans DEF HandleBoardAbort, Flow
  <2> QED
    BY <2>1, Flags
<1> QED
  BY <1>3, <1>4, <1>5, FlowEnded

\* Data of the chunk of the host are stored for their pixel.
LEMMA DataStored ==
    ASSUME TypeInv, ComputingRuns, NEW a, NEW b, Good(comp, a, b), AlignedLinks(a, b),
           comp.computing, HandleData, Head(events).chunk.cid = comp.cid
    PROVE  LET m == Head(events)
           IN  /\ m.i_re \in 0 .. a - 1 /\ m.i_im \in 0 .. b - 1
               /\ m \in OfPixel(comp.cid, m.i_re, m.i_im)
               /\ Stored(grid', a, b, comp.cid, m.i_re, m.i_im)
<1> DEFINE m == Head(events)
           x == m.i_re
           y == m.i_im
           d == Computed(m)
           k == C!Index(comp, d)
           q == Quality(comp, d, m)
<1>1. m \in GoodData(a, b) /\ m \in DataEvents(ChunkType) /\ a \in Nat \ {0} /\ b \in Nat \ {0}
  BY DataTurn, GoodMeans DEF GoodData
<1>2. x \in 0 .. a - 1 /\ y \in 0 .. b - 1
  <2>1. x \in Nat /\ y \in Nat /\ x < a /\ y < b
    BY <1>1 DEF GoodData, DataEvents
  <2> QED
    BY <1>1, <2>1, SMT
<1>3. k = CP!Spot(comp.cid, a, b, x, y)
  <2>1. comp.w = a * Divide
    BY GoodMeans
  <2> QED
    BY <1>1, <2>1, DataFit DEF CP!Spot
<1>4. comp.cid \in Nat /\ comp.cid < N2
  BY GoodMeans DEF CompRecord
<1>5. k \in DOMAIN grid
  BY <1>2, <1>3, <1>4, GridDomain
<1>6. DOMAIN grid = 0 .. comp.w * comp.h - 1
  BY DEF TypeInv, GridType
<1>7. C!Hits(comp, d)
  BY <1>5, <1>6 DEF C!Hits, C!Takes, Computed
<1>8. grid' = [grid EXCEPT ![k] = q] /\ q # "unset"
  BY <1>7 DEF HandleData, ComputingRuns, Quality
<1>9. grid'[k] # "unset"
  <2> HIDE DEF k, q
  <2> QED
    BY <1>5, <1>8
<1> QED
  BY <1>1, <1>2, <1>3, <1>9 DEF OfPixel, Stored

LEMMA FlowData ==
    ASSUME TypeInv, OneToken, DataFirst, ComputingRuns, NEW a, NEW b, Good(comp, a, b),
           AlignedLinks(a, b), Flow(a, b), [Next]_vars, HandleData, ~HandleResize
    PROVE  (Complete(grid) \/ Flow(a, b))'
<1> DEFINE m == Head(events)
           c == comp.cid
           d == Computed(m)
<1>0. /\ events \in Seq(Events) /\ events # <<>> /\ events' = Tail(events) /\ toBoard' = toBoard
      /\ m \in DataEvents(ChunkType) /\ m \notin Signals /\ m \in GoodData(a, b)
      /\ UNCHANGED <<computing, chunk, pixel>> /\ comp'.cid = comp.cid
  BY DataTurn DEF GoodData, TypeInv, LinkType
<1>1. comp.computing /\ ~comp.done
  <2> DEFINE Y == DataEvents(ChunkType) \cup Done
  <2>1. m \in Y
    BY <1>0
  <2> HIDE DEF Y
  <2>2. ~Free(events, Y)
    BY <1>0, <2>1, Popped
  <2> QED
    BY <2>2 DEF Flow, InFlight, Y
<1>2. c \in Nat /\ c < N2 /\ N2 \in Nat /\ a \in Nat \ {0} /\ b \in Nat \ {0}
  BY <1>1, GoodMeans DEF CompRecord
<1>3. ASSUME NEW x \in 0 .. a - 1, NEW y \in 0 .. b - 1, m \in OfPixel(c, x, y)
      PROVE  Stored(grid', a, b, c, x, y)
  <2>1. m.chunk.cid = c /\ m.i_re = x /\ m.i_im = y
    BY <1>3 DEF OfPixel
  <2> QED
    BY <1>1, <2>1, DataStored
<1>4. \A n \in Nat, x \in 0 .. a - 1, y \in 0 .. b - 1 :
         n < N2 /\ Stored(grid, a, b, n, x, y) => Stored(grid', a, b, n, x, y)
  BY GridKept
<1>5. \A n \in 0 .. c : n \in Nat /\ n < N2 /\ (ChunkStored(grid, a, b, n) => ChunkStored(grid', a, b, n))
  <2>1. \A n \in 0 .. c : n \in Nat /\ n < N2
    BY <1>2, SMT
  <2> QED
    BY <1>4, <2>1 DEF ChunkStored
<1>6. \A n \in 0 .. c - 1 : ChunkStored(grid', a, b, n)
  <2>1. \A n \in 0 .. c - 1 : n \in 0 .. c
    BY <1>2, SMT
  <2> QED
    BY <1>1, <1>5, <2>1 DEF Flow
<1>8. comp' = C!Updated(comp, d) /\ ~comp.abort
  BY <1>1 DEF HandleData, ComputingRuns
<1>9. CASE EndsImage(comp, d, a, b)
  <2>1. m.chunk.cid = c /\ ~(c + 1 < N2) /\ m.i_re + 1 = a /\ m.i_im + 1 = b
    BY <1>9 DEF EndsImage, Computed
  <2>2. /\ m.i_re \in 0 .. a - 1 /\ m.i_im \in 0 .. b - 1
        /\ Stored(grid', a, b, c, m.i_re, m.i_im)
    BY <1>1, <2>1, DataStored
  <2>3. ASSUME NEW x \in 0 .. a - 1, NEW y \in 0 .. b - 1 PROVE Stored(grid', a, b, c, x, y)
    <3>1. CASE x = m.i_re /\ y = m.i_im
      BY <2>2, <3>1
    <3>2. CASE ~(x = m.i_re /\ y = m.i_im)
      <4>1. Place(a, x, y) < Place(a, m.i_re, m.i_im)
        BY <1>2, <2>1, <2>2, <3>2, PlaceBounds
      <4>2. m \in Later(c, a, x, y)
        BY <1>0, <2>1, <4>1 DEF Later
      <4>3. ~Heralded(events, OfPixel(c, x, y), Later(c, a, x, y))
        BY <1>0, <4>2, PoppedMore
      <4>4. Stored(grid, a, b, c, x, y)
        BY <1>1, <4>3 DEF Flow, InOrder
      <4> QED
        BY <1>2, <1>4, <4>4
    <3> QED
      BY <3>1, <3>2
  <2>4. \A n \in 0 .. N2 - 1 : n \in 0 .. c - 1 \/ n = c
    BY <1>2, <2>1, SMT
  <2>5. \A n \in 0 .. N2 - 1 : ChunkStored(grid', a, b, n)
    BY <1>6, <2>3, <2>4 DEF ChunkStored
  <2>6. Complete(grid')
    BY <2>5, AllChunks, GridKept
  <2> QED
    BY <2>6 DEF Complete
<1>10. CASE ~EndsImage(comp, d, a, b)
  <2>1. comp' = comp
    BY <1>8, <1>10, UpdatedFields
  <2>2. ASSUME NEW x \in 0 .. a - 1, NEW y \in 0 .. b - 1, Covered(a, b, x, y)
        PROVE  Covered(a, b, x, y)'
    <3>1. CASE m \in OfPixel(c, x, y)
      BY <1>3, <2>1, <3>1 DEF Covered
    <3>2. CASE m \notin OfPixel(c, x, y)
      <4>1. ~Free(events, OfPixel(c, x, y)) => ~Free(events', OfPixel(c, x, y))
        BY <1>0, <3>2, PoppedMore
      <4> QED
        BY <1>2, <1>4, <2>1, <2>2, <4>1 DEF Covered
    <3> QED
      BY <3>1, <3>2
  <2>3. /\ ~Free(events, Done) => ~Free(events', Done)
        /\ ~Free(events, Abort) => ~Free(events', Abort)
    BY <1>0, DataKinds, PoppedMore
  <2>4. Coming(a, b) => Coming(a, b)'
    BY <1>0, <2>1, <2>2, <2>3 DEF Coming
  <2>5. InOrder(a, b)'
    <3> SUFFICES ASSUME NEW x \in 0 .. a - 1, NEW y \in 0 .. b - 1
                 PROVE  \/ Stored(grid', a, b, c, x, y)
                        \/ Heralded(events', OfPixel(c, x, y), Later(c, a, x, y))
      BY <2>1 DEF InOrder
    <3>1. CASE m \in OfPixel(c, x, y)
      BY <1>3, <3>1
    <3>2. CASE Stored(grid, a, b, c, x, y)
      BY <1>2, <1>4, <3>2
    <3>3. CASE m \notin OfPixel(c, x, y) /\ ~Stored(grid, a, b, c, x, y)
      <4>1. Heralded(events, OfPixel(c, x, y), Later(c, a, x, y))
        BY <1>1, <3>3 DEF Flow, InOrder
      <4> DEFINE S == OfPixel(c, x, y)
                 T == Later(c, a, x, y)
      <4>2. Heralded(events, S, T) /\ m \notin S
        BY <3>3, <4>1
      <4> HIDE DEF S, T
      <4>3. Heralded(events', S, T)
        BY <1>0, <4>2, PoppedMore
      <4> QED
        BY <4>3 DEF S, T
    <3> QED
      BY <3>1, <3>2, <3>3
  <2>6. c \in 0 .. c
    BY <1>2, SMT
  <2>7. ChunkStored(grid', a, b, c) \/ Coming(a, b)'
    BY <1>1, <1>5, <2>4, <2>6 DEF Flow
  <2> QED
    BY <1>1, <1>6, <2>1, <2>5, <2>7 DEF Flow
<1> QED
  BY <1>9, <1>10

\* The board computes the pixels of a chunk one after the other, and reports
\* the chunk when it has sent them all.
LEMMA FlowBusy ==
    ASSUME TypeInv, OneToken, NEW a, NEW b, Good(comp, a, b), AlignedLinks(a, b), Flow(a, b), Busy
    PROVE  Flow(a, b)'
<1> DEFINE c == comp.cid
           D == DataEvents(ChunkType)
           Y == DataEvents(ChunkType) \cup Done
           A == Asking(ChunkType)
<1>0. /\ events \in Seq(Events) /\ toBoard \in Seq(Requests) /\ BoardType
      /\ a \in Nat \ {0} /\ b \in Nat \ {0} /\ UNCHANGED <<comp, grid>> /\ ~comp.done
  BY GoodMeans DEF TypeInv, LinkType, Busy, hostVars, Flow
<1>1. ASSUME NEW m \in Events, NEW S, events' = Append(events, m)
      PROVE  (~Free(events, S) => ~Free(events', S)) /\ (m \in S => ~Free(events', S))
  BY <1>0, <1>1, PushedMore
<1>2. /\ N!Simple("ABORT") \in Events /\ N!Simple("DONE") \in Events /\ N!Simple("OK") \in Events
      /\ N!Simple("ABORT") \in Abort /\ N!Simple("DONE") \in Done
      /\ N!Simple("ABORT") \notin Y /\ N!Simple("OK") \notin Y
      /\ N!Simple("ABORT") \notin D /\ N!Simple("OK") \notin D /\ N!Simple("DONE") \notin D
  <2>1. N!Simple("OK") \notin Done /\ N!Simple("ABORT") \notin Done
    <3>1. N!Simple("OK").type = "OK" /\ N!Simple("DONE").type = "DONE" /\ N!Simple("ABORT").type = "ABORT"
      BY DEF N!Simple
    <3> QED
      BY <3>1 DEF Done
  <2>2. /\ N!Simple("OK") \in Reports /\ N!Simple("DONE") \in Reports /\ N!Simple("ABORT") \in Reports
    BY DataKinds
  <2> QED
    BY <2>1, <2>2, DataKinds DEF Abort, Done
<1> DEFINE Rest == /\ \A n \in 0 .. c - 1 : ChunkStored(grid, a, b, n)
                   /\ ChunkStored(grid, a, b, c) \/ Coming(a, b)
                   /\ InOrder(a, b)
<1>3. Flow(a, b) <=> ~comp.done /\ (InFlight => comp.computing) /\ (comp.computing => Rest)
  BY DEF Flow
<1>4. InFlight <=> computing \/ ~Free(toBoard, A) \/ ~Free(events, Y)
  BY DEF InFlight
\* What each of these steps has to bring about.
<1>5. ASSUME InFlight => comp.computing, InFlight' => InFlight,
             comp.computing => InOrder(a, b)',
             comp.computing /\ ~ChunkStored(grid, a, b, c) => Coming(a, b)'
      PROVE  Flow(a, b)'
  <2>1. InFlight' => comp'.computing
    BY <1>0, <1>5
  <2>2. comp'.computing => /\ \A n \in 0 .. comp'.cid - 1 : ChunkStored(grid', a, b, n)
                           /\ ChunkStored(grid', a, b, comp'.cid) \/ Coming(a, b)'
                           /\ InOrder(a, b)'
    BY <1>0, <1>3, <1>5
  <2> QED
    BY <1>0, <2>1, <2>2 DEF Flow
<1>6. InFlight => comp.computing
  BY <1>3
<1>7. comp.computing /\ ~ChunkStored(grid, a, b, c) => Coming(a, b)
  BY <1>3
<1>8. ASSUME NEW m \in Events, NEW s \in Seq(Events), m \notin D, InOrder(a, b),
             \A S, T \in SUBSET D : Heralded(events, S, T) => Heralded(s, S, T)
      PROVE  \A S, T \in SUBSET D : Heralded(events, S, T) => Heralded(Append(s, m), S, T)
  <2> HIDE DEF D
  <2> SUFFICES ASSUME NEW S \in SUBSET D, NEW T \in SUBSET D, Heralded(events, S, T)
               PROVE  Heralded(Append(s, m), S, T)
    OBVIOUS
  <2>1. Heralded(s, S, T) /\ m \notin T
    BY <1>8
  <2> QED
    BY <2>1, PushedMore
<1>9. ASSUME \A S, T \in SUBSET D : Heralded(events, S, T) => Heralded(events', S, T), InOrder(a, b)
      PROVE  InOrder(a, b)'
  BY <1>0, <1>9, SizesOpen DEF InOrder
<1>10. ASSUME NEW m \in Events, m \notin D, events' = Append(events, m), InOrder(a, b)
       PROVE  InOrder(a, b)'
  <2>1. \A S, T \in SUBSET D : Heralded(events, S, T) => Heralded(Append(events, m), S, T)
    BY <1>0, <1>8, <1>10
  <2> QED
    BY <1>9, <1>10, <2>1
<1>11. comp.computing => InOrder(a, b)
  BY <1>3
<1> HIDE DEF D, Y, A, Rest
<1>12. CASE N!Check /\ abort_request /\ computing
  <2>1. events' = Append(events, N!Simple("ABORT")) /\ computing
    BY <1>12 DEF N!Check, N!Send
  <2>2. ~Free(events', Abort)
    BY <1>1, <1>2, <2>1
  <2>3. Coming(a, b)' /\ InFlight
    BY <1>4, <2>1, <2>2 DEF Coming
  <2> QED
    BY <1>2, <1>5, <1>6, <1>10, <1>11, <2>1, <2>3
<1>13. CASE N!ReceiveAbort
  <2> DEFINE s == Append(events, N!Simple("OK"))
  <2>1. events' = Append(s, N!Simple("ABORT")) /\ s \in Seq(Events)
    BY <1>0, <1>2, <1>13, TwoAtOnce DEF N!ReceiveAbort
  <2>2. InOrder(a, b) => \A S, T \in SUBSET D : Heralded(events, S, T) => Heralded(s, S, T)
    BY <1>0, <1>2, <1>8
  <2>3. Free(events, Y) => Free(s, Y)
    BY <1>0, <1>2, Pushed
  <2> HIDE DEF s
  <2>4. ~Free(events', Abort)
    BY <1>2, <2>1, PushedMore
  <2>5. Coming(a, b)'
    BY <2>4 DEF Coming
  <2>6. InOrder(a, b) => InOrder(a, b)'
    BY <1>2, <1>8, <1>9, <2>1, <2>2
  <2>7. Free(s, Y) => Free(events', Y)
    BY <1>2, <2>1, Pushed
  <2>8. Free(toBoard, A) => Free(toBoard', A)
    BY <1>0, <1>13, Popped DEF N!ReceiveAbort, N!Receives
  <2>9. ~computing'
    BY <1>13 DEF N!ReceiveAbort
  <2>10. InFlight' <=> computing' \/ ~Free(toBoard', A) \/ ~Free(events', Y)
    BY DEF InFlight, A, Y
  <2>11. InFlight' => InFlight
    BY <1>4, <2>3, <2>7, <2>8, <2>9, <2>10
  <2> QED
    BY <1>5, <1>6, <1>11, <2>5, <2>6, <2>11
<1>14. CASE N!ReceiveCompute
  <2>1. /\ toBoard # <<>> /\ Head(toBoard) \in A /\ toBoard' = Tail(toBoard)
        /\ events' = Append(events, N!Simple("OK")) /\ computing'
    BY <1>0, <1>14, RequestKinds DEF N!ReceiveCompute, N!Receives, N!Send, A
  <2>2. Head(toBoard) \in Asks /\ ~Free(toBoard, Asks) /\ Free(Tail(toBoard), Asks) /\ InFlight
    BY <1>0, <1>4, <2>1, AskKinds, Popped DEF OneToken, A
  <2>3. ~computing /\ Free(events, Signals)
    BY <2>2 DEF OneToken
  <2>4. Free(events, Done) /\ Free(events, Abort)
    BY <2>3, DataKinds, FreeSubset
  <2>5. ASSUME ~ChunkStored(grid, a, b, c) PROVE Coming(a, b)'
    <3>1. ~Free(toBoard, Asked(c))
      BY <1>6, <1>7, <2>2, <2>3, <2>4, <2>5 DEF Coming
    <3>2. Free(Tail(toBoard), Asked(c))
      <4>1. Asked(c) \subseteq Asks
        BY AskKinds DEF Asked
      <4> QED
        BY <2>2, <4>1, FreeSubset
    <3>3. Head(toBoard) \in Asked(c)
      <4> DEFINE S == Asked(c)
      <4>1. ~Free(toBoard, S) /\ Free(Tail(toBoard), S)
        BY <3>1, <3>2
      <4> HIDE DEF S
      <4>2. Head(toBoard) \in S
        BY <1>0, <2>1, <4>1, Popped
      <4> QED
        BY <4>2 DEF S
    <3>4. chunk' = Head(toBoard).chunk /\ pixel' = 0
      BY <1>14, <2>3 DEF N!ReceiveCompute
    <3>5. ASSUME NEW x \in 0 .. a - 1, NEW y \in 0 .. b - 1 PROVE ~(Place(a, x, y) < pixel')
      <4>1. y \in Nat
        BY <1>0, SMT
      <4>2. Place(a, x, y) \in Nat
        BY <1>0, <4>1, PlaceOrder
      <4> QED
        BY <3>4, <4>2, SMT
    <3>6. chunk'.cid = comp'.cid
      BY <1>0, <3>3, <3>4 DEF Asked
    <3> QED
      BY <2>1, <3>5, <3>6 DEF Coming
  <2> QED
    BY <1>2, <1>5, <1>6, <1>10, <1>11, <2>1, <2>2, <2>5
<1>15. CASE N!ComputePixel
  <2>1. /\ computing /\ chunk \in GoodChunks(a, b) /\ pixel = Place(a, i, j) /\ i < a
        /\ i \in Nat /\ j \in Nat /\ chunk \in ChunkType /\ params \in ParamType /\ InFlight
    BY <1>0, <1>4, <1>15 DEF N!ComputePixel, AlignedLinks, BoardType, Place
  <2> DEFINE m == N!Data(chunk, i, j, params)
  <2>2. /\ m \in D /\ m \in Events
        /\ m.chunk = chunk /\ m.i_re = i /\ m.i_im = j
    BY <2>1, MessageTypes DEF N!Data, Events, D
  <2>3. events' = Append(events, m) /\ chunk' = chunk /\ pixel' = pixel + 1 /\ computing'
    BY <1>15, <2>1 DEF N!ComputePixel, N!Send
  <2>4. Free(toBoard, Asks) /\ Free(events, Signals)
    BY <2>1 DEF OneToken
  <2>5. Free(toBoard, Asked(c)) /\ Free(events, Done) /\ Free(events, Abort)
    <3>1. Asked(c) \subseteq Asks
      BY AskKinds DEF Asked
    <3> QED
      BY <2>4, <3>1, DataKinds, FreeSubset
  <2>6. ASSUME ~ChunkStored(grid, a, b, c)
        PROVE  /\ chunk.cid = c
               /\ \A x \in 0 .. a - 1, y \in 0 .. b - 1 : Place(a, x, y) < pixel => Covered(a, b, x, y)
    BY <1>6, <1>7, <2>1, <2>5, <2>6 DEF Coming
  <2>7. i \in 0 .. a - 1
    BY <1>0, <2>1, SMT
  <2>7a. pixel \in Nat
    BY <1>0 DEF BoardType
  <2> HIDE DEF m
  <2>8. ASSUME ~ChunkStored(grid, a, b, c) PROVE Coming(a, b)'
    <3>1. ASSUME NEW x \in 0 .. a - 1, NEW y \in 0 .. b - 1, Place(a, x, y) < pixel'
          PROVE  Covered(a, b, x, y)'
      <4>0. y \in Nat /\ Place(a, x, y) \in Nat
        <5>1. y \in Nat
          BY <1>0, SMT
        <5> QED
          BY <1>0, <5>1, PlaceOrder
      <4>1. Place(a, x, y) < pixel \/ Place(a, x, y) = pixel
        BY <2>3, <2>7a, <3>1, <4>0, SMT
      <4>2. CASE Place(a, x, y) < pixel
        <5>1. Covered(a, b, x, y)
          BY <2>6, <2>8, <4>2
        <5>2. ~Free(events, OfPixel(c, x, y)) => ~Free(events', OfPixel(c, x, y))
          BY <1>1, <2>2, <2>3
        <5> QED
          BY <1>0, <5>1, <5>2 DEF Covered
      <4>3. CASE Place(a, x, y) = pixel
        <5>1. x = i /\ y = j
          BY <1>0, <2>1, <2>7, <4>0, <4>3, PlaceOrder
        <5>2. m \in OfPixel(c, x, y)
          BY <2>2, <2>6, <2>8, <5>1 DEF OfPixel, D
        <5>3. ~Free(events', OfPixel(c, x, y))
          BY <1>1, <2>2, <2>3, <5>2
        <5> QED
          BY <1>0, <5>3 DEF Covered
      <4> QED
        BY <4>1, <4>2, <4>3
    <3>2. chunk'.cid = comp'.cid
      BY <1>0, <2>3, <2>6, <2>8
    <3> QED
      BY <2>3, <3>1, <3>2 DEF Coming
  <2>9. InOrder(a, b)'
    <3> SUFFICES ASSUME NEW x \in 0 .. a - 1, NEW y \in 0 .. b - 1, ~Stored(grid, a, b, c, x, y)
                 PROVE  Heralded(events', OfPixel(c, x, y), Later(c, a, x, y))
      BY <1>0 DEF InOrder
    <3> DEFINE S == OfPixel(c, x, y)
               T == Later(c, a, x, y)
    <3>1. Heralded(events, S, T)
      BY <1>6, <1>11, <2>1 DEF InOrder
    <3>2. m \notin T \/ ~Free(events, S)
      <4> SUFFICES ASSUME m \in T PROVE ~Free(events, S)
        OBVIOUS
      <4>1. Place(a, x, y) < pixel
        BY <2>1, <2>2 DEF Later
      <4>2. ~ChunkStored(grid, a, b, c)
        BY DEF ChunkStored
      <4>3. Covered(a, b, x, y)
        BY <2>6, <4>1, <4>2
      <4> QED
        BY <4>3 DEF Covered
    <3> HIDE DEF S, T
    <3>3. Heralded(events', S, T)
      BY <1>0, <2>2, <2>3, <3>1, <3>2, PushedMore
    <3> QED
      BY <3>3 DEF S, T
  <2> QED
    BY <1>5, <1>6, <2>1, <2>8, <2>9
<1>16. CASE N!ChunkDone
  <2>1. /\ computing /\ chunk \in GoodChunks(a, b) /\ pixel <= a * b /\ pixel \in Nat
        /\ chunk.n_re * chunk.n_im <= pixel /\ InFlight
    BY <1>0, <1>4, <1>16 DEF N!ChunkDone, AlignedLinks, BoardType
  <2>2. a * b <= pixel /\ a * b \in Nat
    <3>1. a * b \in Nat
      BY <1>0, SMT
    <3> QED
      BY <2>1, <3>1 DEF GoodChunks
  <2>3. Free(toBoard, Asked(c)) /\ Free(events, Done) /\ Free(events, Abort)
    <3>1. Asked(c) \subseteq Asks
      BY AskKinds DEF Asked
    <3>2. Free(toBoard, Asks) /\ Free(events, Signals)
      BY <2>1 DEF OneToken
    <3> QED
      BY <3>1, <3>2, DataKinds, FreeSubset
  <2>4. events' = Append(events, N!Simple("DONE"))
    BY <1>16 DEF N!ChunkDone, N!Send
  <2>5. ASSUME ~ChunkStored(grid, a, b, c) PROVE Coming(a, b)'
    <3>1. ASSUME NEW x \in 0 .. a - 1, NEW y \in 0 .. b - 1 PROVE Covered(a, b, x, y)'
      <4>1. Place(a, x, y) < pixel
        <5> DEFINE n == a * b
        <5>1. a - 1 \in 0 .. a - 1 /\ b - 1 \in 0 .. b - 1 /\ (a - 1) + 1 = a /\ (b - 1) + 1 = b /\ y \in Nat
          BY <1>0, SMT
        <5>2. Place(a, x, y) < n /\ Place(a, x, y) \in Nat
          BY <1>0, <5>1, PlaceBounds, PlaceOrder
        <5>3. n <= pixel /\ n \in Nat
          BY <2>2
        <5> HIDE DEF n
        <5> QED
          BY <2>1, <5>2, <5>3, SMT
      <4>2. Covered(a, b, x, y)
        BY <1>6, <1>7, <2>1, <2>3, <2>5, <4>1 DEF Coming
      <4>3. ~Free(events, OfPixel(c, x, y)) => ~Free(events', OfPixel(c, x, y))
        BY <1>1, <1>2, <2>4
      <4> QED
        BY <1>0, <4>2, <4>3 DEF Covered
    <3>2. ~Free(events', Done)
      BY <1>1, <1>2, <2>4
    <3> QED
      BY <3>1, <3>2 DEF Coming
  <2> QED
    BY <1>2, <1>5, <1>6, <1>10, <1>11, <2>1, <2>4, <2>5
<1> QED
  BY <1>12, <1>13, <1>14, <1>15, <1>16 DEF Busy

LEMMA FlowInit == Init => FlowInv
<1> SUFFICES ASSUME Init PROVE FlowInv
  OBVIOUS
<1>1. PICK a, b \in 1 .. 255 : Good(comp, a, b) /\ AlignedLinks(a, b)
  BY SyncInit DEF SyncInv
<1>2. /\ events = <<N!Simple("STARTUP")>> /\ toBoard = <<>> /\ computing = FALSE /\ comp = C!CompInit
  BY DEF Init, C!Init, N!BoardInit
<1>3. ~comp.done /\ ~comp.computing
  BY <1>2 DEF C!CompInit
<1>4. Free(events, DataEvents(ChunkType) \cup Done)
  <2>1. N!Simple("STARTUP") \notin Done
    <3>1. N!Simple("STARTUP").type = "STARTUP" /\ N!Simple("DONE").type = "DONE"
      BY DEF N!Simple
    <3> QED
      BY <3>1 DEF Done
  <2>2. N!Simple("STARTUP") \notin DataEvents(ChunkType)
    BY DataKinds
  <2> QED
    BY <1>2, <2>1, <2>2 DEF Free
<1>5. Flow(a, b)
  BY <1>2, <1>3, <1>4 DEF Flow, InFlight, Free
<1> QED
  BY <1>1, <1>5, SyncInit DEF FlowInv, SyncInv

LEMMA FlowNext ==
    ASSUME "start" \notin Hasty, "abort" \notin Hasty, "resize" \notin Keys, MaxRestarts = 0
    PROVE  FlowInv /\ [Next]_vars => FlowInv'
<1> SUFFICES ASSUME FlowInv, [Next]_vars PROVE FlowInv'
  OBVIOUS
<1>1. PICK a, b \in 1 .. 255 : Good(comp, a, b) /\ AlignedLinks(a, b) /\ (Complete(grid) \/ Flow(a, b))
  BY DEF FlowInv
<1>2. WaitsInv /\ TypeInv /\ Patient /\ OneToken /\ DataFirst /\ ComputingRuns /\ restarts \in Nat
  BY DEF FlowInv, WaitsInv
<1>3. WaitsInv' /\ DataFirst' /\ ComputingRuns' /\ restarts' \in Nat
  BY <1>2, WaitsNext, DataFirstKept, RunsKept, StepKinds
<1>4. ~HandleResize
  <2> SUFFICES ASSUME HandleResize PROVE FALSE
    OBVIOUS
  <2>1. Head(events) \in Events /\ Head(events).type = "key" /\ Head(events).key = "resize"
    BY <1>2, Handled DEF HandleResize
  <2>2. Head(events).key \in Keys \cup {"start"}
    BY <2>1, EventKinds
  <2> QED
    BY <2>1, <2>2
<1>5. Good(comp', a, b) /\ AlignedLinks(a, b)'
  BY <1>1, <1>2, <1>4, CompStep, AlignedLinksKept
<1>6. (Complete(grid) \/ Flow(a, b))'
  <2>1. CASE Complete(grid)
    <3>1. Complete(grid')
      BY <1>1, <1>2, <1>4, <2>1, GridKept
    <3> QED
      BY <3>1 DEF Complete
  <2>2. CASE Flow(a, b)
    <3>1. CASE Calm
      BY <1>1, <1>2, <1>4, <2>2, <3>1, FlowCalm
    <3>2. CASE HandleStart
      BY <1>1, <1>2, <2>2, <3>2, FlowStart
    <3>3. CASE HandleData
      BY <1>1, <1>2, <1>4, <2>2, <3>3, FlowData
    <3>4. CASE HandleDone
      BY <1>1, <1>2, <2>2, <3>4, FlowDone
    <3>5. CASE HandleBoardAbort
      BY <1>1, <1>2, <2>2, <3>5, FlowAborted
    <3>6. CASE Busy
      BY <1>1, <1>2, <2>2, <3>6, FlowBusy
    <3> QED
      BY <1>2, <3>1, <3>2, <3>3, <3>4, <3>5, <3>6, StepKinds
  <2> QED
    BY <1>1, <2>1, <2>2
<1> QED
  BY <1>3, <1>5, <1>6 DEF FlowInv

\* DoneMeansComplete of SemSystem: when the keys that start and stop wait
\* until all is quiet, and neither the size of the image changes nor the board
\* is reset, the host says that the computation is done only when every pixel
\* of the image has been stored, whatever the other keys (a reset to chunk 0
\* between two chunks included) and the user button do.
THEOREM DoneIsComplete ==
    ASSUME "start" \notin Hasty, "abort" \notin Hasty, "resize" \notin Keys, MaxRestarts = 0
    PROVE  Spec => []DoneMeansComplete
<1>1. FlowInv => DoneMeansComplete
  BY DEF FlowInv, Flow, DoneMeansComplete, Complete
<1> QED
  BY <1>1, FlowInit, FlowNext, PTL DEF Spec

-----------------------------------------------------------------------------
(* What the parts promise alone they keep in the system, whatever keys are *)
(* pressed at any moment and however often the board is reset.             *)

InsideData == {m \in DataEvents(ChunkType) : m.i_re < m.chunk.n_re /\ m.i_im < m.chunk.n_im}
Outside == DataEvents(ChunkType) \ InsideData
BoardWord == Free(events, Outside) /\ N!RowByRow

LEMMA NotOutside == \A m \in Reports \cup KeyEvents : m \in Events /\ m \notin Outside
<1>1. \A m \in Reports \cup KeyEvents : m \in Events /\ m.type # "COMPUTE_DATA"
  BY DEF Events, Reports, KeyEvents, N!Simple, Key, NextChunkEvent
<1>2. \A m \in Outside : m.type = "COMPUTE_DATA"
  BY DEF Outside, DataEvents
<1> QED
  BY <1>1, <1>2

\* The steps of the host and the user: the board is as it was.
LEMMA HostKeepsWord ==
    ASSUME TypeInv, BoardWord, Main \/ (\E k \in Keys : Press(k)) \/ UNCHANGED vars
    PROVE  BoardWord' /\ UNCHANGED boardVars
<1>0. events \in Seq(Events) /\ Free(events, Outside)
  BY DEF TypeInv, LinkType, BoardWord
<1>1. UNCHANGED boardVars
  BY DEF Main, HandleKey, HandleMessage, HandleSet, HandleStart, HandleCpu, HandleClear,
         HandleAbort, HandleReset, HandleResize, HandleVersion, HandleStartup, HandleReport, HandleDone,
         HandleData, HandleBoardAbort, Press, Unmoved, vars
<1>2. N!RowByRow'
  BY <1>1 DEF BoardWord, N!RowByRow, boardVars
<1>3. ASSUME events # <<>> PROVE Tail(events) \in Seq(Events) /\ Free(Tail(events), Outside)
  BY <1>0, <1>3, Popped
<1>4. NextChunkEvent \in KeyEvents /\ \A k \in Keys : Key(k) \in KeyEvents
  BY DEF KeyEvents
<1>5. CASE Main
  <2>1. CASE HandleDone
    <3>1. events # <<>>
      BY <2>1 DEF HandleDone
    <3>2. Free(Append(Tail(events), NextChunkEvent), Outside)
      BY <1>3, <1>4, <3>1, NotOutside, Pushed
    <3> QED
      BY <1>1, <1>2, <1>3, <2>1, <3>1, <3>2 DEF HandleDone, BoardWord
  <2>2. CASE ~HandleDone
    <3>1. events # <<>> /\ events' = Tail(events)
      BY <1>5, <2>2, MainStep DEF MinorHandling, HandleStart, HandleBoardAbort, HandleAbort, PopsKey, Pops
    <3> QED
      BY <1>1, <1>2, <1>3, <3>1 DEF BoardWord
  <2> QED
    BY <2>1, <2>2
<1>6. ASSUME NEW k \in Keys, Press(k) PROVE BoardWord'
  <2>1. events' = Append(events, Key(k))
    BY <1>6 DEF Press
  <2>2. Free(events', Outside)
    BY <1>0, <1>4, <2>1, NotOutside, Pushed
  <2> QED
    BY <1>2, <2>2 DEF BoardWord
<1>7. CASE UNCHANGED vars
  BY <1>0, <1>2, <1>7 DEF vars, BoardWord
<1> QED
  BY <1>1, <1>5, <1>6, <1>7

\* One pixel: it lies in its chunk, and the next one does or the chunk is full.
LEMMA PixelKeepsWord ==
    ASSUME TypeInv, BoardWord, N!ComputePixel
    PROVE  BoardWord'
<1> DEFINE a == chunk.n_re
           b == chunk.n_im
<1>0. /\ events \in Seq(Events) /\ Free(events, Outside)
      /\ chunk \in ChunkType /\ i \in Nat /\ j \in Nat /\ params \in ParamType
      /\ a \in Nat \ {0} /\ b \in Nat \ {0}
      /\ pixel = j * a + i /\ i < a /\ a * b > pixel
  BY DEF TypeInv, LinkType, BoardType, BoardWord, N!RowByRow, N!ComputePixel, ChunkType
<1>1. /\ j < b /\ j * a + i \in Nat /\ a * b \in Nat
      /\ (i + 1) % a = 0 => i + 1 = a /\ (j * a + i) + 1 = (j + 1) * a + 0
      /\ (i + 1) % a # 0 => i + 1 < a
  <2> HIDE DEF a, b
  <2> QED
    BY <1>0, NP!NextPosition
<1>2. N!Data(chunk, i, j, params) \in Events /\ N!Data(chunk, i, j, params) \notin Outside
  <2>1. N!Data(chunk, i, j, params) \in DataEvents(ChunkType)
    BY <1>0, MessageTypes
  <2>2. N!Data(chunk, i, j, params) \in InsideData
    BY <1>0, <1>1, <2>1 DEF InsideData, N!Data
  <2> QED
    BY <2>1, <2>2 DEF Outside, Events
<1>3. Free(events', Outside)
  <2>1. events' = Append(events, N!Data(chunk, i, j, params))
    BY DEF N!ComputePixel, N!Send
  <2> QED
    BY <1>0, <1>2, <2>1, Pushed
<1>4. pixel' = j' * a + i' /\ i' < a /\ pixel' <= a * b
  <2> DEFINE n == a * b
             r == j * a
             r1 == (j + 1) * a
  <2>1. n \in Nat /\ r \in Nat /\ r1 = r + a /\ pixel = r + i /\ n > pixel /\ pixel' = pixel + 1
    <3>1. (j + 1) * a = j * a + a /\ j * a \in Nat
      BY <1>0, SMT
    <3> QED
      BY <1>0, <1>1, <3>1 DEF N!ComputePixel
  <2>2. CASE (i + 1) % a = 0
    <3>1. i' = 0 /\ j' = j + 1 /\ pixel + 1 = (j + 1) * a + 0
      BY <1>0, <1>1, <2>2 DEF N!ComputePixel
    <3>2. j' * a + i' = r1 + 0 /\ pixel + 1 = r1 + 0
      BY <3>1
    <3> HIDE DEF n, r, r1, a, b
    <3>3. pixel + 1 <= n /\ 0 < a
      BY <1>0, <2>1, SMT
    <3> QED
      BY <1>0, <2>1, <3>1, <3>2, <3>3 DEF n
  <2>3. CASE (i + 1) % a # 0
    <3>1. i' = i + 1 /\ j' = j /\ i + 1 < a
      BY <1>0, <1>1, <2>3 DEF N!ComputePixel
    <3>2. j' * a + i' = r + (i + 1)
      BY <3>1
    <3> HIDE DEF n, r, r1, a, b
    <3>3. pixel + 1 = r + (i + 1) /\ pixel + 1 <= n
      BY <1>0, <2>1, SMT
    <3> QED
      BY <1>0, <2>1, <3>1, <3>2, <3>3 DEF n
  <2> QED
    BY <2>2, <2>3
<1>5. chunk' = chunk
  BY DEF N!ComputePixel
<1> QED
  BY <1>3, <1>4, <1>5 DEF BoardWord, N!RowByRow

\* A chunk that is taken starts at its first pixel.
LEMMA ChunkKeepsWord ==
    ASSUME TypeInv, BoardWord, N!ReceiveCompute
    PROVE  BoardWord'
<1>0. events \in Seq(Events) /\ toBoard \in Seq(Requests) /\ Free(events, Outside)
  BY DEF TypeInv, LinkType, BoardWord
<1>1. Free(events', Outside)
  <2>1. N!Simple("OK") \in Reports /\ events' = Append(events, N!Simple("OK"))
    BY DEF N!ReceiveCompute, N!Send, Reports
  <2> QED
    BY <1>0, <2>1, NotOutside, Pushed
<1>2. CASE computing
  BY <1>1, <1>2 DEF N!ReceiveCompute, BoardWord, N!RowByRow
<1>3. CASE ~computing
  <2>1. Head(toBoard).chunk \in ChunkType
    BY <1>0, RequestKinds DEF N!ReceiveCompute, N!Receives
  <2>2. chunk' \in ChunkType /\ pixel' = 0 /\ j' = 0 /\ i' = 0
    BY <1>3, <2>1 DEF N!ReceiveCompute
  <2>3. chunk'.n_re \in Nat \ {0} /\ chunk'.n_im \in Nat \ {0}
    BY <2>2 DEF ChunkType
  <2>4. 0 = 0 * chunk'.n_re + 0 /\ 0 < chunk'.n_re /\ 0 <= chunk'.n_re * chunk'.n_im
    <3>1. 0 * chunk'.n_re = 0 /\ chunk'.n_re * chunk'.n_im \in Nat
      BY <2>3, SMT
    <3> QED
      BY <2>3, <3>1, SMT
  <2> QED
    BY <1>1, <2>2, <2>4 DEF BoardWord, N!RowByRow
<1> QED
  BY <1>2, <1>3

\* The other steps of the board, which end a chunk or say something short.
LEMMA ReportKeepsWord ==
    ASSUME TypeInv, BoardWord,
           \/ N!Check \/ N!ReceiveGetVersion \/ N!ReceiveAbort \/ N!ReceiveSetCompute
           \/ N!ChunkDone \/ PressButton \/ RestartBoard
    PROVE  BoardWord'
<1>0. events \in Seq(Events) /\ Free(events, Outside)
  BY DEF TypeInv, LinkType, BoardWord
<1>1. N!RowByRow'
  BY DEF N!Check, N!ReceiveGetVersion, N!ReceiveAbort, N!ReceiveSetCompute, N!ChunkDone,
         PressButton, N!Button, RestartBoard, N!Restart, BoardWord, N!RowByRow
<1>2. \A t \in {"STARTUP", "OK", "VERSION", "DONE", "ABORT"} : N!Simple(t) \in Reports
  BY DEF Reports
<1>3. ASSUME NEW t \in {"STARTUP", "OK", "VERSION", "DONE", "ABORT"}
      PROVE  Append(events, N!Simple(t)) \in Seq(Events) /\ Free(Append(events, N!Simple(t)), Outside)
  BY <1>0, <1>2, NotOutside, Pushed
<1>4. CASE N!ReceiveAbort
  <2> DEFINE s == Append(events, N!Simple("OK"))
  <2>1. events' = Append(s, N!Simple("ABORT"))
    BY <1>0, <1>2, <1>4, NotOutside, TwoAtOnce DEF N!ReceiveAbort
  <2>2. s \in Seq(Events) /\ Free(s, Outside)
    BY <1>3
  <2> HIDE DEF s
  <2>3. Free(events', Outside)
    BY <1>2, <2>1, <2>2, NotOutside, Pushed
  <2> QED
    BY <1>1, <2>3 DEF BoardWord
<1>5. CASE ~N!ReceiveAbort
  <2>1. \/ events' = events
        \/ \E t \in {"STARTUP", "OK", "VERSION", "DONE", "ABORT"} : events' = Append(events, N!Simple(t))
    BY <1>5 DEF N!Check, N!ReceiveGetVersion, N!ReceiveSetCompute, N!ChunkDone,
         PressButton, N!Button, RestartBoard, N!Restart, N!Send
  <2>2. Free(events', Outside)
    BY <1>0, <1>3, <2>1
  <2> QED
    BY <1>1, <2>2 DEF BoardWord
<1> QED
  BY <1>4, <1>5

LEMMA NextKeepsWord == TypeInv /\ BoardWord /\ [Next]_vars => BoardWord'
BY HostKeepsWord, PixelKeepsWord, ChunkKeepsWord, ReportKeepsWord DEF Next, Board, N!Work, N!Receive

\* A chunk ends with a report, whatever the host does meanwhile.
LEMMA EndIsSeen ==
    ASSUME TypeInv, BoardWord, [Next]_vars, computing, ~computing' \/ chunk' # chunk
    PROVE  /\ ~computing'
           /\ Len(events') > Len(events)
           /\ events'[Len(events')].type \in {"DONE", "ABORT", "STARTUP"}
<1>0. events \in Seq(Events) /\ Len(events) \in Nat
  BY DEF TypeInv, LinkType
<1>1. \A t \in {"STARTUP", "OK", "VERSION", "DONE", "ABORT"} : N!Simple(t) \in Events /\ N!Simple(t).type = t
  BY MessageTypes DEF N!Simple
<1>2. ASSUME NEW t \in {"STARTUP", "DONE", "ABORT"}, events' = Append(events, N!Simple(t))
      PROVE  Len(events') > Len(events) /\ events'[Len(events')].type \in {"DONE", "ABORT", "STARTUP"}
  <2>1. N!Simple(t) \in Events /\ N!Simple(t).type = t
    BY <1>1
  <2>2. Len(events') = Len(events) + 1 /\ events'[Len(events')] = N!Simple(t)
    BY <1>0, <1>2, <2>1
  <2> QED
    BY <1>0, <2>1, <2>2
<1>3. CASE N!ReceiveAbort
  <2> DEFINE s == Append(events, N!Simple("OK"))
  <2>1. events' = Append(s, N!Simple("ABORT"))
    BY <1>0, <1>1, <1>3, TwoAtOnce DEF N!ReceiveAbort
  <2>2. s \in Seq(Events) /\ Len(s) = Len(events) + 1
    BY <1>0, <1>1
  <2> HIDE DEF s
  <2>3. Len(events') = Len(s) + 1 /\ events'[Len(events')] = N!Simple("ABORT")
    BY <1>1, <2>1, <2>2
  <2> QED
    BY <1>0, <1>1, <1>3, <2>2, <2>3 DEF N!ReceiveAbort
<1>4. CASE N!Check
  BY <1>2, <1>4 DEF N!Check, N!Send
<1>5. CASE N!ChunkDone
  BY <1>2, <1>5 DEF N!ChunkDone, N!Send
<1>6. CASE RestartBoard
  BY <1>2, <1>6 DEF RestartBoard, N!Restart, N!Send
<1>7. N!ReceiveGetVersion \/ N!ReceiveSetCompute \/ N!ReceiveCompute \/ N!ComputePixel
        \/ PressButton \/ UNCHANGED boardVars => FALSE
  BY DEF N!ReceiveGetVersion, N!ReceiveSetCompute, N!ReceiveCompute, N!ComputePixel, PressButton,
         N!Button, boardVars
<1> QED
  BY <1>3, <1>4, <1>5, <1>6, <1>7, HostKeepsWord DEF Next, Board, N!Work, N!Receive

\* What Nucleo and Computation promise alone, with a host that sends anything
\* and functions called in any order, holds of the two joined by the links
\* (RowByRow, DataInside and ReportsEnd of main.cpp, CursorMatchesCid of
\* computation.c): the system is no more than its parts allow.
THEOREM PartsKeepTheirWord ==
    Spec => /\ []N!RowByRow /\ []N!DataInside /\ N!ReportsEnd
            /\ []C!CursorMatchesCid
<1>1. Init => BoardWord
  <2> SUFFICES ASSUME Init PROVE BoardWord
    OBVIOUS
  <2>1. events = <<N!Simple("STARTUP")>> /\ computing = FALSE
    BY DEF Init, N!BoardInit
  <2>2. N!Simple("STARTUP") \notin Outside
    BY NotOutside DEF Reports
  <2> QED
    BY <2>1, <2>2 DEF BoardWord, Free, N!RowByRow
<1>2. TypeInv /\ BoardWord => N!RowByRow /\ N!DataInside /\ C!CursorMatchesCid
  <2> SUFFICES ASSUME TypeInv, BoardWord PROVE N!DataInside /\ C!CursorMatchesCid
    BY DEF BoardWord
  <2>1. N!DataInside
    <3> SUFFICES ASSUME NEW k \in DOMAIN events, events[k].type = "COMPUTE_DATA"
                 PROVE  events[k].i_re < events[k].chunk.n_re /\ events[k].i_im < events[k].chunk.n_im
      BY DEF N!DataInside
    <3>1. events[k] \in Events /\ events[k] \notin Outside
      BY DEF TypeInv, LinkType, BoardWord, Free
    <3>2. events[k] \in DataEvents(ChunkType)
      BY <3>1 DEF Events, KeyEvents, Reports, Key, NextChunkEvent, N!Simple
    <3> QED
      BY <3>1, <3>2 DEF Outside, InsideData
  <2>2. PICK a, b \in 1 .. 255 : Good(comp, a, b)
    BY DEF TypeInv, Sized
  <2> QED
    BY <2>1, <2>2, GoodMeans DEF C!CursorMatchesCid
<1>3. TypeInv /\ BoardWord /\ [Next]_vars =>
        [computing /\ (~computing' \/ chunk' # chunk)
           => /\ ~computing'
              /\ Len(events') > Len(events)
              /\ events'[Len(events')].type \in {"DONE", "ABORT", "STARTUP"}]_N!nucleoVars
  BY EndIsSeen
<1> QED
  BY <1>1, <1>2, <1>3, InitTyped, NextTyped, NextKeepsWord, PTL DEF Spec, N!ReportsEnd
=============================================================================
